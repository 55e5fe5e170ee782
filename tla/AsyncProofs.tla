---------------------------- MODULE AsyncProofs ----------------------------
(***************************************************************************)
(* Proofs about the asynchronous half of the engine.  First what each      *)
(* operation of the engine preserves, whatever the handlers and the values *)
(* of the program that uses it; then that one resolving function at a time *)
(* can settle a promise, that a settled promise keeps its outcome, that    *)
(* suspended code is continued once, and that a generator serves its       *)
(* requests in the order they came in.                                     *)
(***************************************************************************)
EXTENDS Async, SequenceTheorems, FiniteSetTheorems, TLAPS

AJob(H, V) == ReactionJobs(H, V) \cup ThenableJobs

\* What no operation takes back.
Grows(e, d) ==
  /\ e.resolved \subseteq d.resolved
  /\ \A p \in Promise : e.pairs[p] <= d.pairs[p] /\ (Settled(e, p) => Outcome(d, p) = Outcome(e, p))

\* What a call of the functions of a pair does besides.
Resolves(e, d, H, V, pair) ==
  /\ Good(d, H, V) /\ Grows(e, d)
  /\ Made(d) = Made(e) /\ d.resolved = e.resolved \cup {pair}
  /\ \A S : PairsIn(e, S) => PairsIn(d, S)

-----------------------------------------------------------------------------
(* Queues.                                                                 *)

\* Jobs of reactions are jobs.
LEMMA JobsJoined ==
  ASSUME NEW H, NEW V, NEW e \in Engine(H, V), NEW R \in Seq(ReactionJobs(H, V))
  PROVE  e.jobs \o R \in Seq(AJob(H, V))
<1> DEFINE S == AJob(H, V)
<1>1. e.jobs \in Seq(S) /\ ReactionJobs(H, V) \subseteq S
  BY DEF Engine, AJob
<1> HIDE DEF S
<1>2. R \in Seq(S)
  BY <1>1, SeqMonotonic
<1>3. e.jobs \o R \in Seq(S)
  BY <1>1, <1>2, ConcatProperties
<1> QED
  BY <1>3 DEF S

\* Adding jobs of reactions makes nobody wait for a thenable.
LEMMA AddReactionJobs ==
  ASSUME NEW H, NEW V, NEW e \in Engine(H, V), NEW R \in Seq(ReactionJobs(H, V)),
         NEW d, d.jobs = e.jobs \o R
  PROVE  /\ d.jobs \in Seq(AJob(H, V))
         /\ \A p \in Promise : (Waits(d, p) <=> Waits(e, p)) /\ (Once(e, p) => Once(d, p))
         /\ \A i \in DOMAIN d.jobs :
              \/ i \in DOMAIN e.jobs /\ d.jobs[i] = e.jobs[i]
              \/ \E j \in DOMAIN R : d.jobs[i] = R[j]
<1> DEFINE q == e.jobs
           r == d.jobs
<1>1. q \in Seq(AJob(H, V))
  BY DEF Engine, AJob
<1>2. R \in Seq(AJob(H, V))
  BY SeqMonotonic DEF AJob
<1>3. /\ r \in Seq(AJob(H, V)) /\ Len(r) = Len(q) + Len(R)
      /\ \A i \in 1 .. Len(q) + Len(R) : r[i] = IF i <= Len(q) THEN q[i] ELSE R[i - Len(q)]
  BY <1>1, <1>2, ConcatProperties
<1>4. /\ Len(q) \in Nat /\ Len(R) \in Nat
      /\ DOMAIN q = 1 .. Len(q) /\ DOMAIN R = 1 .. Len(R) /\ DOMAIN r = 1 .. Len(q) + Len(R)
  BY <1>1, <1>2, <1>3, LenProperties
<1>5. ASSUME NEW j \in DOMAIN R PROVE R[j].kind # "thenable"
  <2>1. R[j] \in ReactionJobs(H, V)
    BY <1>4, ElementOfSeq
  <2> QED
    BY <2>1 DEF ReactionJobs
<1> HIDE DEF q, r
<1>6. ASSUME NEW i \in DOMAIN r
      PROVE  \/ i \in DOMAIN q /\ r[i] = q[i]
             \/ i \notin DOMAIN q /\ i - Len(q) \in DOMAIN R /\ r[i] = R[i - Len(q)]
  BY <1>3, <1>4
<1>7. \A i \in DOMAIN q : i \in DOMAIN r /\ r[i] = q[i]
  BY <1>3, <1>4
<1>8. ASSUME NEW p \in Promise
      PROVE  (Waits(d, p) <=> Waits(e, p)) /\ (Once(e, p) => Once(d, p))
  BY SMTT(60), <1>5, <1>6, <1>7 DEF Waits, Once, Adopts, q, r
<1> QED
  BY <1>3, <1>6, <1>8 DEF q, r

\* Adding the job of a thenable makes one promise wait.
LEMMA AddThenableJob ==
  ASSUME NEW H, NEW V, NEW e \in Engine(H, V), NEW p \in Promise, NEW v \in Promise \cup Thenable,
         NEW d, d.jobs = Append(e.jobs, ThenableJob(p, v)), ~Waits(e, p)
  PROVE  /\ \A o \in Promise : Waits(d, o) <=> Waits(e, o) \/ o = p
         /\ \A o \in Promise : Once(e, o) => Once(d, o)
         /\ \A i \in DOMAIN d.jobs :
              \/ i \in DOMAIN e.jobs /\ d.jobs[i] = e.jobs[i]
              \/ d.jobs[i] = ThenableJob(p, v)
<1> DEFINE q == e.jobs
           r == d.jobs
           job == ThenableJob(p, v)
<1>1. q \in Seq(AJob(H, V)) /\ job \in AJob(H, V)
  BY DEF Engine, AJob, ThenableJobs, ThenableJob
<1>2. job.kind = "thenable" /\ job.promise = p
  BY DEF ThenableJob
<1> HIDE DEF job
<1>3. /\ r \in Seq(AJob(H, V)) /\ Len(r) = Len(q) + 1
      /\ \A i \in 1 .. Len(q) : r[i] = q[i]
      /\ r[Len(q) + 1] = job
  BY <1>1 DEF job
<1>4. Len(q) \in Nat /\ DOMAIN q = 1 .. Len(q) /\ DOMAIN r = 1 .. Len(q) + 1
  BY <1>1, <1>3, LenProperties
<1> HIDE DEF q, r
<1>5. \A i \in DOMAIN r : (i \in DOMAIN q /\ r[i] = q[i]) \/ (i = Len(q) + 1 /\ r[i] = job)
  BY <1>3, <1>4
<1>6. (\A i \in DOMAIN q : i \in DOMAIN r /\ r[i] = q[i]) /\ Len(q) + 1 \in DOMAIN r /\ r[Len(q) + 1] = job
  BY <1>3, <1>4
<1>7. ASSUME NEW o \in Promise
      PROVE  (Waits(d, o) <=> Waits(e, o) \/ o = p) /\ (Once(e, o) => Once(d, o))
  BY <1>2, <1>5, <1>6 DEF Waits, Once, Adopts, q, r
<1> QED
  BY <1>3, <1>5, <1>7 DEF q, r, job

-----------------------------------------------------------------------------
(* Pairs of resolving functions.                                           *)

\* More pairs are made, none is lost.
LEMMA MadeGrows ==
  ASSUME NEW e, NEW d, \A p \in Promise : e.pairs[p] \in Nat /\ d.pairs[p] \in Nat /\ e.pairs[p] <= d.pairs[p]
  PROVE  Made(e) \subseteq Made(d)
<1> SUFFICES ASSUME NEW pair \in Pair, pair.n <= e.pairs[pair.of] PROVE pair.n <= d.pairs[pair.of]
  BY DEF Made
<1>1. pair.of \in Promise /\ pair.n \in Nat
  BY DEF Pair
<1> QED
  BY <1>1

\* Engines with the same reactions and jobs refer to the same pairs.
LEMMA SamePairs ==
  ASSUME NEW e, NEW d, d.promise = e.promise, d.jobs = e.jobs, NEW S, NEW T, S \subseteq T, PairsIn(e, S)
  PROVE  PairsIn(d, T)
BY DEF PairsIn, ReactionIn, JobIn, CapIn, HandlerIn

\* A promise all of whose pairs are used may be given another one.
LEMMA AnotherPair ==
  ASSUME NEW H, NEW V, NEW e \in Engine(H, V), Sound(e),
         NEW p \in Promise, \A o \in Promise : o # p => Resolver(e, o),
         ~Settled(e, p), ~Waits(e, p), \A n \in 1 .. e.pairs[p] : [of |-> p, n |-> n] \in e.resolved
  PROVE  LET d == CreateResolvingFunctions(e, p)
         IN /\ Good(d, H, V) /\ Grows(e, d)
            /\ Made(e) \subseteq Made(d) /\ NewPair(e, p) \in Made(d) \ Made(e)
            /\ d.resolved = e.resolved /\ \A S : PairsIn(e, S) => PairsIn(d, S)
<1> DEFINE d == CreateResolvingFunctions(e, p)
<1>1. /\ d \in Engine(H, V)
      /\ d.promise = e.promise /\ d.jobs = e.jobs /\ d.resolved = e.resolved
      /\ \A o \in Promise : e.pairs[o] \in Nat
      /\ d.pairs[p] = e.pairs[p] + 1
      /\ \A o \in Promise : o # p => d.pairs[o] = e.pairs[o]
  <2>1. /\ e.pairs \in [Promise -> Nat]
        /\ d.pairs = [e.pairs EXCEPT ![p] = @ + 1]
        /\ d.promise = e.promise /\ d.jobs = e.jobs /\ d.resolved = e.resolved /\ d.follows = e.follows
        /\ DOMAIN d = DOMAIN e
    BY DEF Engine, CreateResolvingFunctions
  <2>2. d.pairs \in [Promise -> Nat]
    BY <2>1
  <2>3. d \in Engine(H, V)
    BY <2>2 DEF Engine, CreateResolvingFunctions
  <2> QED
    BY <2>1, <2>3
<1> HIDE DEF d
<1>2. ASSUME NEW o \in Promise PROVE e.pairs[o] <= d.pairs[o]
  <2>1. e.pairs[o] \in Nat /\ (d.pairs[o] = e.pairs[o] \/ d.pairs[o] = e.pairs[o] + 1)
    BY <1>1
  <2> QED
    BY <2>1
<1>3. Made(e) \subseteq Made(d) /\ Sound(d)
  <2>1. Made(e) \subseteq Made(d)
    <3>1. \A o \in Promise : e.pairs[o] \in Nat /\ d.pairs[o] \in Nat /\ e.pairs[o] <= d.pairs[o]
      BY <1>1, <1>2 DEF Engine
    <3> QED
      BY <3>1, MadeGrows
  <2>2. PairsIn(d, Made(d))
    BY <1>1, <2>1, SamePairs DEF Sound
  <2> QED
    BY <1>1, <2>1, <2>2 DEF Sound, Settled, Once
<1>4. \A o \in Promise : (Settled(d, o) <=> Settled(e, o)) /\ (Waits(d, o) <=> Waits(e, o)) /\ Once(d, o)
  BY <1>1, <1>3 DEF Settled, Waits, Sound
<1>5. ASSUME NEW o \in Promise PROVE Resolver(d, o)
  <2>1. CASE o = p
    <3>1. Last(d, p) \notin e.resolved
      <4>1. \A pair \in e.resolved : pair.n <= e.pairs[pair.of]
        BY DEF Sound, Made
      <4> QED
        BY <4>1, <1>1 DEF Last
    <3> QED
      BY <2>1, <3>1, <1>1, <1>4 DEF Resolver
  <2>2. CASE o # p
    <3>1. d.pairs[o] = e.pairs[o] /\ d.resolved = e.resolved /\ Resolver(e, o)
      BY <2>2, <1>1
    <3>2. Last(d, o) = Last(e, o)
      BY <3>1 DEF Last
    <3>3. (Settled(d, o) <=> Settled(e, o)) /\ (Waits(d, o) <=> Waits(e, o)) /\ Once(d, o)
      BY <1>4
    <3> QED
      BY <3>1, <3>2, <3>3 DEF Resolver
  <2> QED
    BY <2>1, <2>2
<1>6. Grows(e, d)
  BY <1>1, <1>2 DEF Grows, Settled, Outcome
<1>7. NewPair(e, p) \in Made(d) \ Made(e)
  BY <1>1 DEF NewPair, Pair, Made
<1>8. \A S : PairsIn(e, S) => PairsIn(d, S)
  BY <1>1, SamePairs
<1> QED
  BY <1>1, <1>3, <1>5, <1>6, <1>7, <1>8 DEF Good, d

\* A new promise.
LEMMA CreateGood ==
  ASSUME NEW H, NEW V, NEW e, Good(e, H, V), Fresh(e) # {}
  PROVE  /\ Good(Create(e), H, V) /\ Grows(e, Create(e))
         /\ New(e) \in Promise /\ Cap(New(e)) \in Made(Create(e)) \ Made(e)
         /\ Made(e) \subseteq Made(Create(e)) /\ Create(e).resolved = e.resolved
         /\ \A S : PairsIn(e, S) => PairsIn(Create(e), S)
<1>1. New(e) \in Promise /\ e.pairs[New(e)] = 0
  BY DEF Fresh, New
<1>2. e \in Engine(H, V) /\ Sound(e) /\ \A o \in Promise : Resolver(e, o)
  BY DEF Good
<1>3. Last(e, New(e)) \notin e.resolved
  BY <1>1, <1>2 DEF Last, Engine, Pair
<1>4. ~Settled(e, New(e)) /\ ~Waits(e, New(e))
  BY <1>1, <1>2, <1>3 DEF Resolver
<1>5. NewPair(e, New(e)) = Cap(New(e))
  BY <1>1 DEF NewPair, Cap
<1> QED
  BY <1>1, <1>2, <1>4, <1>5, AnotherPair DEF Create

-----------------------------------------------------------------------------
(* Settling.                                                               *)

\* The jobs of the reactions of a promise.
LEMMA ReactionsBecomeJobs ==
  ASSUME NEW H, NEW V, NEW e \in Engine(H, V),
         NEW p \in Promise, NEW how \in How, NEW v \in V,
         NEW R, R = [i \in DOMAIN e.promise[p].reactions |-> ReactionJob(e.promise[p].reactions[i], how, v)]
  PROVE  R \in Seq(ReactionJobs(H, V)) /\ \A S : PairsIn(e, S) => \A i \in DOMAIN R : JobIn(R[i], S)
<1> DEFINE r == e.promise[p].reactions
<1>1. r \in Seq([on : [How -> H], cap : Capability])
  BY DEF Engine, PromiseState
<1>2. Len(r) \in Nat /\ DOMAIN r = 1 .. Len(r) /\ R = [i \in DOMAIN r |-> ReactionJob(r[i], how, v)]
  BY <1>1, LenProperties
<1>3. ASSUME NEW i \in DOMAIN r
      PROVE  /\ ReactionJob(r[i], how, v) \in ReactionJobs(H, V)
             /\ \A S : PairsIn(e, S) => JobIn(ReactionJob(r[i], how, v), S)
  <2>1. r[i] \in [on : [How -> H], cap : Capability]
    BY <1>1, <1>2, ElementOfSeq
  <2>2. \A S : PairsIn(e, S) => ReactionIn(r[i], S)
    BY DEF PairsIn
  <2> QED
    BY <2>1, <2>2 DEF ReactionJob, ReactionJobs, ReactionIn, JobIn
<1> HIDE DEF r
<1>4. R \in [1 .. Len(r) -> ReactionJobs(H, V)]
  BY <1>2, <1>3
<1>5. R \in Seq(ReactionJobs(H, V))
  BY <1>2, <1>4, SeqDef
<1> QED
  BY <1>2, <1>3, <1>5

\* Settling a pending promise changes that promise and adds the jobs of its reactions.
LEMMA SettleSound ==
  ASSUME NEW H, NEW V, NEW e \in Engine(H, V), Sound(e),
         NEW p \in Promise, ~Settled(e, p), NEW how \in How, NEW v \in V
  PROVE  LET d == Settle(e, p, how, v)
         IN /\ d \in Engine(H, V) /\ Sound(d)
            /\ d.pairs = e.pairs /\ d.resolved = e.resolved
            /\ \A o \in Promise : (Waits(d, o) <=> Waits(e, o)) /\ (o # p => d.promise[o] = e.promise[o])
            /\ Settled(d, p)
            /\ \A S : PairsIn(e, S) => PairsIn(d, S)
<1> DEFINE r == e.promise[p].reactions
           R == [i \in DOMAIN r |-> ReactionJob(r[i], how, v)]
           d == Settle(e, p, how, v)
<1>1. R \in Seq(ReactionJobs(H, V)) /\ \A S : PairsIn(e, S) => \A i \in DOMAIN R : JobIn(R[i], S)
  BY ReactionsBecomeJobs DEF Sound
<1>2. /\ d.promise = [e.promise EXCEPT ![p] = [state |-> how, result |-> v, reactions |-> <<>>]]
      /\ d.jobs = e.jobs \o R
      /\ d.pairs = e.pairs /\ d.resolved = e.resolved /\ d.follows = e.follows
      /\ DOMAIN d = DOMAIN e
      /\ d = [e EXCEPT !.promise = d.promise, !.jobs = d.jobs]
  BY DEF Engine, Settle
<1> HIDE DEF R, d
<1>3. /\ d.jobs \in Seq(AJob(H, V))
      /\ \A o \in Promise : (Waits(d, o) <=> Waits(e, o)) /\ (Once(e, o) => Once(d, o))
      /\ \A i \in DOMAIN d.jobs :
           \/ i \in DOMAIN e.jobs /\ d.jobs[i] = e.jobs[i]
           \/ \E j \in DOMAIN R : d.jobs[i] = R[j]
  <2>1. d.jobs = e.jobs \o R /\ R \in Seq(ReactionJobs(H, V))
    BY <1>1, <1>2
  <2>2. d.jobs \in Seq(AJob(H, V))
    BY ONLY <2>1, e \in Engine(H, V), JobsJoined
  <2>3. \A o \in Promise : (Waits(d, o) <=> Waits(e, o)) /\ (Once(e, o) => Once(d, o))
    BY <2>1, AddReactionJobs
  <2>4. \A i \in DOMAIN d.jobs :
           \/ i \in DOMAIN e.jobs /\ d.jobs[i] = e.jobs[i]
           \/ \E j \in DOMAIN R : d.jobs[i] = R[j]
    BY <2>1, AddReactionJobs
  <2> QED
    BY <2>2, <2>3, <2>4
<1>4. /\ e.promise \in [Promise -> PromiseState(H, V)]
      /\ [state |-> how, result |-> v, reactions |-> <<>>] \in PromiseState(H, V)
  BY EmptySeq DEF Engine, PromiseState
<1>5. d.promise \in [Promise -> PromiseState(H, V)]
  BY <1>2, <1>4
<1>6. d \in Engine(H, V)
  BY <1>2, <1>3, <1>5 DEF Engine, AJob
<1>7. /\ d.promise[p] = [state |-> how, result |-> v, reactions |-> <<>>]
      /\ \A o \in Promise : o # p => d.promise[o] = e.promise[o]
  BY <1>2, <1>4
<1>8. Settled(d, p)
  BY <1>7 DEF Settled, How
<1>9. ASSUME NEW S, PairsIn(e, S) PROVE PairsIn(d, S)
  <2>1. ASSUME NEW o \in Promise, NEW i \in DOMAIN d.promise[o].reactions
        PROVE  ReactionIn(d.promise[o].reactions[i], S)
    BY <1>7, <1>9 DEF PairsIn
  <2>2. ASSUME NEW i \in DOMAIN d.jobs PROVE JobIn(d.jobs[i], S)
    BY <1>1, <1>3, <1>9 DEF PairsIn
  <2> QED
    BY <2>1, <2>2 DEF PairsIn
<1>10. \A o \in Promise : Settled(d, o) => d.promise[o].reactions = <<>>
  BY <1>7 DEF Sound, Settled
<1>11. Made(d) = Made(e)
  BY <1>2 DEF Made
<1> QED
  BY <1>2, <1>3, <1>6, <1>7, <1>8, <1>9, <1>10, <1>11 DEF Sound, d

\* The last pair of a promise has been used: either the promise is settled or it waits.
LEMMA LastPairUsed ==
  ASSUME NEW H, NEW V, NEW e, Good(e, H, V), NEW pair \in Made(e), pair \notin e.resolved
  PROVE  /\ pair = Last(e, pair.of) /\ ~Settled(e, pair.of) /\ ~Waits(e, pair.of)
         /\ \A n \in 1 .. e.pairs[pair.of] - 1 : [of |-> pair.of, n |-> n] \in e.resolved
<1>1. pair.of \in Promise /\ pair.n \in Nat \ {0} /\ pair = [of |-> pair.of, n |-> pair.n]
  BY DEF Pair, Made
<1>2. pair.n <= e.pairs[pair.of] /\ e.pairs[pair.of] \in Nat /\ Resolver(e, pair.of)
  BY <1>1 DEF Good, Made, Engine
<1>3. \A n \in 1 .. e.pairs[pair.of] - 1 : [of |-> pair.of, n |-> n] \in e.resolved
  BY <1>2 DEF Resolver
<1>4. pair.n = e.pairs[pair.of]
  <2>1. pair.n \notin 1 .. e.pairs[pair.of] - 1
    BY <1>1, <1>3
  <2> QED
    BY <1>1, <1>2, <2>1
<1>5. pair = Last(e, pair.of)
  BY <1>1, <1>4 DEF Last
<1> QED
  BY <1>2, <1>3, <1>5 DEF Resolver

\* After its last pair was used, a promise is settled or waits.
LEMMA ResolvedGood ==
  ASSUME NEW H, NEW V, NEW e, Good(e, H, V), NEW pair \in Made(e), pair \notin e.resolved,
         NEW d \in Engine(H, V), Sound(d), d.pairs = e.pairs, d.resolved = e.resolved \cup {pair},
         \A o \in Promise : o # pair.of =>
           d.promise[o] = e.promise[o] /\ (Waits(d, o) <=> Waits(e, o)),
         Settled(d, pair.of) <=> ~Waits(d, pair.of)
  PROVE  Good(d, H, V) /\ Grows(e, d)
<1>1. /\ pair = Last(e, pair.of) /\ ~Settled(e, pair.of) /\ pair.of \in Promise
      /\ \A n \in 1 .. e.pairs[pair.of] - 1 : [of |-> pair.of, n |-> n] \in e.resolved
  BY LastPairUsed DEF Pair, Made
<1>2. ASSUME NEW o \in Promise PROVE Resolver(d, o)
  <2>1. Once(d, o) /\ Last(d, o) = Last(e, o) /\ Resolver(e, o)
    BY DEF Sound, Last, Good
  <2>2. CASE o = pair.of
    BY <2>1, <2>2, <1>1 DEF Resolver
  <2>3. CASE o # pair.of
    <3>1. Last(e, o) # pair
      BY <2>3 DEF Last
    <3>2. (Settled(d, o) <=> Settled(e, o)) /\ (Waits(d, o) <=> Waits(e, o))
      BY <2>3 DEF Settled
    <3> QED
      BY <2>1, <3>1, <3>2 DEF Resolver
  <2> QED
    BY <2>2, <2>3
<1>3. ASSUME NEW o \in Promise PROVE e.pairs[o] <= d.pairs[o] /\ (Settled(e, o) => Outcome(d, o) = Outcome(e, o))
  <2>1. e.pairs[o] \in Nat /\ d.pairs[o] = e.pairs[o]
    BY DEF Good, Engine
  <2> QED
    BY <1>1, <2>1 DEF Outcome
<1> QED
  BY <1>2, <1>3 DEF Good, Grows

\* An engine grows from itself, and growth adds up.
LEMMA GrowsTransitive ==
  ASSUME NEW H, NEW V, NEW e \in Engine(H, V), NEW d \in Engine(H, V), NEW c \in Engine(H, V)
  PROVE  Grows(e, e) /\ (Grows(e, d) /\ Grows(d, c) => Grows(e, c))
<1>1. \A p \in Promise : e.pairs[p] \in Nat /\ d.pairs[p] \in Nat /\ c.pairs[p] \in Nat
  BY DEF Engine
<1>2. Grows(e, e)
  <2>1. ASSUME NEW p \in Promise PROVE e.pairs[p] <= e.pairs[p]
    BY <1>1
  <2> QED
    BY <2>1 DEF Grows
<1>3. ASSUME Grows(e, d), Grows(d, c), NEW p \in Promise
      PROVE  e.pairs[p] <= c.pairs[p] /\ (Settled(e, p) => Outcome(c, p) = Outcome(e, p))
  <2>1. e.pairs[p] <= c.pairs[p]
    BY <1>1, <1>3 DEF Grows
  <2>2. Settled(e, p) => Outcome(d, p) = Outcome(e, p) /\ Settled(d, p)
    BY <1>3 DEF Grows, Settled, Outcome
  <2> QED
    BY <1>3, <2>1, <2>2 DEF Grows
<1> QED
  BY <1>2, <1>3 DEF Grows

\* A call of a resolving function, for the first time or again.
LEMMA ResolvingCallGood ==
  ASSUME NEW H, NEW V, Error \in V, NEW e, Good(e, H, V), NEW pair \in Made(e),
         NEW how \in How, NEW v \in V
  PROVE  Resolves(e, ResolvingCall(e, pair, how, v), H, V, pair)
<1> DEFINE c == Mark(e, pair, how, v)
           d == ResolvingCall(e, pair, how, v)
           p == pair.of
<1>1. e \in Engine(H, V) /\ Sound(e) /\ p \in Promise
  BY DEF Good, Pair, Made
<1>2. CASE pair \in e.resolved
  <2>1. d = e /\ Grows(e, e) /\ e.resolved = e.resolved \cup {pair}
    BY <1>1, <1>2, GrowsTransitive DEF ResolvingCall
  <2> QED
    BY <2>1 DEF Resolves
<1>3. CASE pair \notin e.resolved
  <2>1. ~Settled(e, p) /\ ~Waits(e, p)
    BY <1>3, LastPairUsed
  <2>2. /\ c \in Engine(H, V) /\ c.promise = e.promise /\ c.jobs = e.jobs /\ c.pairs = e.pairs
        /\ c.resolved = e.resolved \cup {pair} /\ c.follows = e.follows
    BY <1>1 DEF Mark, Engine, Made
  <2>3. d = CASE how = "rejected" -> Settle(c, p, "rejected", v)
            [] how = "fulfilled" /\ (v = p \/ v \in Poisoned) -> Settle(c, p, "rejected", Error)
            [] how = "fulfilled" /\ v # p /\ v \in Promise \cup Thenable ->
                 [Enqueue(c, ThenableJob(p, v)) EXCEPT !.follows[p] = IF v \in Promise THEN v ELSE None]
            [] OTHER -> Settle(c, p, "fulfilled", v)
    BY <1>3 DEF ResolvingCall
  <2> HIDE DEF c, d
  <2>4. /\ Sound(c) /\ ~Settled(c, p) /\ \A o \in Promise : (Waits(c, o) <=> Waits(e, o))
        /\ Made(c) = Made(e) /\ \A S : PairsIn(e, S) => PairsIn(c, S)
    BY <1>1, <2>1, <2>2, SamePairs DEF Sound, Made, Settled, Once, Waits
  <2>5. ASSUME NEW how2 \in How, NEW w \in V, d = Settle(c, p, how2, w)
        PROVE  Resolves(e, d, H, V, pair)
    <3>1. /\ d \in Engine(H, V) /\ Sound(d) /\ d.pairs = e.pairs /\ d.resolved = e.resolved \cup {pair}
          /\ \A o \in Promise : (Waits(d, o) <=> Waits(e, o)) /\ (o # p => d.promise[o] = e.promise[o])
          /\ Settled(d, p)
          /\ \A S : PairsIn(e, S) => PairsIn(d, S)
      BY <1>1, <2>2, <2>4, <2>5, SettleSound
    <3>2. Good(d, H, V) /\ Grows(e, d)
      BY <1>1, <1>3, <2>1, <3>1, ResolvedGood
    <3>3. Made(d) = Made(e)
      BY <3>1 DEF Made
    <3>4. \A S : PairsIn(e, S) => PairsIn(d, S)
      BY <2>4, <3>1
    <3> QED
      BY <3>1, <3>2, <3>3, <3>4 DEF Resolves
  <2>6. ASSUME v \in Promise \cup Thenable,
               d = [Enqueue(c, ThenableJob(p, v)) EXCEPT !.follows[p] = IF v \in Promise THEN v ELSE None]
        PROVE  Resolves(e, d, H, V, pair)
    <3>1. /\ d.jobs = Append(c.jobs, ThenableJob(p, v))
          /\ d.promise = e.promise /\ d.pairs = e.pairs /\ d.resolved = e.resolved \cup {pair}
          /\ d.follows = [c.follows EXCEPT ![p] = IF v \in Promise THEN v ELSE None]
          /\ DOMAIN d = DOMAIN c
          /\ d = [[c EXCEPT !.jobs = d.jobs] EXCEPT !.follows = d.follows]
      BY <2>2, <2>6 DEF Engine, Enqueue
    <3>2. /\ d.jobs \in Seq(AJob(H, V))
          /\ \A o \in Promise : (Waits(d, o) <=> Waits(e, o) \/ o = p) /\ Once(d, o)
          /\ \A i \in DOMAIN d.jobs : (i \in DOMAIN e.jobs /\ d.jobs[i] = e.jobs[i]) \/ d.jobs[i] = ThenableJob(p, v)
      <4>1. /\ c \in Engine(H, V) /\ p \in Promise /\ v \in Promise \cup Thenable
            /\ ~Waits(c, p) /\ d.jobs = Append(c.jobs, ThenableJob(p, v))
        BY <1>1, <2>1, <2>2, <2>4, <2>6, <3>1
      <4>2. d.jobs \in Seq(AJob(H, V))
        <5>1. c.jobs \in Seq(AJob(H, V)) /\ ThenableJob(p, v) \in AJob(H, V)
          BY <4>1 DEF Engine, AJob, ThenableJobs, ThenableJob
        <5> QED
          BY <4>1, <5>1
      <4>3. \A o \in Promise : Waits(d, o) <=> Waits(c, o) \/ o = p
        BY <4>1, AddThenableJob
      <4>4. \A o \in Promise : Once(c, o) => Once(d, o)
        BY <4>1, AddThenableJob
      <4>5. \A i \in DOMAIN d.jobs : (i \in DOMAIN c.jobs /\ d.jobs[i] = c.jobs[i]) \/ d.jobs[i] = ThenableJob(p, v)
        BY <4>1, AddThenableJob
      <4> QED
        BY <2>2, <2>4, <4>2, <4>3, <4>4, <4>5 DEF Sound
    <3>3. d.follows \in [Promise -> Promise \cup {None}]
      <4>1. c.follows \in [Promise -> Promise \cup {None}]
        BY <2>2 DEF Engine
      <4>2. CASE v \in Promise
        BY <3>1, <4>1, <4>2
      <4>3. CASE v \notin Promise
        BY <3>1, <4>1, <4>3
      <4> QED
        BY <4>2, <4>3
    <3>4. d \in Engine(H, V)
      BY <2>2, <3>1, <3>2, <3>3 DEF Engine, AJob
    <3>5. Made(d) = Made(e) /\ Made(c) = Made(e)
      BY <2>2, <3>1 DEF Made
    <3>6. ASSUME NEW S, PairsIn(e, S) PROVE PairsIn(d, S)
      BY <3>1, <3>2, <3>6 DEF PairsIn, JobIn, ThenableJob
    <3>7. Sound(d)
      BY <1>1, <2>2, <2>4, <3>1, <3>2, <3>5, <3>6 DEF Sound, Settled
    <3>8. Settled(d, p) <=> ~Waits(d, p)
      BY <1>1, <2>1, <3>1, <3>2 DEF Settled
    <3>9. Good(d, H, V) /\ Grows(e, d)
      BY <1>1, <1>3, <3>1, <3>2, <3>4, <3>7, <3>8, ResolvedGood
    <3> QED
      BY <3>1, <3>5, <3>6, <3>9 DEF Resolves
  <2>7. \/ \E how2 \in How, w \in V : d = Settle(c, p, how2, w)
        \/ /\ v \in Promise \cup Thenable
           /\ d = [Enqueue(c, ThenableJob(p, v)) EXCEPT !.follows[p] = IF v \in Promise THEN v ELSE None]
    BY <2>3 DEF How
  <2> QED
    BY <2>5, <2>6, <2>7 DEF d
<1> QED
  BY <1>2, <1>3

\* The end of a handler.
LEMMA FinishGood ==
  ASSUME NEW H, NEW V, Error \in V, NEW e, Good(e, H, V), NEW cap, CapIn(cap, Made(e)),
         NEW how \in How, NEW v \in V
  PROVE  \/ cap = None /\ Finish(e, cap, how, v) = e
         \/ cap # None /\ cap \in Made(e) /\ Resolves(e, Finish(e, cap, how, v), H, V, cap)
BY ResolvingCallGood DEF Finish, CapIn

-----------------------------------------------------------------------------
(* Reactions.                                                              *)

\* A reaction is added to a pending promise, or its job is queued.
LEMMA ThenGood ==
  ASSUME NEW H, NEW V, NEW e, Good(e, H, V), NEW p \in Promise, NEW on \in [How -> H],
         NEW cap \in Capability, ReactionIn([on |-> on, cap |-> cap], Made(e))
  PROVE  LET d == Then(e, p, on, cap)
         IN /\ Good(d, H, V) /\ Grows(e, d)
            /\ Made(d) = Made(e) /\ d.resolved = e.resolved
            /\ \A S : PairsIn(e, S) /\ ReactionIn([on |-> on, cap |-> cap], S) => PairsIn(d, S)
<1> DEFINE x == [on |-> on, cap |-> cap]
           d == Then(e, p, on, cap)
<1>1. e \in Engine(H, V) /\ Sound(e) /\ \A o \in Promise : Resolver(e, o)
  BY DEF Good
<1>2. x \in [on : [How -> H], cap : Capability] /\ x.on = on /\ x.cap = cap
  OBVIOUS
<1>3. ASSUME NEW o \in Promise PROVE e.pairs[o] <= e.pairs[o]
  <2>1. e.pairs[o] \in Nat
    BY <1>1 DEF Engine
  <2> QED
    BY <2>1
<1>4. CASE Settled(e, p)
  <2> DEFINE job == ReactionJob(x, e.promise[p].state, e.promise[p].result)
             R == <<job>>
  <2>1. e.promise[p].state \in How /\ e.promise[p].result \in V
    BY <1>1, <1>4 DEF Settled, Engine, PromiseState
  <2>2. job \in ReactionJobs(H, V) /\ \A S : ReactionIn(x, S) => JobIn(job, S)
    BY <1>2, <2>1 DEF ReactionJob, ReactionJobs, JobIn, ReactionIn
  <2>3. R \in Seq(ReactionJobs(H, V)) /\ DOMAIN R = {1} /\ R[1] = job
    BY <2>2
  <2>4. d = [e EXCEPT !.jobs = Append(@, job)]
    BY <1>4 DEF Then, Enqueue
  <2> HIDE DEF d, job
  <2>5. /\ d.jobs = Append(e.jobs, job) /\ DOMAIN d = DOMAIN e
        /\ d.promise = e.promise /\ d.pairs = e.pairs /\ d.resolved = e.resolved /\ d.follows = e.follows
    BY <1>1, <2>4 DEF Engine
  <2>6. e \in Engine(H, V) /\ R \in Seq(ReactionJobs(H, V)) /\ d.jobs = e.jobs \o R
    <3>1. e.jobs \in Seq(AJob(H, V)) /\ job \in AJob(H, V)
      BY <1>1, <2>2 DEF Engine, AJob
    <3> QED
      BY <1>1, <2>3, <2>5, <3>1
  <2> HIDE DEF R
  <2>7. d.jobs \in Seq(AJob(H, V))
    BY ONLY <2>6, JobsJoined
  <2>8. \A o \in Promise : (Waits(d, o) <=> Waits(e, o)) /\ (Once(e, o) => Once(d, o))
    BY <2>6, AddReactionJobs
  <2>9. \A i \in DOMAIN d.jobs : (i \in DOMAIN e.jobs /\ d.jobs[i] = e.jobs[i]) \/ \E j \in DOMAIN R : d.jobs[i] = R[j]
    BY <2>6, AddReactionJobs
  <2>10. d \in Engine(H, V)
    BY <1>1, <2>4, <2>5, <2>7 DEF Engine, AJob
  <2>11. ASSUME NEW S, PairsIn(e, S), ReactionIn(x, S) PROVE PairsIn(d, S)
    BY <2>2, <2>3, <2>5, <2>9, <2>11 DEF PairsIn
  <2>12. Made(d) = Made(e)
    BY <2>5 DEF Made
  <2>13. Sound(d)
    BY <1>1, <2>5, <2>8, <2>11, <2>12 DEF Sound, Settled
  <2>14. ASSUME NEW o \in Promise PROVE Resolver(d, o)
    <3>1. (Waits(d, o) <=> Waits(e, o)) /\ Once(d, o) /\ (Settled(d, o) <=> Settled(e, o)) /\ Last(d, o) = Last(e, o)
      BY <1>1, <2>5, <2>8 DEF Sound, Settled, Last
    <3> QED
      BY <1>1, <2>5, <3>1 DEF Resolver
  <2>15. Good(d, H, V) /\ Grows(e, d)
    BY <1>3, <2>5, <2>10, <2>13, <2>14 DEF Good, Grows, Outcome
  <2> QED
    BY <2>5, <2>11, <2>12, <2>15 DEF d
<1>5. CASE ~Settled(e, p)
  <2> DEFINE r == e.promise[p].reactions
  <2>1. d = [e EXCEPT !.promise[p].reactions = Append(@, x)]
    BY <1>5 DEF Then
  <2> HIDE DEF d, x
  <2>2. r \in Seq([on : [How -> H], cap : Capability]) /\ e.promise \in [Promise -> PromiseState(H, V)]
    BY <1>1 DEF Engine, PromiseState
  <2>3. /\ Append(r, x) \in Seq([on : [How -> H], cap : Capability])
        /\ \A i \in DOMAIN Append(r, x) : (i \in DOMAIN r /\ Append(r, x)[i] = r[i]) \/ Append(r, x)[i] = x
    BY <1>2, <2>2
  <2>4. /\ d.promise = [e.promise EXCEPT ![p].reactions = Append(r, x)] /\ DOMAIN d = DOMAIN e
        /\ d.jobs = e.jobs /\ d.pairs = e.pairs /\ d.resolved = e.resolved /\ d.follows = e.follows
    BY <1>1, <2>1 DEF Engine
  <2>5. /\ d.promise[p].state = e.promise[p].state /\ d.promise[p].result = e.promise[p].result
        /\ d.promise[p].reactions = Append(r, x)
        /\ \A o \in Promise : o # p => d.promise[o] = e.promise[o]
        /\ d.promise \in [Promise -> PromiseState(H, V)]
    <3>1. /\ e.promise[p] \in PromiseState(H, V)
          /\ d.promise[p] = [e.promise[p] EXCEPT !.reactions = Append(r, x)]
          /\ \A o \in Promise : o # p => d.promise[o] = e.promise[o]
      BY <2>2, <2>4
    <3>2. /\ d.promise[p] \in PromiseState(H, V)
          /\ d.promise[p].state = e.promise[p].state /\ d.promise[p].result = e.promise[p].result
          /\ d.promise[p].reactions = Append(r, x)
      BY <2>3, <3>1 DEF PromiseState
    <3>3. d.promise \in [Promise -> PromiseState(H, V)]
      BY <2>2, <2>4, <3>1, <3>2
    <3> QED
      BY <3>1, <3>2, <3>3
  <2>6. d \in Engine(H, V)
    BY <1>1, <2>1, <2>4, <2>5 DEF Engine
  <2>7. ASSUME NEW o \in Promise
        PROVE  /\ (Waits(d, o) <=> Waits(e, o)) /\ (Once(e, o) => Once(d, o)) /\ (Settled(d, o) <=> Settled(e, o))
               /\ Outcome(d, o) = Outcome(e, o) /\ Last(d, o) = Last(e, o)
    BY <2>4, <2>5 DEF Waits, Once, Settled, Outcome, Last
  <2>8. ASSUME NEW S, PairsIn(e, S), ReactionIn(x, S) PROVE PairsIn(d, S)
    <3>1. ASSUME NEW o \in Promise, NEW i \in DOMAIN d.promise[o].reactions
          PROVE  ReactionIn(d.promise[o].reactions[i], S)
      BY ZenonT(60), <2>3, <2>5, <2>8 DEF PairsIn
    <3> QED
      BY <3>1, <2>4, <2>8 DEF PairsIn
  <2>9. Made(d) = Made(e)
    BY <2>4 DEF Made
  <2>10. Sound(d)
    <3>1. \A o \in Promise : (Settled(d, o) => d.promise[o].reactions = <<>>) /\ Once(d, o)
      BY <1>1, <1>5, <2>5, <2>7 DEF Sound
    <3> QED
      BY <1>1, <2>4, <2>8, <2>9, <3>1 DEF Sound, x
  <2>11. \A o \in Promise : Resolver(d, o)
    BY <1>1, <2>4, <2>7 DEF Resolver
  <2>12. Grows(e, d)
    BY <1>3, <2>4, <2>7 DEF Grows
  <2> QED
    BY <2>4, <2>6, <2>8, <2>9, <2>10, <2>11, <2>12 DEF Good, d, x
<1> QED
  BY <1>4, <1>5

\* Promise.resolve: the value itself or a promise for it.
LEMMA WrapGood ==
  ASSUME NEW H, NEW V, Error \in V, NEW e, Good(e, H, V), NEW v \in V, v \notin Promise => Fresh(e) # {}
  PROVE  LET d == Wrap(e, v)
         IN /\ Good(d, H, V) /\ Grows(e, d) /\ Wrapped(e, v) \in Promise
            /\ Made(e) \subseteq Made(d) /\ d.resolved \cap Made(e) = e.resolved
            /\ \A S : PairsIn(e, S) => PairsIn(d, S)
<1>1. CASE v \in Promise
  BY <1>1, GrowsTransitive DEF Wrap, Wrapped, Good, Sound
<1>2. CASE v \notin Promise
  <2> DEFINE c == Create(e)
  <2>1. /\ Good(c, H, V) /\ Grows(e, c) /\ New(e) \in Promise /\ Cap(New(e)) \in Made(c) \ Made(e)
        /\ Made(e) \subseteq Made(c) /\ c.resolved = e.resolved /\ \A S : PairsIn(e, S) => PairsIn(c, S)
    BY <1>2, CreateGood
  <2> HIDE DEF c
  <2>2. /\ Good(Wrap(e, v), H, V) /\ Grows(c, Wrap(e, v)) /\ Made(Wrap(e, v)) = Made(c)
        /\ Wrap(e, v).resolved = c.resolved \cup {Cap(New(e))}
        /\ \A S : PairsIn(c, S) => PairsIn(Wrap(e, v), S)
    <3>1. Wrap(e, v) = ResolvingCall(c, Cap(New(e)), "fulfilled", v)
      BY <1>2 DEF Wrap, c
    <3>2. Resolves(c, Wrap(e, v), H, V, Cap(New(e)))
      BY <2>1, <3>1, ResolvingCallGood DEF How
    <3> QED
      BY <3>2 DEF Resolves
  <2>3. Grows(e, Wrap(e, v))
    BY <2>1, <2>2, GrowsTransitive DEF Good
  <2> QED
    BY <1>2, <2>1, <2>2, <2>3 DEF Wrapped, Good, Sound
<1> QED
  BY <1>1, <1>2

-----------------------------------------------------------------------------
(* Jobs.                                                                   *)

\* Taking the first job keeps an engine sound, and leaves each promise its state.
LEMMA PopSound ==
  ASSUME NEW H, NEW V, NEW e, Good(e, H, V), e.jobs # <<>>, NEW d, d = [e EXCEPT !.jobs = Tail(@)]
  PROVE  /\ d \in Engine(H, V) /\ Sound(d) /\ Grows(e, d)
         /\ d.promise = e.promise /\ d.pairs = e.pairs /\ d.resolved = e.resolved
         /\ Head(e.jobs) \in AJob(H, V)
         /\ \A S : PairsIn(e, S) => PairsIn(d, S) /\ JobIn(Head(e.jobs), S)
         /\ \A o \in Promise : Waits(d, o) <=> Waits(e, o) /\ ~Adopts(Head(e.jobs), o)
<1>1. e \in Engine(H, V) /\ Sound(e)
  BY DEF Good
<1>2. /\ d.jobs = Tail(e.jobs) /\ DOMAIN d = DOMAIN e
      /\ d.promise = e.promise /\ d.pairs = e.pairs /\ d.resolved = e.resolved /\ d.follows = e.follows
  BY <1>1 DEF Engine
<1> DEFINE q == e.jobs
           r == d.jobs
<1>3. /\ q \in Seq(AJob(H, V)) /\ r \in Seq(AJob(H, V))
      /\ Head(q) \in AJob(H, V) /\ Head(q) = q[1]
      /\ Len(q) \in Nat \ {0} /\ DOMAIN q = 1 .. Len(q) /\ DOMAIN r = 1 .. Len(q) - 1
      /\ \A i \in 1 .. Len(q) - 1 : r[i] = q[i + 1]
  <2>1. q \in Seq(AJob(H, V)) /\ q # <<>> /\ r = Tail(q)
    BY <1>1, <1>2 DEF Engine, AJob
  <2> QED
    BY <2>1
<1> HIDE DEF q, r
<1>4. (\A i \in DOMAIN r : i + 1 \in DOMAIN q /\ r[i] = q[i + 1]) /\ 1 \in DOMAIN q
  BY <1>3
<1>5. \A i \in DOMAIN q : i = 1 \/ (i - 1 \in DOMAIN r /\ r[i - 1] = q[i])
  BY <1>3
<1>6. ASSUME NEW o \in Promise
      PROVE  (Waits(d, o) <=> Waits(e, o) /\ ~Adopts(Head(q), o)) /\ Once(d, o)
  <2>1. Once(e, o)
    BY <1>1 DEF Sound
  <2>2. Once(d, o)
    <3>1. ASSUME NEW i \in DOMAIN r, NEW j \in DOMAIN r, Adopts(r[i], o), Adopts(r[j], o) PROVE i = j
      <4>1. i + 1 = j + 1
        BY <1>4, <2>1, <3>1 DEF Once, q
      <4> QED
        BY <1>3, <4>1
    <3> QED
      BY <3>1 DEF Once, r
  <2>3. ASSUME Waits(d, o) PROVE Waits(e, o) /\ ~Adopts(Head(q), o)
    <3>1. PICK i \in DOMAIN r : Adopts(r[i], o)
      BY <2>3 DEF Waits, r
    <3>2. i + 1 \in DOMAIN q /\ Adopts(q[i + 1], o) /\ i + 1 # 1
      BY <1>3, <1>4, <3>1
    <3>3. ~Adopts(q[1], o)
      BY <1>4, <2>1, <3>2 DEF Once, q
    <3> QED
      BY <1>3, <3>2, <3>3 DEF Waits, q
  <2>4. ASSUME Waits(e, o), ~Adopts(Head(q), o) PROVE Waits(d, o)
    BY <1>3, <1>5, <2>4 DEF Waits, q, r
  <2> QED
    BY <2>2, <2>3, <2>4
<1>7. d \in Engine(H, V)
  BY <1>1, <1>2, <1>3 DEF Engine, AJob, r
<1>8. ASSUME NEW S, PairsIn(e, S) PROVE PairsIn(d, S) /\ JobIn(Head(q), S)
  BY <1>2, <1>3, <1>4, <1>8 DEF PairsIn, q, r
<1>9. Sound(d)
  <2>1. Made(d) = Made(e)
    BY <1>2 DEF Made
  <2> QED
    BY <2>1, <1>1, <1>2, <1>6, <1>8 DEF Sound, Settled
<1>10. ASSUME NEW o \in Promise PROVE e.pairs[o] <= d.pairs[o] /\ Outcome(d, o) = Outcome(e, o)
  <2>1. e.pairs[o] \in Nat
    BY <1>1 DEF Engine
  <2> QED
    BY <2>1, <1>2 DEF Outcome
<1>11. Grows(e, d)
  BY <1>10 DEF Grows
<1> QED
  BY <1>2, <1>3, <1>6, <1>7, <1>8, <1>9, <1>11 DEF q

\* The job of a reaction: what it refers to exists.
LEMMA PopReaction ==
  ASSUME NEW H, NEW V, NEW e, Good(e, H, V), e.jobs # <<>>, Head(e.jobs).kind = "reaction",
         NEW d, d = [e EXCEPT !.jobs = Tail(@)]
  PROVE  /\ Good(d, H, V) /\ Grows(e, d)
         /\ Made(d) = Made(e) /\ d.resolved = e.resolved /\ Head(e.jobs) \in ReactionJobs(H, V)
         /\ \A S : PairsIn(e, S) => PairsIn(d, S) /\ CapIn(Head(e.jobs).cap, S) /\ HandlerIn(Head(e.jobs).handler, S)
<1>1. /\ d \in Engine(H, V) /\ Sound(d) /\ Grows(e, d)
      /\ d.promise = e.promise /\ d.pairs = e.pairs /\ d.resolved = e.resolved
      /\ Head(e.jobs) \in AJob(H, V)
      /\ \A S : PairsIn(e, S) => PairsIn(d, S) /\ JobIn(Head(e.jobs), S)
  BY PopSound
<1>2. \A o \in Promise : Waits(d, o) <=> Waits(e, o) /\ ~Adopts(Head(e.jobs), o)
  BY PopSound
<1>3. ASSUME NEW o \in Promise PROVE Resolver(d, o)
  <2>1. (Waits(d, o) <=> Waits(e, o)) /\ (Settled(d, o) <=> Settled(e, o)) /\ Last(d, o) = Last(e, o) /\ Once(d, o)
    BY <1>1, <1>2 DEF Adopts, Settled, Last, Sound
  <2> QED
    BY <2>1, <1>1 DEF Resolver, Good
<1> QED
  BY <1>1, <1>3 DEF Good, AJob, ThenableJobs, JobIn, Made

\* The job of a thenable: its promise gets the next pair.
LEMMA PopThenable ==
  ASSUME NEW H, NEW V, NEW e, Good(e, H, V), e.jobs # <<>>, Head(e.jobs).kind = "thenable",
         NEW p, p = Head(e.jobs).promise
  PROVE  LET d == CreateResolvingFunctions([e EXCEPT !.jobs = Tail(@)], p)
         IN /\ Good(d, H, V) /\ Grows(e, d) /\ Head(e.jobs) \in ThenableJobs
            /\ Made(e) \subseteq Made(d) /\ NewPair(e, p) \in Made(d) \ Made(e)
            /\ d.resolved = e.resolved /\ \A S : PairsIn(e, S) => PairsIn(d, S)
<1> DEFINE c == [e EXCEPT !.jobs = Tail(@)]
<1> HIDE DEF c
<1>1. /\ c \in Engine(H, V) /\ Sound(c) /\ Grows(e, c)
      /\ c.promise = e.promise /\ c.pairs = e.pairs /\ c.resolved = e.resolved
      /\ Head(e.jobs) \in AJob(H, V) /\ \A S : PairsIn(e, S) => PairsIn(c, S)
  BY PopSound DEF c
<1>2. \A o \in Promise : Waits(c, o) <=> Waits(e, o) /\ ~Adopts(Head(e.jobs), o)
  BY PopSound DEF c
<1>3. Head(e.jobs) \in ThenableJobs /\ p \in Promise /\ Adopts(Head(e.jobs), p)
  BY <1>1 DEF AJob, ReactionJobs, ThenableJobs, Adopts
<1>4. e \in Engine(H, V) /\ \A o \in Promise : Resolver(e, o)
  BY DEF Good
<1>5. Waits(e, p) /\ ~Waits(c, p)
  <2>1. e.jobs \in Seq(AJob(H, V))
    BY <1>4 DEF Engine, AJob
  <2>2. 1 \in DOMAIN e.jobs /\ Head(e.jobs) = e.jobs[1]
    BY <2>1
  <2> QED
    BY <2>2, <1>2, <1>3 DEF Waits
<1>6. Last(e, p) \in e.resolved /\ ~Settled(e, p)
  BY <1>3, <1>4, <1>5 DEF Resolver
<1>7. ASSUME NEW n \in 1 .. c.pairs[p] PROVE [of |-> p, n |-> n] \in c.resolved
  <2>1. c.pairs[p] \in Nat /\ c.pairs[p] = e.pairs[p]
    BY <1>1, <1>3 DEF Engine
  <2>2. n = e.pairs[p] \/ n \in 1 .. e.pairs[p] - 1
    BY <2>1
  <2> QED
    BY <2>2, <1>1, <1>3, <1>4, <1>6 DEF Resolver, Last
<1>8. ASSUME NEW o \in Promise, o # p PROVE Resolver(c, o)
  <2>1. (Waits(c, o) <=> Waits(e, o)) /\ (Settled(c, o) <=> Settled(e, o)) /\ Last(c, o) = Last(e, o) /\ Once(c, o)
    BY <1>1, <1>2, <1>3, <1>8 DEF Adopts, Settled, Last, Sound
  <2> QED
    BY <2>1, <1>1, <1>4 DEF Resolver
<1>9. ~Settled(c, p)
  BY <1>1, <1>6 DEF Settled
<1> DEFINE d == CreateResolvingFunctions(c, p)
<1> HIDE DEF d
<1>10. /\ Good(d, H, V) /\ Grows(c, d) /\ Made(c) \subseteq Made(d) /\ NewPair(c, p) \in Made(d) \ Made(c)
       /\ d.resolved = c.resolved /\ \A S : PairsIn(c, S) => PairsIn(d, S)
  BY <1>1, <1>3, <1>5, <1>7, <1>8, <1>9, AnotherPair DEF d
<1>11. Grows(e, d) /\ NewPair(c, p) = NewPair(e, p) /\ Made(c) = Made(e)
  BY <1>1, <1>4, <1>10, GrowsTransitive DEF Good, NewPair, Made
<1> QED
  BY <1>1, <1>3, <1>10, <1>11 DEF c, d

-----------------------------------------------------------------------------
(* Handlers.                                                               *)

Keeps(e, d, h) ==
  /\ Alone(e, h) => Alone(d, h) /\ (Expects(d, h) <=> Expects(e, h))
  /\ \A o \in Promise : CalledFor(e, h, o) => CalledFor(d, h, o)

\* Engines with the same reactions and jobs call the same handlers.
LEMMA SameHandlers ==
  ASSUME NEW e, NEW d, d.promise = e.promise, d.jobs = e.jobs, NEW h
  PROVE  Keeps(e, d, h)
BY DEF Keeps, Alone, Expects, Registered, Queued, CalledFor, Settled, Outcome

\* Where the members of two sequences are in the joined one.
LEMMA Joined ==
  ASSUME NEW S, NEW q \in Seq(S), NEW t \in Seq(S), NEW r, r = q \o t
  PROVE  /\ \A i \in DOMAIN q : i \in DOMAIN r /\ r[i] = q[i]
         /\ \A j \in DOMAIN t : Len(q) + j \in DOMAIN r /\ r[Len(q) + j] = t[j]
         /\ \A i \in DOMAIN r : i \notin DOMAIN q => i - Len(q) \in DOMAIN t /\ r[i] = t[i - Len(q)]
<1>1. /\ Len(q) \in Nat /\ Len(t) \in Nat
      /\ DOMAIN q = 1 .. Len(q) /\ DOMAIN t = 1 .. Len(t)
      /\ r \in Seq(S) /\ DOMAIN r = 1 .. Len(q) + Len(t)
  BY ConcatProperties, LenProperties
<1>2. \A i \in 1 .. Len(q) + Len(t) : r[i] = IF i <= Len(q) THEN q[i] ELSE t[i - Len(q)]
  BY ConcatProperties
<1>3. ASSUME NEW i \in DOMAIN q PROVE i \in DOMAIN r /\ r[i] = q[i]
  BY <1>1, <1>2
<1>4. ASSUME NEW j \in DOMAIN t PROVE Len(q) + j \in DOMAIN r /\ r[Len(q) + j] = t[j]
  <2>1. Len(q) + j \in 1 .. Len(q) + Len(t) /\ ~(Len(q) + j <= Len(q)) /\ Len(q) + j - Len(q) = j
    BY <1>1
  <2> QED
    BY <1>1, <1>2, <2>1
<1>5. ASSUME NEW i \in DOMAIN r, i \notin DOMAIN q PROVE i - Len(q) \in DOMAIN t /\ r[i] = t[i - Len(q)]
  BY <1>1, <1>2, <1>5
<1> QED
  BY <1>3, <1>4, <1>5

\* Settling a promise makes a job of each of its reactions.
LEMMA SettleKeeps ==
  ASSUME NEW H, NEW V, NEW e \in Engine(H, V), NEW p \in Promise, ~Settled(e, p),
         NEW how \in How, NEW v \in V, NEW h
  PROVE  Keeps(e, Settle(e, p, how, v), h)
<1> DEFINE x == e.promise[p].reactions
           t == [i \in DOMAIN x |-> ReactionJob(x[i], how, v)]
           q == e.jobs
           d == Settle(e, p, how, v)
           r == d.jobs
<1>1. /\ r = q \o t
      /\ d.promise = [e.promise EXCEPT ![p] = [state |-> how, result |-> v, reactions |-> <<>>]]
  BY DEF Engine, Settle
<1>2. q \in Seq(AJob(H, V)) /\ t \in Seq(AJob(H, V))
  <2>1. t \in Seq(ReactionJobs(H, V))
    BY ReactionsBecomeJobs
  <2> QED
    BY <2>1, SeqMonotonic DEF Engine, AJob
<1>3. /\ d.promise[p] = [state |-> how, result |-> v, reactions |-> <<>>]
      /\ \A o \in Promise : o # p => d.promise[o] = e.promise[o]
  BY SMTT(60), <1>1 DEF Engine
<1>4. ASSUME NEW i \in DOMAIN t
      PROVE  /\ i \in DOMAIN x /\ (Runs(t[i], h) <=> x[i].on[how] = h)
             /\ t[i].how = how /\ t[i].arg = v
  BY DEF ReactionJob, Runs
<1>5. DOMAIN t = DOMAIN x
  OBVIOUS
<1> HIDE DEF t, d, q, r, x
<1>6. /\ \A i \in DOMAIN q : i \in DOMAIN r /\ r[i] = q[i]
      /\ \A j \in DOMAIN t : Len(q) + j \in DOMAIN r /\ r[Len(q) + j] = t[j]
      /\ \A i \in DOMAIN r : i \notin DOMAIN q => i - Len(q) \in DOMAIN t /\ r[i] = t[i - Len(q)]
      /\ \A i \in DOMAIN r, j \in DOMAIN r : i - Len(q) = j - Len(q) => i = j
  <2>1. \A i \in DOMAIN q : i \in DOMAIN r /\ r[i] = q[i]
    BY <1>1, <1>2, Joined
  <2>2. \A j \in DOMAIN t : Len(q) + j \in DOMAIN r /\ r[Len(q) + j] = t[j]
    BY <1>1, <1>2, Joined
  <2>3. \A i \in DOMAIN r : i \notin DOMAIN q => i - Len(q) \in DOMAIN t /\ r[i] = t[i - Len(q)]
    BY <1>1, <1>2, Joined
  <2>4. r \in Seq(AJob(H, V)) /\ Len(q) \in Nat
    BY <1>1, <1>2, ConcatProperties, LenProperties
  <2>5. \A i \in DOMAIN r, j \in DOMAIN r : i - Len(q) = j - Len(q) => i = j
    BY <2>4
  <2> QED
    BY <2>1, <2>2, <2>3, <2>5
<1>7. \A i \in DOMAIN r : Runs(r[i], h) =>
         \/ i \in DOMAIN q /\ Runs(q[i], h)
         \/ i - Len(q) \in DOMAIN x /\ Calls(x[i - Len(q)], h) /\ r[i].how = how /\ r[i].arg = v
  BY <1>4, <1>6 DEF Calls
<1>8. ASSUME Alone(e, h) PROVE Alone(d, h) /\ (Expects(d, h) <=> Expects(e, h))
  <2>1. ASSUME NEW i \in DOMAIN r, NEW j \in DOMAIN r, Runs(r[i], h), Runs(r[j], h) PROVE i = j
    <3>1. CASE i \in DOMAIN q /\ Runs(q[i], h)
      <4>1. ~Registered(e, h)
        BY <1>8, <3>1 DEF Alone, Queued, q
      <4>2. j \in DOMAIN q /\ Runs(q[j], h)
        BY <1>7, <2>1, <4>1 DEF Registered, x
      <4> QED
        BY <1>8, <3>1, <4>2 DEF Alone, q
    <3>2. CASE ~(i \in DOMAIN q /\ Runs(q[i], h))
      <4>1. i - Len(q) \in DOMAIN x /\ Calls(x[i - Len(q)], h)
        BY <1>7, <2>1, <3>2
      <4>2. ~Queued(e, h)
        BY <1>8, <4>1 DEF Alone, Registered, x
      <4>3. j - Len(q) \in DOMAIN x /\ Calls(x[j - Len(q)], h)
        BY <1>7, <2>1, <4>2 DEF Queued, q
      <4>4. i - Len(q) = j - Len(q)
        BY <1>8, <4>1, <4>3 DEF Alone, x
      <4> QED
        BY <1>6, <4>4
    <3> QED
      BY <3>1, <3>2
  <2>2. ASSUME NEW o \in Promise, NEW i \in DOMAIN d.promise[o].reactions
        PROVE  o # p /\ d.promise[o] = e.promise[o]
    BY <1>3
  <2>3. Registered(d, h) => Registered(e, h)
    BY <2>2 DEF Registered
  <2>4. ASSUME Registered(d, h), Queued(d, h) PROVE FALSE
    <3>0. PICK o \in Promise : \E i \in DOMAIN d.promise[o].reactions : Calls(d.promise[o].reactions[i], h)
      BY <2>4 DEF Registered
    <3>1. PICK i \in DOMAIN d.promise[o].reactions : Calls(d.promise[o].reactions[i], h)
      BY <3>0
    <3>2. o # p /\ i \in DOMAIN e.promise[o].reactions /\ Calls(e.promise[o].reactions[i], h)
      BY <2>2, <3>1
    <3>3. PICK j \in DOMAIN r : Runs(r[j], h)
      BY <2>4 DEF Queued, r
    <3>4. ~(j \in DOMAIN q /\ Runs(q[j], h))
      BY <1>8, <2>3, <2>4 DEF Alone, Queued, q
    <3>5. j - Len(q) \in DOMAIN x /\ Calls(x[j - Len(q)], h)
      BY <1>7, <3>3, <3>4
    <3> QED
      BY <1>8, <3>2, <3>5 DEF Alone, x
  <2>5. Alone(d, h)
    <3>1. ASSUME NEW o \in Promise, NEW o2 \in Promise,
                 NEW i \in DOMAIN d.promise[o].reactions, NEW j \in DOMAIN d.promise[o2].reactions,
                 Calls(d.promise[o].reactions[i], h), Calls(d.promise[o2].reactions[j], h)
          PROVE  o = o2 /\ i = j /\ \A side \in How : d.promise[o].reactions[i].on[side] = h
      BY <1>8, <2>2, <3>1 DEF Alone
    <3> QED
      BY <2>1, <2>4, <3>1 DEF Alone, r
  <2>6. ASSUME Expects(d, h) PROVE Expects(e, h)
    <3>1. Queued(d, h) => Expects(e, h)
      BY <1>7 DEF Queued, Expects, Registered, q, r, x
    <3> QED
      BY <2>3, <2>6, <3>1 DEF Expects
  <2>7. ASSUME Queued(e, h) PROVE Expects(d, h)
    BY <1>6, <2>7 DEF Queued, Expects, q, r
  <2>8. ASSUME Registered(e, h) PROVE Expects(d, h)
    <3>0. PICK o \in Promise : \E i \in DOMAIN e.promise[o].reactions : Calls(e.promise[o].reactions[i], h)
      BY <2>8 DEF Registered
    <3>1. PICK i \in DOMAIN e.promise[o].reactions : Calls(e.promise[o].reactions[i], h)
      BY <3>0
    <3>2. CASE o = p
      <4>1. i \in DOMAIN x /\ Calls(x[i], h)
        BY <3>1, <3>2 DEF x
      <4>2. x[i].on[how] = h
        BY <1>8, <4>1 DEF Alone, x
      <4>3. Len(q) + i \in DOMAIN r /\ Runs(r[Len(q) + i], h)
        BY <1>4, <1>5, <1>6, <4>1, <4>2
      <4> QED
        BY <4>3 DEF Expects, Queued, r
    <3>3. CASE o # p
      BY <1>3, <3>1, <3>3 DEF Expects, Registered
    <3> QED
      BY <3>2, <3>3
  <2> QED
    BY <2>5, <2>6, <2>7, <2>8 DEF Expects
<1>9. ASSUME NEW o \in Promise, CalledFor(e, h, o) PROVE CalledFor(d, h, o)
  <2>1. ASSUME NEW o2 \in Promise, NEW i \in DOMAIN d.promise[o2].reactions, Calls(d.promise[o2].reactions[i], h)
        PROVE  o2 = o
    BY <1>3, <1>9, <2>1 DEF CalledFor
  <2>2. ASSUME NEW i \in DOMAIN r, Runs(r[i], h)
        PROVE  Settled(d, o) /\ <<r[i].how, r[i].arg>> = Outcome(d, o)
    <3>1. CASE i \in DOMAIN q /\ Runs(q[i], h)
      <4>1. Settled(e, o) /\ <<q[i].how, q[i].arg>> = Outcome(e, o)
        BY <1>9, <3>1 DEF CalledFor, q
      <4>2. o # p /\ r[i] = q[i]
        BY <1>6, <3>1, <4>1
      <4> QED
        BY <1>3, <4>1, <4>2 DEF Settled, Outcome
    <3>2. CASE ~(i \in DOMAIN q /\ Runs(q[i], h))
      <4>1. i - Len(q) \in DOMAIN x /\ Calls(x[i - Len(q)], h) /\ r[i].how = how /\ r[i].arg = v
        BY <1>7, <2>2, <3>2
      <4>2. o = p
        BY <1>9, <4>1 DEF CalledFor, x
      <4> QED
        BY <1>3, <4>1, <4>2 DEF Settled, Outcome, How
    <3> QED
      BY <3>1, <3>2
  <2> QED
    BY <2>1, <2>2 DEF CalledFor, r
<1> QED
  BY <1>8, <1>9 DEF Keeps, d

\* A job is added that does not call the handler, or that is the first to call it.
LEMMA AppendKeeps ==
  ASSUME NEW H, NEW V, NEW e \in Engine(H, V), NEW job \in AJob(H, V),
         NEW d, d.promise = e.promise, d.jobs = Append(e.jobs, job), NEW h
  PROVE  /\ ~Runs(job, h) => Keeps(e, d, h)
         /\ Runs(job, h) /\ Alone(e, h) /\ ~Expects(e, h) => Alone(d, h) /\ Expects(d, h)
         /\ \A o \in Promise : CalledFor(e, h, o) /\ Settled(e, o) /\ <<job.how, job.arg>> = Outcome(e, o) =>
                              CalledFor(d, h, o)
<1> DEFINE q == e.jobs
           r == d.jobs
<1>1. /\ \A i \in DOMAIN q : i \in DOMAIN r /\ r[i] = q[i]
      /\ \A i \in DOMAIN r : i \notin DOMAIN q => i = Len(q) + 1
      /\ Len(q) + 1 \in DOMAIN r /\ r[Len(q) + 1] = job
  <2>1. q \in Seq(AJob(H, V))
    BY DEF Engine, AJob
  <2> QED
    BY <2>1
<1> HIDE DEF q, r
<1>2. (Registered(d, h) <=> Registered(e, h)) /\ \A o \in Promise : (Settled(d, o) <=> Settled(e, o)) /\ Outcome(d, o) = Outcome(e, o)
  BY DEF Registered, Settled, Outcome
<1>3. ASSUME ~Runs(job, h) PROVE Keeps(e, d, h)
  <2>1. Queued(d, h) <=> Queued(e, h)
    BY <1>1, <1>3 DEF Queued, q, r
  <2>2. Alone(e, h) => Alone(d, h)
    BY <1>1, <1>2, <1>3, <2>1 DEF Alone, q, r
  <2>3. \A o \in Promise : CalledFor(e, h, o) => CalledFor(d, h, o)
    BY <1>1, <1>2, <1>3 DEF CalledFor, q, r
  <2> QED
    BY <1>2, <2>1, <2>2, <2>3 DEF Keeps, Expects
<1>4. ASSUME Runs(job, h), Alone(e, h), ~Expects(e, h) PROVE Alone(d, h) /\ Expects(d, h)
  <2>1. \A i \in DOMAIN r : Runs(r[i], h) => i = Len(q) + 1
    BY <1>1, <1>4 DEF Expects, Queued, q
  <2>2. Queued(d, h) /\ ~Registered(d, h)
    BY <1>1, <1>2, <1>4 DEF Expects, Queued, r
  <2> QED
    BY <1>4, <2>1, <2>2 DEF Alone, Expects, r
<1>5. ASSUME NEW o \in Promise, CalledFor(e, h, o), Settled(e, o), <<job.how, job.arg>> = Outcome(e, o)
      PROVE  CalledFor(d, h, o)
  BY <1>1, <1>2, <1>5 DEF CalledFor, q, r
<1> QED
  BY <1>3, <1>4, <1>5

\* A call of a resolving function.
LEMMA ResolvingCallKeeps ==
  ASSUME NEW H, NEW V, Error \in V, NEW e, Good(e, H, V), NEW pair \in Made(e),
         NEW how \in How, NEW v \in V, NEW h
  PROVE  Keeps(e, ResolvingCall(e, pair, how, v), h)
<1> DEFINE c == Mark(e, pair, how, v)
           d == ResolvingCall(e, pair, how, v)
           p == pair.of
<1>1. e \in Engine(H, V) /\ p \in Promise
  BY DEF Good, Pair, Made
<1>2. CASE pair \in e.resolved
  BY <1>2, SameHandlers DEF ResolvingCall
<1>3. CASE pair \notin e.resolved
  <2>1. c \in Engine(H, V) /\ c.promise = e.promise /\ c.jobs = e.jobs /\ DOMAIN c = DOMAIN e
    BY <1>1 DEF Mark, Engine, Made
  <2>2. d = CASE how = "rejected" -> Settle(c, p, "rejected", v)
            [] how = "fulfilled" /\ (v = p \/ v \in Poisoned) -> Settle(c, p, "rejected", Error)
            [] how = "fulfilled" /\ v # p /\ v \in Promise \cup Thenable ->
                 [Enqueue(c, ThenableJob(p, v)) EXCEPT !.follows[p] = IF v \in Promise THEN v ELSE None]
            [] OTHER -> Settle(c, p, "fulfilled", v)
    BY <1>3 DEF ResolvingCall
  <2> HIDE DEF c, d
  <2>3. ~Settled(c, p)
    BY <1>3, <2>1, LastPairUsed DEF Settled
  <2>4. Keeps(e, c, h)
    BY <2>1, SameHandlers
  <2>5. ASSUME NEW how2 \in How, NEW w \in V, d = Settle(c, p, how2, w) PROVE Keeps(c, d, h)
    BY <1>1, <2>1, <2>3, <2>5, SettleKeeps
  <2>6. ASSUME v \in Promise \cup Thenable,
               d = [Enqueue(c, ThenableJob(p, v)) EXCEPT !.follows[p] = IF v \in Promise THEN v ELSE None]
        PROVE  Keeps(c, d, h)
    <3>1. d.jobs = Append(c.jobs, ThenableJob(p, v)) /\ d.promise = c.promise
      BY <2>1, <2>6 DEF Engine, Enqueue
    <3>2. ThenableJob(p, v) \in AJob(H, V) /\ ~Runs(ThenableJob(p, v), h)
      BY <1>1, <2>6 DEF AJob, ThenableJobs, ThenableJob, Runs
    <3> QED
      BY <2>1, <3>1, <3>2, AppendKeeps
  <2>7. \/ \E how2 \in How, w \in V : d = Settle(c, p, how2, w)
        \/ /\ v \in Promise \cup Thenable
           /\ d = [Enqueue(c, ThenableJob(p, v)) EXCEPT !.follows[p] = IF v \in Promise THEN v ELSE None]
    BY <2>2 DEF How
  <2>8. Keeps(c, d, h)
    BY <2>5, <2>6, <2>7
  <2> QED
    BY <2>4, <2>8 DEF Keeps, d
<1> QED
  BY <1>2, <1>3

\* then, with handlers of its own or with this one on both sides.
LEMMA ThenKeeps ==
  ASSUME NEW H, NEW V, NEW e, Good(e, H, V), NEW p \in Promise, NEW on \in [How -> H],
         NEW cap \in Capability, NEW h
  PROVE  LET d == Then(e, p, on, cap)
         IN /\ (\A how \in How : on[how] # h) => Keeps(e, d, h)
            /\ (\A how \in How : on[how] = h) /\ Alone(e, h) /\ ~Expects(e, h) =>
                 Alone(d, h) /\ Expects(d, h) /\ CalledFor(d, h, p)
<1> DEFINE x == [on |-> on, cap |-> cap]
           d == Then(e, p, on, cap)
<1>1. e \in Engine(H, V) /\ x.on = on /\ x.cap = cap
  BY DEF Good
<1>2. ASSUME ~Expects(e, h) PROVE CalledFor(e, h, p)
  BY <1>2 DEF Expects, Registered, Queued, CalledFor
<1>3. CASE Settled(e, p)
  <2> DEFINE job == ReactionJob(x, e.promise[p].state, e.promise[p].result)
  <2>1. e.promise[p].state \in How /\ e.promise[p].result \in V
    BY <1>1, <1>3 DEF Settled, Engine, PromiseState
  <2>2. job \in AJob(H, V)
    BY <1>1, <2>1 DEF ReactionJob, ReactionJobs, AJob
  <2>3. <<job.how, job.arg>> = Outcome(e, p) /\ (Runs(job, h) <=> on[e.promise[p].state] = h)
    BY <1>1 DEF ReactionJob, Outcome, Runs
  <2>4. d = [e EXCEPT !.jobs = Append(@, job)]
    BY <1>3 DEF Then, Enqueue
  <2> HIDE DEF d, job
  <2>5. d.jobs = Append(e.jobs, job) /\ d.promise = e.promise
    BY <1>1, <2>4 DEF Engine
  <2>6. ~Runs(job, h) => Keeps(e, d, h)
    BY <1>1, <2>2, <2>5, AppendKeeps
  <2>7. Runs(job, h) /\ Alone(e, h) /\ ~Expects(e, h) => Alone(d, h) /\ Expects(d, h)
    BY <1>1, <2>2, <2>5, AppendKeeps
  <2>8. CalledFor(e, h, p) => CalledFor(d, h, p)
    BY <1>1, <1>3, <2>2, <2>3, <2>5, AppendKeeps
  <2> QED
    BY <1>2, <2>1, <2>3, <2>6, <2>7, <2>8 DEF d
<1>4. CASE ~Settled(e, p)
  <2> DEFINE r == e.promise[p].reactions
             s == d.promise[p].reactions
  <2>1. d = [e EXCEPT !.promise[p].reactions = Append(@, x)]
    BY <1>4 DEF Then
  <2> HIDE DEF d, x
  <2>2. /\ r \in Seq([on : [How -> H], cap : Capability])
        /\ e.promise \in [Promise -> PromiseState(H, V)] /\ e.promise[p] \in PromiseState(H, V)
    BY <1>1 DEF Engine, PromiseState
  <2>3. d.promise = [e.promise EXCEPT ![p].reactions = Append(r, x)] /\ d.jobs = e.jobs
    BY <1>1, <2>1 DEF Engine
  <2>4. /\ s = Append(r, x)
        /\ d.promise[p].state = e.promise[p].state /\ d.promise[p].result = e.promise[p].result
        /\ \A o \in Promise : o # p => d.promise[o] = e.promise[o]
    BY <2>2, <2>3 DEF PromiseState
  <2>5. /\ \A i \in DOMAIN r : i \in DOMAIN s /\ s[i] = r[i]
        /\ \A i \in DOMAIN s : i \notin DOMAIN r => i = Len(r) + 1
        /\ Len(r) + 1 \in DOMAIN s /\ s[Len(r) + 1] = x /\ Len(r) + 1 \notin DOMAIN r
    BY SMTT(60), <2>2, <2>4
  <2> HIDE DEF r, s
  <2>6. /\ Queued(d, h) <=> Queued(e, h)
        /\ \A o \in Promise : (Settled(d, o) <=> Settled(e, o)) /\ Outcome(d, o) = Outcome(e, o)
    BY <2>3, <2>4 DEF Queued, Settled, Outcome
  <2>7. ASSUME \A how \in How : on[how] # h PROVE Keeps(e, d, h)
    <3>1. ~Calls(x, h)
      BY <1>1, <2>7 DEF Calls
    <3>2. ASSUME NEW o \in Promise, NEW i \in DOMAIN d.promise[o].reactions, Calls(d.promise[o].reactions[i], h)
          PROVE  i \in DOMAIN e.promise[o].reactions /\ e.promise[o].reactions[i] = d.promise[o].reactions[i]
      BY <2>4, <2>5, <3>1, <3>2 DEF r, s
    <3>3. ASSUME NEW o \in Promise, NEW i \in DOMAIN e.promise[o].reactions
          PROVE  i \in DOMAIN d.promise[o].reactions /\ d.promise[o].reactions[i] = e.promise[o].reactions[i]
      BY <2>4, <2>5 DEF r, s
    <3>4. Registered(d, h) <=> Registered(e, h)
      BY <3>2, <3>3 DEF Registered
    <3>5. ASSUME Alone(e, h) PROVE Alone(d, h)
      <4>1. ASSUME NEW o \in Promise, NEW t \in Promise,
                   NEW i \in DOMAIN d.promise[o].reactions, NEW j \in DOMAIN d.promise[t].reactions,
                   Calls(d.promise[o].reactions[i], h), Calls(d.promise[t].reactions[j], h)
            PROVE  o = t /\ i = j /\ \A how \in How : d.promise[o].reactions[i].on[how] = h
        <5>1. i \in DOMAIN e.promise[o].reactions /\ e.promise[o].reactions[i] = d.promise[o].reactions[i]
          BY ONLY <3>2, <4>1
        <5>2. j \in DOMAIN e.promise[t].reactions /\ e.promise[t].reactions[j] = d.promise[t].reactions[j]
          BY ONLY <3>2, <4>1
        <5> QED
          BY ONLY <3>5, <4>1, <5>1, <5>2 DEF Alone
      <4>2. \A i, j \in DOMAIN d.jobs : Runs(d.jobs[i], h) /\ Runs(d.jobs[j], h) => i = j
        BY ONLY <2>3, <3>5 DEF Alone
      <4>3. ~(Registered(e, h) /\ Queued(e, h))
        BY ONLY <3>5 DEF Alone
      <4>4. ~(Registered(d, h) /\ Queued(d, h))
        BY ONLY <2>6, <3>4, <4>3
      <4> QED
        BY ONLY <4>1, <4>2, <4>4 DEF Alone
    <3>6. \A o \in Promise : CalledFor(e, h, o) => CalledFor(d, h, o)
      BY <2>3, <2>6, <3>2 DEF CalledFor
    <3> QED
      BY <2>6, <3>4, <3>5, <3>6 DEF Keeps, Expects
  <2>8. ASSUME \A how \in How : on[how] = h, Alone(e, h), ~Expects(e, h)
        PROVE  Alone(d, h) /\ Expects(d, h) /\ CalledFor(d, h, p)
    <3>1. ~Queued(d, h) /\ ~Registered(e, h)
      BY <2>6, <2>8 DEF Expects
    <3>2. ASSUME NEW o \in Promise, NEW i \in DOMAIN d.promise[o].reactions, Calls(d.promise[o].reactions[i], h)
          PROVE  o = p /\ i = Len(r) + 1 /\ d.promise[o].reactions[i] = x
      BY ZenonT(60), <2>4, <2>5, <3>1, <3>2 DEF Registered, r, s
    <3>3. Calls(x, h) /\ \A how \in How : x.on[how] = h
      BY <1>1, <2>8 DEF Calls, How
    <3>4. Expects(d, h)
      BY <2>5, <3>3 DEF Expects, Registered, s
    <3>5. Alone(d, h)
      BY <3>1, <3>2, <3>3 DEF Alone, Queued
    <3>6. CalledFor(d, h, p)
      BY <3>1, <3>2 DEF CalledFor, Queued
    <3> QED
      BY <3>4, <3>5, <3>6
  <2> QED
    BY <2>7, <2>8 DEF d
<1> QED
  BY <1>3, <1>4

\* Promise.resolve.
LEMMA WrapKeeps ==
  ASSUME NEW H, NEW V, Error \in V, NEW e, Good(e, H, V), NEW v \in V, v \notin Promise => Fresh(e) # {}, NEW h
  PROVE  Keeps(e, Wrap(e, v), h)
<1>1. CASE v \in Promise
  BY <1>1, SameHandlers DEF Wrap
<1>2. CASE v \notin Promise
  <2> DEFINE c == Create(e)
  <2>1. Good(c, H, V) /\ Cap(New(e)) \in Made(c)
    BY <1>2, CreateGood
  <2>2. c.promise = e.promise /\ c.jobs = e.jobs
    BY DEF Create, CreateResolvingFunctions, Good, Engine
  <2> HIDE DEF c
  <2>3. Wrap(e, v) = ResolvingCall(c, Cap(New(e)), "fulfilled", v)
    BY <1>2 DEF Wrap, c
  <2>4. Keeps(e, c, h)
    BY <2>2, SameHandlers
  <2>5. Keeps(c, Wrap(e, v), h)
    BY <2>1, <2>3, ResolvingCallKeeps DEF How
  <2> QED
    BY <2>4, <2>5 DEF Keeps
<1> QED
  BY <1>1, <1>2

\* The first job is taken: it calls another handler, or nobody calls this one any more.
LEMMA PopKeeps ==
  ASSUME NEW H, NEW V, NEW e \in Engine(H, V), e.jobs # <<>>, NEW d, d = [e EXCEPT !.jobs = Tail(@)], NEW h
  PROVE  /\ ~Runs(Head(e.jobs), h) => Keeps(e, d, h)
         /\ Runs(Head(e.jobs), h) /\ Alone(e, h) => Alone(d, h) /\ ~Expects(d, h) /\ Expects(e, h)
         /\ \A o \in Promise : Runs(Head(e.jobs), h) /\ CalledFor(e, h, o) =>
              Settled(e, o) /\ <<Head(e.jobs).how, Head(e.jobs).arg>> = Outcome(e, o)
<1> DEFINE q == e.jobs
           r == d.jobs
<1>1. d.promise = e.promise /\ r = Tail(q) /\ q \in Seq(AJob(H, V)) /\ q # <<>>
  BY DEF Engine, AJob
<1>2. /\ Head(q) = q[1] /\ 1 \in DOMAIN q
      /\ \A i \in DOMAIN r : i + 1 \in DOMAIN q /\ i + 1 # 1 /\ r[i] = q[i + 1]
      /\ \A i \in DOMAIN q : i = 1 \/ (i - 1 \in DOMAIN r /\ r[i - 1] = q[i])
      /\ \A i, j \in DOMAIN r : i + 1 = j + 1 => i = j
  BY <1>1
<1> HIDE DEF q, r
<1>3. (Registered(d, h) <=> Registered(e, h)) /\ \A o \in Promise : (Settled(d, o) <=> Settled(e, o)) /\ Outcome(d, o) = Outcome(e, o)
  BY <1>1 DEF Registered, Settled, Outcome
<1>4. ASSUME Alone(e, h), NEW i \in DOMAIN r, NEW j \in DOMAIN r, Runs(r[i], h), Runs(r[j], h) PROVE i = j
  <2>1. i + 1 = j + 1
    BY <1>2, <1>4 DEF Alone, q
  <2> QED
    BY <1>2, <2>1
<1>5. Queued(d, h) => Queued(e, h)
  BY <1>2 DEF Queued, q, r
<1>6. ASSUME ~Runs(Head(q), h) PROVE Keeps(e, d, h)
  <2>1. Queued(e, h) => Queued(d, h)
    BY <1>2, <1>6 DEF Queued, q, r
  <2>2. ASSUME Alone(e, h) PROVE Alone(d, h)
    <3>1. \A o, t \in Promise : \A i \in DOMAIN d.promise[o].reactions, j \in DOMAIN d.promise[t].reactions :
            Calls(d.promise[o].reactions[i], h) /\ Calls(d.promise[t].reactions[j], h) =>
              o = t /\ i = j /\ \A how \in How : d.promise[o].reactions[i].on[how] = h
      BY ONLY <1>1, <2>2 DEF Alone
    <3>2. \A i, j \in DOMAIN d.jobs : Runs(d.jobs[i], h) /\ Runs(d.jobs[j], h) => i = j
      BY <1>4, <2>2 DEF r
    <3>3. ~(Registered(e, h) /\ Queued(e, h))
      BY ONLY <2>2 DEF Alone
    <3>4. ~(Registered(d, h) /\ Queued(d, h))
      BY ONLY <1>3, <1>5, <3>3
    <3> QED
      BY ONLY <3>1, <3>2, <3>4 DEF Alone
  <2>3. ASSUME NEW o \in Promise, CalledFor(e, h, o) PROVE CalledFor(d, h, o)
    <3>1. ASSUME NEW i \in DOMAIN r, Runs(r[i], h)
          PROVE  Settled(d, o) /\ <<r[i].how, r[i].arg>> = Outcome(d, o)
      <4>1. Settled(e, o) /\ <<q[i + 1].how, q[i + 1].arg>> = Outcome(e, o)
        BY <1>2, <2>3, <3>1 DEF CalledFor, q
      <4> QED
        BY <1>2, <1>3, <4>1
    <3> QED
      BY <1>1, <2>3, <3>1 DEF CalledFor, r
  <2> QED
    BY <1>3, <1>5, <2>1, <2>2, <2>3 DEF Keeps, Expects
<1>7. ASSUME Runs(Head(q), h), Alone(e, h) PROVE Alone(d, h) /\ ~Expects(d, h) /\ Expects(e, h)
  <2>1. Queued(e, h) /\ ~Registered(e, h)
    BY <1>2, <1>7 DEF Queued, Alone, q
  <2>2. ~Queued(d, h)
    BY <1>2, <1>7 DEF Queued, Alone, q, r
  <2> QED
    BY <1>3, <2>1, <2>2 DEF Expects, Alone, Registered, Queued
<1>8. ASSUME NEW o \in Promise, Runs(Head(q), h), CalledFor(e, h, o)
      PROVE  Settled(e, o) /\ <<Head(q).how, Head(q).arg>> = Outcome(e, o)
  BY <1>2, <1>8 DEF CalledFor, q
<1> QED
  BY <1>6, <1>7, <1>8 DEF q

-----------------------------------------------------------------------------
(* Ties.                                                                   *)

Registrations == Seq([on : Promise, sides : SUBSET How, derived : Promise, fn : {"callback", "finally"}])
Enrolled(reg) == {Cap(reg[k].derived) : k \in DOMAIN reg}

\* What a step does that registers nothing that refers to K, and takes no job that does.
Bound(r, K) == r.cap \in K \/ \A how \in How : r.on[how].fn = "settle" /\ r.on[how].pair \in K
Holds(e, d, K) ==
  /\ \A y \in K : \A o \in Promise : \A r : Tied(e, y, o, r) => Tied(d, y, o, r)
  /\ \A o \in Promise : \A r : Bound(r, K) /\ Due(e, o, r) => Due(d, o, r)
Carries(e, d, K) ==
  /\ Holds(e, d, K)
  /\ \A reg \in Registrations : \A ran :
       Enrolled(reg) \subseteq K /\ Sequenced(e, reg, ran) => Sequenced(d, reg, ran)

\* Where the jobs are when a promise has settled.
SettleView(e, d, p, how, v, x, q, r, n) ==
  /\ d.promise[p] = [state |-> how, result |-> v, reactions |-> <<>>]
  /\ \A o \in Promise : o # p => d.promise[o] = e.promise[o]
  /\ \A i \in DOMAIN q : i \in DOMAIN r /\ r[i] = q[i]
  /\ \A j \in DOMAIN x : n + j \in DOMAIN r /\ r[n + j] = ReactionJob(x[j], how, v)
  /\ \A i \in DOMAIN r : i \notin DOMAIN q => i - n \in DOMAIN x /\ r[i] = ReactionJob(x[i - n], how, v)
  /\ \A i, j \in DOMAIN r : i < j /\ j \in DOMAIN q => i \in DOMAIN q
  /\ \A i, j \in DOMAIN r : i < j => i - n < j - n
  /\ d.follows = e.follows /\ d.resolved = e.resolved /\ d.pairs = e.pairs

LEMMA SettleViews ==
  ASSUME NEW H, NEW V, NEW e \in Engine(H, V), NEW p \in Promise, ~Settled(e, p),
         NEW how \in How, NEW v \in V, NEW d, d = Settle(e, p, how, v)
  PROVE  SettleView(e, d, p, how, v, e.promise[p].reactions, e.jobs, d.jobs, Len(e.jobs))
<1> DEFINE x == e.promise[p].reactions
           q == e.jobs
           r == d.jobs
           n == Len(q)
<1> DEFINE t == [i \in DOMAIN x |-> ReactionJob(x[i], how, v)]
<1>1. /\ r = q \o t
      /\ d.promise = [e.promise EXCEPT ![p] = [state |-> how, result |-> v, reactions |-> <<>>]]
      /\ d.follows = e.follows /\ d.resolved = e.resolved /\ d.pairs = e.pairs
  BY DEF Engine, Settle
<1>2. q \in Seq(AJob(H, V)) /\ t \in Seq(AJob(H, V))
  <2>1. t \in Seq(ReactionJobs(H, V))
    BY ReactionsBecomeJobs
  <2> QED
    BY <2>1, SeqMonotonic DEF Engine, AJob
<1>3. /\ d.promise[p] = [state |-> how, result |-> v, reactions |-> <<>>]
      /\ \A o \in Promise : o # p => d.promise[o] = e.promise[o]
  BY <1>1 DEF Engine
<1>4. DOMAIN t = DOMAIN x /\ \A j \in DOMAIN x : t[j] = ReactionJob(x[j], how, v)
  OBVIOUS
<1> HIDE DEF t
<1>5. \A i \in DOMAIN q : i \in DOMAIN r /\ r[i] = q[i]
  BY ONLY <1>1, <1>2, Joined
<1>6. \A j \in DOMAIN t : n + j \in DOMAIN r /\ r[n + j] = t[j]
  BY ONLY SMTT(60), <1>1, <1>2, n = Len(q), Joined
<1>7. \A i \in DOMAIN r : i \notin DOMAIN q => i - n \in DOMAIN t /\ r[i] = t[i - n]
  BY ONLY <1>1, <1>2, n = Len(q), Joined
<1>8. n \in Nat /\ DOMAIN q = 1 .. n /\ DOMAIN r \subseteq Nat \ {0}
  <2>1. r \in Seq(AJob(H, V))
    BY ONLY <1>1, <1>2, ConcatProperties
  <2> QED
    BY ONLY <1>2, <2>1, n = Len(q), LenProperties
<1>9. \A i, j \in DOMAIN r : i < j /\ j \in DOMAIN q => i \in DOMAIN q
  BY ONLY <1>8
<1>10. \A i, j \in DOMAIN r : i < j => i - n < j - n
  BY ONLY <1>8
<1> QED
  BY <1>1, <1>3, <1>4, <1>5, <1>6, <1>7, <1>9, <1>10 DEF SettleView

\* A job refers to what its reaction refers to.
LEMMA JobRefers ==
  ASSUME NEW x, NEW how \in How, NEW v, NEW S, ReactionIn(x, S)
  PROVE  JobIn(ReactionJob(x, how, v), S)
BY DEF ReactionIn, JobIn, ReactionJob

\* Reactions stay tied when they become jobs.
LEMMA SettleTied ==
  ASSUME NEW H, NEW V, NEW e \in Engine(H, V), NEW p \in Promise, ~Settled(e, p),
         NEW how \in How, NEW v \in V, NEW d, d = Settle(e, p, how, v), NEW y, NEW o \in Promise, NEW r,
         Tied(e, y, o, r)
  PROVE  Tied(d, y, o, r)
<1> DEFINE x == e.promise[p].reactions
           q == e.jobs
           s == d.jobs
           n == Len(q)
<1>1. /\ d.promise[p] = [state |-> how, result |-> v, reactions |-> <<>>]
      /\ \A b \in Promise : b # p => d.promise[b] = e.promise[b]
      /\ \A i \in DOMAIN q : i \in DOMAIN s /\ s[i] = q[i]
      /\ \A i \in DOMAIN s : i \notin DOMAIN q => i - n \in DOMAIN x /\ s[i] = ReactionJob(x[i - n], how, v)
  BY SettleViews DEF SettleView
<1> HIDE DEF q, s, n, x
<1>2. ASSUME NEW b \in Promise, NEW i \in DOMAIN d.promise[b].reactions
      PROVE  ReactionIn(d.promise[b].reactions[i], Pair \ {y}) \/ (b = o /\ d.promise[b].reactions[i] = r)
  <2>1. b # p /\ d.promise[b] = e.promise[b]
    BY <1>1, <1>2
  <2> QED
    BY <2>1 DEF Tied
<1>3. ASSUME NEW i \in DOMAIN s
      PROVE  JobIn(s[i], Pair \ {y}) \/ (Settled(d, o) /\ s[i] = JobOf(d, r, o))
  <2>1. CASE i \in DOMAIN q
    <3>1. s[i] = q[i] /\ (JobIn(q[i], Pair \ {y}) \/ (Settled(e, o) /\ q[i] = JobOf(e, r, o)))
      BY <1>1, <2>1 DEF Tied, q
    <3>2. Settled(e, o) => d.promise[o] = e.promise[o]
      BY <1>1
    <3> QED
      BY <3>1, <3>2 DEF Settled, JobOf
  <2>2. CASE i \notin DOMAIN q
    <3>1. i - n \in DOMAIN x /\ s[i] = ReactionJob(x[i - n], how, v)
      BY <1>1, <2>2
    <3>2. ReactionIn(x[i - n], Pair \ {y}) \/ (p = o /\ x[i - n] = r)
      BY <3>1 DEF Tied, x
    <3>3. ReactionIn(x[i - n], Pair \ {y}) => JobIn(s[i], Pair \ {y})
      BY <3>1, JobRefers
    <3>4. p = o /\ x[i - n] = r => Settled(d, o) /\ s[i] = JobOf(d, r, o)
      BY <1>1, <3>1 DEF Settled, JobOf, How
    <3> QED
      BY <3>2, <3>3, <3>4
  <2> QED
    BY <2>1, <2>2
<1> QED
  BY <1>2, <1>3 DEF Tied, s

\* Reactions that are due become jobs.
LEMMA SettleDue ==
  ASSUME NEW H, NEW V, NEW e \in Engine(H, V), NEW p \in Promise, ~Settled(e, p),
         NEW how \in How, NEW v \in V, NEW d, d = Settle(e, p, how, v), NEW o \in Promise, NEW r, Due(e, o, r)
  PROVE  Due(d, o, r)
<1> DEFINE x == e.promise[p].reactions
           q == e.jobs
           s == d.jobs
           n == Len(q)
<1>1. /\ d.promise[p] = [state |-> how, result |-> v, reactions |-> <<>>]
      /\ \A b \in Promise : b # p => d.promise[b] = e.promise[b]
      /\ \A i \in DOMAIN q : i \in DOMAIN s /\ s[i] = q[i]
      /\ \A j \in DOMAIN x : n + j \in DOMAIN s /\ s[n + j] = ReactionJob(x[j], how, v)
  BY SettleViews DEF SettleView
<1> HIDE DEF q, s, n, x
<1>2. CASE o = p
  <2>1. PICK j \in DOMAIN x : x[j] = r
    BY <1>2 DEF Due, x
  <2>2. n + j \in DOMAIN s /\ s[n + j] = JobOf(d, r, o)
    BY <1>1, <1>2, <2>1 DEF JobOf
  <2>3. Settled(d, o)
    BY <1>1, <1>2 DEF Settled, How
  <2> QED
    BY <2>2, <2>3 DEF Due, s
<1>3. CASE o # p
  <2>1. d.promise[o] = e.promise[o]
    BY <1>1, <1>3
  <2> QED
    BY <1>1, <2>1 DEF Due, Settled, JobOf, q, s
<1> QED
  BY <1>2, <1>3

\* The fields of a registration.
LEMMA RegistrationKnown ==
  ASSUME NEW reg \in Registrations, NEW k \in DOMAIN reg
  PROVE  /\ reg[k].on \in Promise /\ reg[k].sides \subseteq How /\ reg[k].derived \in Promise
         /\ reg[k].fn \in {"callback", "finally"} /\ k \in Nat
         /\ Cap(reg[k].derived) \in Pair /\ Cap(reg[k].derived) # None
<1> DEFINE R == [on : Promise, sides : SUBSET How, derived : Promise, fn : {"callback", "finally"}]
<1>1. reg \in Seq(R)
  BY DEF Registrations
<1> HIDE DEF R
<1>2. reg[k] \in R /\ k \in Nat
  BY <1>1
<1>3. reg[k].on \in Promise /\ reg[k].sides \subseteq How /\ reg[k].derived \in Promise /\ reg[k].fn \in {"callback", "finally"}
  BY <1>2 DEF R
<1>4. Cap(reg[k].derived) \in Pair
  BY SMTT(60), <1>3 DEF Cap, Pair
<1> QED
  BY <1>2, <1>3, <1>4, PromisesAssumption

\* A job of a callback is a job of its registration.
LEMMA CallbackJob ==
  ASSUME NEW e, NEW reg \in Registrations, NEW ran, Sequenced(e, reg, ran), NEW i \in DOMAIN e.jobs, CallsBack(e.jobs[i])
  PROVE  LET k == e.jobs[i].handler.id
         IN /\ k \in DOMAIN reg /\ reg[k].on \in Promise /\ Settled(e, reg[k].on)
            /\ e.jobs[i] = JobOf(e, Reaction(reg[k], k), reg[k].on)
<1> DEFINE k == e.jobs[i].handler.id
           y == Cap(reg[k].derived)
<1>1. k \in DOMAIN reg /\ e.jobs[i].cap = y
  BY DEF Sequenced, Derives, CallsBack
<1>2. reg[k].on \in Promise /\ y \in Pair /\ y # None
  BY <1>1, RegistrationKnown
<1>4. ~JobIn(e.jobs[i], Pair \ {y})
  BY SMTT(60), <1>1, <1>2 DEF JobIn, CapIn, CallsBack
<1>5. Tied(e, y, reg[k].on, Reaction(reg[k], k))
  BY <1>1 DEF Sequenced
<1> QED
  BY SMTT(60), <1>1, <1>2, <1>4, <1>5 DEF Tied

\* A reaction with a callback is one of a registration on its promise.
FromRegistration(reg, r, h, p) == h.id \in DOMAIN reg /\ reg[h.id].on = p /\ r = Reaction(reg[h.id], h.id)
CallbacksRegistered(e, reg) ==
  \A p \in Promise : \A i \in DOMAIN e.promise[p].reactions : \A how \in How :
    IsCallback(e.promise[p].reactions[i].on[how]) =>
      FromRegistration(reg, e.promise[p].reactions[i], e.promise[p].reactions[i].on[how], p)
LEMMA CallbackReaction ==
  ASSUME NEW e, NEW reg \in Registrations, NEW ran, Sequenced(e, reg, ran)
  PROVE  CallbacksRegistered(e, reg)
<1> SUFFICES ASSUME NEW p \in Promise, NEW i \in DOMAIN e.promise[p].reactions, NEW how \in How,
                    IsCallback(e.promise[p].reactions[i].on[how])
             PROVE  LET k == e.promise[p].reactions[i].on[how].id
                    IN k \in DOMAIN reg /\ reg[k].on = p /\ e.promise[p].reactions[i] = Reaction(reg[k], k)
  BY ZenonT(30) DEF CallbacksRegistered, FromRegistration
<1> DEFINE k == e.promise[p].reactions[i].on[how].id
           y == Cap(reg[k].derived)
<1>1. k \in DOMAIN reg /\ e.promise[p].reactions[i].cap = y
  BY ZenonT(60) DEF Sequenced, Derives
<1>2. reg[k].on \in Promise /\ y \in Pair /\ y # None
  BY SMTT(60), <1>1, RegistrationKnown
<1>4. ~ReactionIn(e.promise[p].reactions[i], Pair \ {y})
  BY ZenonT(30), <1>1, <1>2 DEF ReactionIn, CapIn
<1>5. Tied(e, y, reg[k].on, Reaction(reg[k], k))
  BY ZenonT(30), <1>1 DEF Sequenced
<1> QED
  BY ZenonT(30), <1>1, <1>4, <1>5 DEF Tied

\* The callbacks of a promise are queued in their order when it settles.
LEMMA SettleSequenced ==
  ASSUME NEW H, NEW V, NEW e \in Engine(H, V), NEW p \in Promise, ~Settled(e, p),
         NEW how \in How, NEW v \in V, NEW d, d = Settle(e, p, how, v),
         NEW reg \in Registrations, NEW ran, Sequenced(e, reg, ran)
  PROVE  Sequenced(d, reg, ran)
<1> DEFINE x == e.promise[p].reactions
           q == e.jobs
           s == d.jobs
           n == Len(q)
<1>1. /\ d.promise[p] = [state |-> how, result |-> v, reactions |-> <<>>]
      /\ \A b \in Promise : b # p => d.promise[b] = e.promise[b]
      /\ \A i \in DOMAIN q : i \in DOMAIN s /\ s[i] = q[i]
      /\ \A i \in DOMAIN s : i \notin DOMAIN q => i - n \in DOMAIN x /\ s[i] = ReactionJob(x[i - n], how, v)
      /\ \A i, j \in DOMAIN s : i < j /\ j \in DOMAIN q => i \in DOMAIN q
      /\ \A i, j \in DOMAIN s : i < j => i - n < j - n
  BY SettleViews DEF SettleView
<1>2. \A i \in DOMAIN q : CallsBack(q[i]) => q[i].handler.id \in DOMAIN reg /\ reg[q[i].handler.id].on # p
  BY CallbackJob DEF q
<1>3. \A i \in DOMAIN x : IsCallback(x[i].on[how]) => x[i].on[how].id \in DOMAIN reg /\ reg[x[i].on[how].id].on = p
  <2>1. CallbacksRegistered(e, reg)
    BY CallbackReaction
  <2> QED
    BY ZenonT(60), <2>1 DEF CallbacksRegistered, FromRegistration, x
<1>4. \A k \in DOMAIN reg : reg[k].on \in Promise /\ reg[k].sides \subseteq How
  BY RegistrationKnown
<1>5. \A i \in DOMAIN x : LET job == ReactionJob(x[i], how, v) IN
        /\ CallsBack(job) <=> IsCallback(x[i].on[how])
        /\ job.handler = x[i].on[how] /\ job.cap = x[i].cap
  BY DEF ReactionJob, CallsBack
<1> HIDE DEF q, s, n, x
<1>6. ASSUME NEW i \in DOMAIN s, i \notin DOMAIN q
      PROVE  /\ i - n \in DOMAIN x /\ s[i].handler = x[i - n].on[how] /\ s[i].cap = x[i - n].cap
             /\ CallsBack(s[i]) <=> IsCallback(x[i - n].on[how])
  BY <1>1, <1>5, <1>6
<1>7. \A b \in Promise : \A i \in DOMAIN d.promise[b].reactions : b # p /\ d.promise[b] = e.promise[b]
  BY <1>1
<1>8. \A k \in DOMAIN reg : Tied(d, Cap(reg[k].derived), reg[k].on, Reaction(reg[k], k))
  BY <1>4, SettleTied DEF Sequenced
<1>9. \A b \in Promise : \A i \in DOMAIN d.promise[b].reactions : \A side \in How :
        Derives(reg, d.promise[b].reactions[i].on[side], d.promise[b].reactions[i].cap)
  BY <1>7 DEF Sequenced
<1>10. ASSUME NEW i \in DOMAIN s, CallsBack(s[i]) PROVE Derives(reg, s[i].handler, s[i].cap)
  <2>1. CASE i \in DOMAIN q
    BY <1>1, <1>10, <2>1 DEF Sequenced, q
  <2>2. CASE i \notin DOMAIN q
    BY <1>6, <2>2 DEF Sequenced, x
  <2> QED
    BY <2>1, <2>2
<1>11. \A b \in Promise : \A i, j \in DOMAIN d.promise[b].reactions : \A side \in How :
         i < j /\ IsCallback(d.promise[b].reactions[i].on[side]) /\ IsCallback(d.promise[b].reactions[j].on[side]) =>
           d.promise[b].reactions[i].on[side].id < d.promise[b].reactions[j].on[side].id
  BY ZenonT(60), <1>7 DEF Sequenced
<1>12. ASSUME NEW i \in DOMAIN s, NEW j \in DOMAIN s, i < j, CallsBack(s[i]), CallsBack(s[j])
       PROVE  Before(reg, s[i].handler.id, s[j].handler.id)
  <2>1. CASE j \in DOMAIN q
    BY <1>1, <1>12, <2>1 DEF Sequenced, q
  <2>2. CASE j \notin DOMAIN q /\ i \in DOMAIN q
    <3>1. reg[s[i].handler.id].on # p
      BY <1>1, <1>2, <1>12, <2>2
    <3>2. reg[s[j].handler.id].on = p
      BY <1>3, <1>6, <1>12, <2>2
    <3> QED
      BY <3>1, <3>2 DEF Before
  <2>3. CASE j \notin DOMAIN q /\ i \notin DOMAIN q
    <3>1. /\ i - n \in DOMAIN x /\ j - n \in DOMAIN x /\ i - n < j - n
          /\ IsCallback(x[i - n].on[how]) /\ IsCallback(x[j - n].on[how])
          /\ s[i].handler = x[i - n].on[how] /\ s[j].handler = x[j - n].on[how]
      BY <1>1, <1>6, <1>12, <2>3
    <3> QED
      BY Zenon, <3>1 DEF Sequenced, Before, x
  <2> QED
    BY <2>1, <2>2, <2>3
<1>13. \A i \in DOMAIN ran : ran[i].id \in DOMAIN reg /\ ran[i].how \in reg[ran[i].id].sides
  BY DEF Sequenced
<1>14. ASSUME NEW i \in DOMAIN ran
       PROVE  reg[ran[i].id].on # p /\ <<ran[i].how, ran[i].arg>> = Outcome(d, reg[ran[i].id].on)
  <2>1. <<ran[i].how, ran[i].arg>> = Outcome(e, reg[ran[i].id].on) /\ ran[i].how \in How
    BY <1>4, <1>13 DEF Sequenced
  <2>2. reg[ran[i].id].on # p
    BY <2>1 DEF Outcome, Settled, How
  <2> QED
    BY <1>1, <1>4, <1>13, <2>1, <2>2 DEF Outcome
<1>15. ASSUME NEW i \in DOMAIN ran, NEW j \in DOMAIN s, CallsBack(s[j]) PROVE Before(reg, ran[i].id, s[j].handler.id)
  <2>1. CASE j \in DOMAIN q
    BY <1>1, <1>15, <2>1 DEF Sequenced, q
  <2>2. CASE j \notin DOMAIN q
    <3>1. reg[s[j].handler.id].on = p
      BY <1>3, <1>6, <1>15, <2>2
    <3> QED
      BY <1>14, <3>1 DEF Before
  <2> QED
    BY <2>1, <2>2
<1>16. \A i, j \in DOMAIN ran : i < j => Before(reg, ran[i].id, ran[j].id)
  BY DEF Sequenced
<1> QED
  BY <1>8, <1>9, <1>10, <1>11, <1>12, <1>13, <1>14, <1>15, <1>16 DEF Sequenced, s

\* Engines with the same reactions and jobs carry the same.
LEMMA SameCarries ==
  ASSUME NEW e, NEW d, d.promise = e.promise, d.jobs = e.jobs, NEW K
  PROVE  Carries(e, d, K)
<1>1. \A y \in K : \A o \in Promise : \A r : Tied(e, y, o, r) => Tied(d, y, o, r)
  BY SMTT(60) DEF Tied, Settled, JobOf
<1>2. \A o \in Promise : \A r : Due(e, o, r) => Due(d, o, r)
  BY DEF Due, Settled, JobOf
<1>3. ASSUME NEW reg \in Registrations, NEW ran, Sequenced(e, reg, ran) PROVE Sequenced(d, reg, ran)
  <2>1. \A k \in DOMAIN reg : Tied(d, Cap(reg[k].derived), reg[k].on, Reaction(reg[k], k))
    BY ZenonT(60), <1>3 DEF Sequenced, Tied, Settled, JobOf
  <2> QED
    BY <1>3, <2>1 DEF Sequenced, Outcome
<1> QED
  BY <1>1, <1>2, <1>3 DEF Carries, Holds

\* A promise settles: what becomes of it, of the others and of the queue.
SettleStep(e, d, p, how, v) ==
  /\ d.promise[p] = [state |-> how, result |-> v, reactions |-> <<>>]
  /\ \A o \in Promise : o # p => d.promise[o] = e.promise[o]
  /\ d.resolved = e.resolved /\ d.pairs = e.pairs /\ d.follows = e.follows
  /\ \A i \in DOMAIN d.jobs : (i \in DOMAIN e.jobs /\ d.jobs[i] = e.jobs[i]) \/ d.jobs[i].kind = "reaction"

LEMMA SettleCarries ==
  ASSUME NEW H, NEW V, NEW e \in Engine(H, V), NEW p \in Promise, ~Settled(e, p),
         NEW how \in How, NEW v \in V, NEW d, d = Settle(e, p, how, v)
  PROVE  SettleStep(e, d, p, how, v) /\ \A K : Carries(e, d, K)
<1>1. SettleView(e, d, p, how, v, e.promise[p].reactions, e.jobs, d.jobs, Len(e.jobs))
  BY SettleViews
<1>2. ASSUME NEW i \in DOMAIN d.jobs
      PROVE  (i \in DOMAIN e.jobs /\ d.jobs[i] = e.jobs[i]) \/ d.jobs[i].kind = "reaction"
  <2>1. i \in DOMAIN e.jobs => d.jobs[i] = e.jobs[i]
    BY <1>1 DEF SettleView
  <2>2. i \notin DOMAIN e.jobs => d.jobs[i] = ReactionJob(e.promise[p].reactions[i - Len(e.jobs)], how, v)
    BY <1>1 DEF SettleView
  <2> QED
    BY <2>1, <2>2 DEF ReactionJob
<1>3. /\ d.promise[p] = [state |-> how, result |-> v, reactions |-> <<>>]
      /\ \A o \in Promise : o # p => d.promise[o] = e.promise[o]
      /\ d.resolved = e.resolved /\ d.pairs = e.pairs /\ d.follows = e.follows
  BY <1>1 DEF SettleView
<1>4. \A y : \A o \in Promise : \A r : Tied(e, y, o, r) => Tied(d, y, o, r)
  BY SettleTied
<1>5. \A o \in Promise : \A r : Due(e, o, r) => Due(d, o, r)
  BY SettleDue
<1>6. \A reg \in Registrations : \A ran : Sequenced(e, reg, ran) => Sequenced(d, reg, ran)
  BY SettleSequenced
<1>7. \A K : Carries(e, d, K)
  BY <1>4, <1>5, <1>6 DEF Carries, Holds
<1> QED
  BY <1>2, <1>3, <1>7 DEF SettleStep

\* Where the jobs are when one is added.
LEMMA AppendView ==
  ASSUME NEW S, NEW q \in Seq(S), NEW x \in S, NEW s, s = Append(q, x)
  PROVE  /\ \A i \in DOMAIN q : i \in DOMAIN s /\ s[i] = q[i]
         /\ \A i \in DOMAIN s : i \notin DOMAIN q => i = Len(q) + 1 /\ s[i] = x
         /\ Len(q) + 1 \in DOMAIN s /\ s[Len(q) + 1] = x
         /\ \A i, j \in DOMAIN s : i < j => i \in DOMAIN q
OBVIOUS

\* A job is queued that calls no callback of a script.
LEMMA AppendCarries ==
  ASSUME NEW H, NEW V, NEW e \in Engine(H, V), NEW job \in AJob(H, V),
         NEW d, d.promise = e.promise, d.jobs = Append(e.jobs, job)
  PROVE  /\ \A y : \A o \in Promise : \A r :
              Tied(e, y, o, r) /\ (JobIn(job, Pair \ {y}) \/ (Settled(e, o) /\ job = JobOf(e, r, o))) => Tied(d, y, o, r)
         /\ \A o \in Promise : \A r : Due(e, o, r) \/ (Settled(e, o) /\ job = JobOf(e, r, o)) => Due(d, o, r)
         /\ \A K \in SUBSET Pair : JobIn(job, Pair \ K) /\ ~CallsBack(job) => Carries(e, d, K)
<1> DEFINE q == e.jobs
           s == d.jobs
<1>1. /\ \A i \in DOMAIN q : i \in DOMAIN s /\ s[i] = q[i]
      /\ \A i \in DOMAIN s : i \notin DOMAIN q => s[i] = job
      /\ Len(q) + 1 \in DOMAIN s /\ s[Len(q) + 1] = job
      /\ \A i, j \in DOMAIN s : i < j => i \in DOMAIN q
  <2>1. q \in Seq(AJob(H, V)) /\ s = Append(q, job)
    BY DEF Engine, AJob
  <2> HIDE DEF q, s
  <2> QED
    BY <2>1, AppendView
<1> HIDE DEF q, s
<1>2. \A o \in Promise : (Settled(d, o) <=> Settled(e, o)) /\ Outcome(d, o) = Outcome(e, o) /\ \A r : JobOf(d, r, o) = JobOf(e, r, o)
  BY DEF Settled, Outcome, JobOf
<1>3. ASSUME NEW y, NEW o \in Promise, NEW r, Tied(e, y, o, r),
             JobIn(job, Pair \ {y}) \/ (Settled(e, o) /\ job = JobOf(e, r, o))
      PROVE  Tied(d, y, o, r)
  BY ZenonT(60), <1>1, <1>2, <1>3 DEF Tied, q, s
<1>4. ASSUME NEW o \in Promise, NEW r, Due(e, o, r) \/ (Settled(e, o) /\ job = JobOf(e, r, o)) PROVE Due(d, o, r)
  BY <1>1, <1>2, <1>4 DEF Due, q, s
<1>5. ASSUME NEW K \in SUBSET Pair, JobIn(job, Pair \ K), ~CallsBack(job) PROVE Carries(e, d, K)
  <2>1. ASSUME NEW y \in K, NEW o \in Promise, NEW r, Tied(e, y, o, r) PROVE Tied(d, y, o, r)
    <3>1. JobIn(job, Pair \ {y})
      BY <1>5 DEF JobIn, CapIn, HandlerIn
    <3> QED
      BY <1>3, <2>1, <3>1
  <2>2. ASSUME NEW reg \in Registrations, NEW ran, Enrolled(reg) \subseteq K, Sequenced(e, reg, ran)
        PROVE  Sequenced(d, reg, ran)
    <3>1. \A k \in DOMAIN reg : Tied(d, Cap(reg[k].derived), reg[k].on, Reaction(reg[k], k))
      <4> SUFFICES ASSUME NEW k \in DOMAIN reg PROVE Tied(d, Cap(reg[k].derived), reg[k].on, Reaction(reg[k], k))
        OBVIOUS
      <4>1. Cap(reg[k].derived) \in K /\ reg[k].on \in Promise
        BY <2>2, RegistrationKnown DEF Enrolled
      <4> QED
        BY <2>1, <2>2, <4>1 DEF Sequenced
    <3>2. \A i \in DOMAIN s : CallsBack(s[i]) => i \in DOMAIN q /\ s[i] = q[i]
      BY <1>1, <1>5
    <3>3. \A i \in DOMAIN s : CallsBack(s[i]) => Derives(reg, s[i].handler, s[i].cap)
      BY <2>2, <3>2 DEF Sequenced, q
    <3>4. \A i, j \in DOMAIN s : i < j /\ CallsBack(s[i]) /\ CallsBack(s[j]) => Before(reg, s[i].handler.id, s[j].handler.id)
      BY <2>2, <3>2 DEF Sequenced, q
    <3>5. \A i \in DOMAIN ran, j \in DOMAIN s : CallsBack(s[j]) => Before(reg, ran[i].id, s[j].handler.id)
      BY <2>2, <3>2 DEF Sequenced, q
    <3>6. \A i \in DOMAIN ran : <<ran[i].how, ran[i].arg>> = Outcome(d, reg[ran[i].id].on)
      BY SMTT(60), <2>2 DEF Sequenced, Outcome
    <3> QED
      BY ZenonT(60), <2>2, <3>1, <3>3, <3>4, <3>5, <3>6 DEF Sequenced, s
  <2> QED
    BY <1>4, <2>1, <2>2 DEF Carries, Holds
<1> QED
  BY <1>3, <1>4, <1>5

\* Where the reactions are when one is added.
ReactionView(e, d, p, x) ==
  /\ \A o \in Promise : /\ d.promise[o].state = e.promise[o].state /\ d.promise[o].result = e.promise[o].result
                        /\ o # p => d.promise[o].reactions = e.promise[o].reactions
  /\ \A i \in DOMAIN e.promise[p].reactions :
       i \in DOMAIN d.promise[p].reactions /\ d.promise[p].reactions[i] = e.promise[p].reactions[i]
  /\ \A i \in DOMAIN d.promise[p].reactions : i \notin DOMAIN e.promise[p].reactions => d.promise[p].reactions[i] = x
  /\ \E i \in DOMAIN d.promise[p].reactions : d.promise[p].reactions[i] = x
  /\ \A i, j \in DOMAIN d.promise[p].reactions : i < j => i \in DOMAIN e.promise[p].reactions

LEMMA ReactionViews ==
  ASSUME NEW H, NEW V, NEW e \in Engine(H, V), NEW p \in Promise,
         NEW x \in [on : [How -> H], cap : Capability],
         NEW d, d.promise = [e.promise EXCEPT ![p].reactions = Append(@, x)]
  PROVE  ReactionView(e, d, p, x)
<1> DEFINE q == e.promise[p].reactions
           s == d.promise[p].reactions
           R == [on : [How -> H], cap : Capability]
<1>1. q \in Seq(R) /\ e.promise \in [Promise -> PromiseState(H, V)] /\ e.promise[p] \in PromiseState(H, V)
  BY DEF Engine, PromiseState
<1>2. /\ s = Append(q, x)
      /\ d.promise[p].state = e.promise[p].state /\ d.promise[p].result = e.promise[p].result
      /\ \A o \in Promise : o # p => d.promise[o] = e.promise[o]
  BY <1>1 DEF PromiseState
<1>3. x \in R
  OBVIOUS
<1> HIDE DEF q, s, R
<1>4. /\ \A i \in DOMAIN q : i \in DOMAIN s /\ s[i] = q[i]
      /\ \A i \in DOMAIN s : i \notin DOMAIN q => s[i] = x
      /\ Len(q) + 1 \in DOMAIN s /\ s[Len(q) + 1] = x
      /\ \A i, j \in DOMAIN s : i < j => i \in DOMAIN q
  BY <1>1, <1>2, <1>3, AppendView
<1> QED
  BY <1>2, <1>4 DEF ReactionView, q, s

\* A reaction is added to a pending promise.
LEMMA ReactCarries ==
  ASSUME NEW H, NEW V, NEW e \in Engine(H, V), NEW p \in Promise, ~Settled(e, p),
         NEW x \in [on : [How -> H], cap : Capability],
         NEW d, d.promise = [e.promise EXCEPT ![p].reactions = Append(@, x)], d.jobs = e.jobs
  PROVE  /\ \A y : \A o \in Promise : \A r :
              Tied(e, y, o, r) /\ (ReactionIn(x, Pair \ {y}) \/ (p = o /\ x = r)) => Tied(d, y, o, r)
         /\ \A o \in Promise : \A r : Due(e, o, r) \/ (p = o /\ x = r) => Due(d, o, r)
         /\ \A K \in SUBSET Pair : ReactionIn(x, Pair \ K) /\ (\A how \in How : ~IsCallback(x.on[how])) => Carries(e, d, K)
<1>1. ReactionView(e, d, p, x)
  BY ReactionViews
<1>2. \A o \in Promise : (Settled(d, o) <=> Settled(e, o)) /\ Outcome(d, o) = Outcome(e, o) /\ \A r : JobOf(d, r, o) = JobOf(e, r, o)
  BY <1>1 DEF Settled, Outcome, JobOf, ReactionView
<1>3. ASSUME NEW y, NEW o \in Promise, NEW r, Tied(e, y, o, r), ReactionIn(x, Pair \ {y}) \/ (p = o /\ x = r)
      PROVE  Tied(d, y, o, r)
  <2>1. ASSUME NEW b \in Promise, NEW i \in DOMAIN d.promise[b].reactions
        PROVE  ReactionIn(d.promise[b].reactions[i], Pair \ {y}) \/ (b = o /\ d.promise[b].reactions[i] = r)
    <3>1. CASE i \in DOMAIN e.promise[b].reactions /\ d.promise[b].reactions[i] = e.promise[b].reactions[i]
      BY <1>3, <3>1 DEF Tied
    <3>2. CASE b = p /\ d.promise[b].reactions[i] = x
      BY <1>3, <3>2
    <3> QED
      BY <1>1, <3>1, <3>2 DEF ReactionView
  <2> QED
    BY <1>2, <1>3, <2>1 DEF Tied
<1>4. ASSUME NEW o \in Promise, NEW r, Due(e, o, r) \/ (p = o /\ x = r) PROVE Due(d, o, r)
  BY <1>1, <1>2, <1>4 DEF Due, ReactionView
<1>5. ASSUME NEW K \in SUBSET Pair, ReactionIn(x, Pair \ K), \A how \in How : ~IsCallback(x.on[how]) PROVE Carries(e, d, K)
  <2>1. ASSUME NEW y \in K, NEW o \in Promise, NEW r, Tied(e, y, o, r) PROVE Tied(d, y, o, r)
    <3>1. ReactionIn(x, Pair \ {y})
      BY SMTT(60), <1>5 DEF ReactionIn, CapIn, HandlerIn
    <3> QED
      BY <1>3, <2>1, <3>1
  <2>2. ASSUME NEW reg \in Registrations, NEW ran, Enrolled(reg) \subseteq K, Sequenced(e, reg, ran)
        PROVE  Sequenced(d, reg, ran)
    <3>1. \A k \in DOMAIN reg : Tied(d, Cap(reg[k].derived), reg[k].on, Reaction(reg[k], k))
      <4> SUFFICES ASSUME NEW k \in DOMAIN reg PROVE Tied(d, Cap(reg[k].derived), reg[k].on, Reaction(reg[k], k))
        OBVIOUS
      <4>1. Cap(reg[k].derived) \in K /\ reg[k].on \in Promise
        BY SMTT(60), <2>2, RegistrationKnown DEF Enrolled
      <4> QED
        BY <2>1, <2>2, <4>1 DEF Sequenced
    <3>2. \A b \in Promise : \A i \in DOMAIN d.promise[b].reactions : \A how \in How :
            IsCallback(d.promise[b].reactions[i].on[how]) =>
              i \in DOMAIN e.promise[b].reactions /\ d.promise[b].reactions[i] = e.promise[b].reactions[i]
      BY SMTT(60), <1>1, <1>5 DEF ReactionView
    <3>3. \A b \in Promise : \A i \in DOMAIN d.promise[b].reactions : \A how \in How :
            Derives(reg, d.promise[b].reactions[i].on[how], d.promise[b].reactions[i].cap)
      <4> SUFFICES ASSUME NEW b \in Promise, NEW i \in DOMAIN d.promise[b].reactions, NEW how \in How
                   PROVE  Derives(reg, d.promise[b].reactions[i].on[how], d.promise[b].reactions[i].cap)
        BY SMTT(60)
      <4>1. CASE IsCallback(d.promise[b].reactions[i].on[how])
        <5>1. i \in DOMAIN e.promise[b].reactions /\ d.promise[b].reactions[i] = e.promise[b].reactions[i]
          BY <3>2, <4>1
        <5> QED
          BY SMTT(60), <2>2, <5>1 DEF Sequenced
      <4>2. CASE ~IsCallback(d.promise[b].reactions[i].on[how])
        BY ZenonT(30), <4>2 DEF Derives
      <4> QED
        BY <4>1, <4>2
    <3>4. ASSUME NEW b \in Promise, NEW i \in DOMAIN d.promise[b].reactions, NEW j \in DOMAIN d.promise[b].reactions,
                 NEW how \in How, i < j,
                 IsCallback(d.promise[b].reactions[i].on[how]), IsCallback(d.promise[b].reactions[j].on[how])
          PROVE  d.promise[b].reactions[i].on[how].id < d.promise[b].reactions[j].on[how].id
      <4>1. /\ i \in DOMAIN e.promise[b].reactions /\ d.promise[b].reactions[i] = e.promise[b].reactions[i]
            /\ j \in DOMAIN e.promise[b].reactions /\ d.promise[b].reactions[j] = e.promise[b].reactions[j]
        BY ZenonT(60), <3>2, <3>4
      <4> QED
        BY ZenonT(30), <2>2, <3>4, <4>1 DEF Sequenced
    <3>5. \A i \in DOMAIN ran : <<ran[i].how, ran[i].arg>> = Outcome(d, reg[ran[i].id].on)
      <4>1. \A i \in DOMAIN ran : reg[ran[i].id].on \in Promise /\ <<ran[i].how, ran[i].arg>> = Outcome(e, reg[ran[i].id].on)
        BY <2>2, RegistrationKnown DEF Sequenced
      <4> QED
        BY <1>2, <4>1
    <3> QED
      BY ZenonT(60), <2>2, <3>1, <3>3, <3>4, <3>5 DEF Sequenced
  <2> QED
    BY <1>4, <2>1, <2>2 DEF Carries, Holds
<1> QED
  BY <1>3, <1>4, <1>5

\* Then as one step: the reaction, or its job.
LEMMA ThenCarries ==
  ASSUME NEW H, NEW V, NEW e, Good(e, H, V), NEW p \in Promise, NEW on \in [How -> H],
         NEW cap \in Capability, NEW x, x = [on |-> on, cap |-> cap], NEW d, d = Then(e, p, on, cap)
  PROVE  /\ \A y : \A o \in Promise : \A r :
              Tied(e, y, o, r) /\ (ReactionIn(x, Pair \ {y}) \/ (p = o /\ x = r)) => Tied(d, y, o, r)
         /\ \A o \in Promise : \A r : Due(e, o, r) \/ (p = o /\ x = r) => Due(d, o, r)
         /\ \A K \in SUBSET Pair : ReactionIn(x, Pair \ K) /\ (\A how \in How : ~IsCallback(x.on[how])) => Carries(e, d, K)
         /\ d.resolved = e.resolved /\ d.pairs = e.pairs /\ d.follows = e.follows
         /\ \A o \in Promise : d.promise[o].state = e.promise[o].state /\ d.promise[o].result = e.promise[o].result
         /\ \A i \in DOMAIN d.jobs : d.jobs[i].kind = "reaction" \/ (i \in DOMAIN e.jobs /\ d.jobs[i] = e.jobs[i])
<1>1. e \in Engine(H, V) /\ x \in [on : [How -> H], cap : Capability] /\ x.on = on /\ x.cap = cap
  BY DEF Good
<1>2. CASE Settled(e, p)
  <2> DEFINE job == JobOf(e, x, p)
  <2>1. e.promise[p].state \in How /\ e.promise[p].result \in V
    BY <1>1, <1>2 DEF Settled, Engine, PromiseState
  <2>2. job \in AJob(H, V) /\ job.kind = "reaction"
    BY <1>1, <2>1 DEF JobOf, ReactionJob, ReactionJobs, AJob
  <2>3. d = [e EXCEPT !.jobs = Append(@, job)]
    BY <1>2 DEF Then, Enqueue, JobOf
  <2>4. \A S : ReactionIn(x, S) => JobIn(job, S)
    BY <2>1, JobRefers DEF JobOf
  <2>5. (\A how \in How : ~IsCallback(x.on[how])) => ~CallsBack(job)
    BY <1>1, <2>1 DEF JobOf, ReactionJob, CallsBack
  <2>6. x = [on |-> on, cap |-> cap]
    OBVIOUS
  <2> HIDE DEF job
  <2>7. /\ d.jobs = Append(e.jobs, job) /\ d.promise = e.promise
        /\ d.resolved = e.resolved /\ d.pairs = e.pairs /\ d.follows = e.follows
    BY <1>1, <2>3 DEF Engine
  <2>8. \A y : \A o \in Promise : \A r :
          Tied(e, y, o, r) /\ (JobIn(job, Pair \ {y}) \/ (Settled(e, o) /\ job = JobOf(e, r, o))) => Tied(d, y, o, r)
    BY <1>1, <2>2, <2>7, AppendCarries
  <2>9. \A o \in Promise : \A r : Due(e, o, r) \/ (Settled(e, o) /\ job = JobOf(e, r, o)) => Due(d, o, r)
    BY <1>1, <2>2, <2>7, AppendCarries
  <2>10. \A K \in SUBSET Pair : JobIn(job, Pair \ K) /\ ~CallsBack(job) => Carries(e, d, K)
    BY <1>1, <2>2, <2>7, AppendCarries
  <2>11. \A i \in DOMAIN d.jobs : d.jobs[i].kind = "reaction" \/ (i \in DOMAIN e.jobs /\ d.jobs[i] = e.jobs[i])
    <3>1. e.jobs \in Seq(AJob(H, V))
      BY <1>1 DEF Engine, AJob
    <3> QED
      BY <2>2, <2>7, <3>1
  <2>12. \A o \in Promise : \A r : p = o /\ x = r => Settled(e, o) /\ job = JobOf(e, r, o)
    BY <1>2 DEF job
  <2>13. \A y : \A o \in Promise : \A r :
           Tied(e, y, o, r) /\ (ReactionIn(x, Pair \ {y}) \/ (p = o /\ x = r)) => Tied(d, y, o, r)
    BY <2>4, <2>8, <2>12
  <2>14. \A o \in Promise : \A r : Due(e, o, r) \/ (p = o /\ x = r) => Due(d, o, r)
    BY <2>9, <2>12
  <2>15. \A K \in SUBSET Pair : ReactionIn(x, Pair \ K) /\ (\A how \in How : ~IsCallback(x.on[how])) => Carries(e, d, K)
    BY <2>4, <2>5, <2>10
  <2> QED
    BY <2>7, <2>11, <2>13, <2>14, <2>15
<1>3. CASE ~Settled(e, p)
  <2>1. d = [e EXCEPT !.promise[p].reactions = Append(@, x)]
    BY <1>3 DEF Then
  <2>2. /\ d.promise = [e.promise EXCEPT ![p].reactions = Append(@, x)] /\ d.jobs = e.jobs
        /\ d.resolved = e.resolved /\ d.pairs = e.pairs /\ d.follows = e.follows
    BY <1>1, <2>1 DEF Engine
  <2>3. \A o \in Promise : d.promise[o].state = e.promise[o].state /\ d.promise[o].result = e.promise[o].result
    BY <1>1, <2>2, ReactionViews DEF ReactionView
  <2>4. \A y : \A o \in Promise : \A r :
          Tied(e, y, o, r) /\ (ReactionIn(x, Pair \ {y}) \/ (p = o /\ x = r)) => Tied(d, y, o, r)
    BY ONLY <1>1, <1>3, <2>2, p \in Promise, ReactCarries
  <2>5. \A o \in Promise : \A r : Due(e, o, r) \/ (p = o /\ x = r) => Due(d, o, r)
    BY ONLY ZenonT(60), <1>1, <1>3, <2>2, p \in Promise, ReactCarries
  <2>6. \A K \in SUBSET Pair : ReactionIn(x, Pair \ K) /\ (\A how \in How : ~IsCallback(x.on[how])) => Carries(e, d, K)
    BY ONLY <1>1, <1>3, <2>2, p \in Promise, ReactCarries
  <2> QED
    BY <2>2, <2>3, <2>4, <2>5, <2>6
<1> QED
  BY <1>2, <1>3

\* A call of a resolving function marks its pair, then settles its promise or queues a thenable.
Marks(e, c, pair) ==
  /\ c.promise = e.promise /\ c.jobs = e.jobs /\ c.pairs = e.pairs /\ c.follows = e.follows
  /\ c.resolved = e.resolved \cup {pair} /\ ~Settled(c, pair.of) /\ pair.of \in Promise
Settles(c, d, p, how, v, V) ==
  \E how2 \in How : \E w \in V :
    /\ d = Settle(c, p, how2, w)
    /\ how2 = "fulfilled" => w \notin Promise \cup Thenable \cup Poisoned
    /\ how = "rejected" \/ v \notin Promise \cup Thenable \cup Poisoned => how2 = how /\ w = v
Defers(c, d, p, how, v) ==
  /\ how = "fulfilled" /\ v \in Promise \cup Thenable
  /\ d.jobs = Append(c.jobs, ThenableJob(p, v)) /\ d.promise = c.promise
  /\ d.follows = [c.follows EXCEPT ![p] = IF v \in Promise THEN v ELSE None]
  /\ d.resolved = c.resolved /\ d.pairs = c.pairs

LEMMA CallCases ==
  ASSUME NEW H, NEW V, Error \in V, NEW e, Good(e, H, V), NEW pair \in Made(e), pair \notin e.resolved,
         NEW how \in How, NEW v \in V, NEW d, d = ResolvingCall(e, pair, how, v)
  PROVE  \E c \in Engine(H, V) :
           Marks(e, c, pair) /\ (Settles(c, d, pair.of, how, v, V) \/ Defers(c, d, pair.of, how, v))
<1> DEFINE p == pair.of
<1> USE DEF Marks, Settles, Defers
<1> DEFINE c == Mark(e, pair, how, v)
<1>1. e \in Engine(H, V) /\ p \in Promise
  BY DEF Good, Pair, Made
<1>2. /\ c \in Engine(H, V) /\ c.promise = e.promise /\ c.jobs = e.jobs /\ c.pairs = e.pairs /\ c.follows = e.follows
      /\ c.resolved = e.resolved \cup {pair}
  BY <1>1 DEF Mark, Engine, Made
<1>3. d = CASE how = "rejected" -> Settle(c, p, "rejected", v)
          [] how = "fulfilled" /\ (v = p \/ v \in Poisoned) -> Settle(c, p, "rejected", Error)
          [] how = "fulfilled" /\ v # p /\ v \in Promise \cup Thenable ->
               [Enqueue(c, ThenableJob(p, v)) EXCEPT !.follows[p] = IF v \in Promise THEN v ELSE None]
          [] OTHER -> Settle(c, p, "fulfilled", v)
  BY DEF ResolvingCall
<1> HIDE DEF c
<1>4. ~Settled(c, p)
  BY <1>2, LastPairUsed DEF Settled
<1>5. CASE how = "rejected"
  BY <1>1, <1>2, <1>3, <1>4, <1>5 DEF How
<1>6. CASE how = "fulfilled" /\ (v = p \/ v \in Poisoned)
  <2>1. d = Settle(c, p, "rejected", Error)
    BY <1>1, <1>3, <1>6, PromisesAssumption
  <2>2. v \in Promise \cup Thenable \cup Poisoned
    BY <1>1, <1>6
  <2> QED
    BY <1>1, <1>2, <1>4, <1>6, <2>1, <2>2 DEF How
<1>7. CASE how = "fulfilled" /\ ~(v = p \/ v \in Poisoned) /\ v \in Promise \cup Thenable
  <2>1. d = [Enqueue(c, ThenableJob(p, v)) EXCEPT !.follows[p] = IF v \in Promise THEN v ELSE None]
    BY <1>3, <1>7
  <2>2. /\ d.jobs = Append(c.jobs, ThenableJob(p, v)) /\ d.promise = c.promise
        /\ d.follows = [c.follows EXCEPT ![p] = IF v \in Promise THEN v ELSE None]
        /\ d.resolved = c.resolved /\ d.pairs = c.pairs
    BY <1>2, <2>1 DEF Engine, Enqueue
  <2> QED
    BY <1>1, <1>2, <1>4, <1>7, <2>2
<1>8. CASE how = "fulfilled" /\ v \notin Promise \cup Thenable \cup Poisoned
  <2>1. d = Settle(c, p, "fulfilled", v)
    BY <1>1, <1>3, <1>8
  <2> QED
    BY <1>1, <1>2, <1>4, <1>8, <2>1 DEF How
<1> QED
  BY <1>5, <1>6, <1>7, <1>8 DEF How

-----------------------------------------------------------------------------
(* Promises that follow promises.                                          *)

\* What a step does that adds no reference to K, takes no job of a reaction and
\* calls no function but those of C.
Tidy(e, d, K, C) ==
  /\ Straight(d) /\ Carries(e, d, K)
  /\ Chained(d) \cap Made(e) \subseteq Chained(e)
  /\ d.resolved \cap Made(e) \subseteq e.resolved \cup C
  /\ \A p \in Promise : e.follows[p] # None => d.follows[p] = e.follows[p]

\* The last pair of a follower was made.
LEMMA ChainedMade ==
  ASSUME NEW H, NEW V, NEW e, Good(e, H, V), Straight(e)
  PROVE  /\ Chained(e) \subseteq Made(e) \ e.resolved
         /\ \A p \in Promise : e.follows[p] # None =>
              /\ e.follows[p] \in Promise /\ Cap(p) \in Made(e) /\ e.pairs[p] \in Nat \ {0}
              /\ Last(e, p) \in Made(e) /\ (Last(e, p) \in Chained(e) \/ Last(e, p) \in e.resolved)
<1>1. e \in Engine(H, V) /\ e.resolved \subseteq Made(e)
  BY DEF Good, Sound
<1>2. ASSUME NEW p \in Promise, e.follows[p] # None
      PROVE  /\ e.follows[p] \in Promise /\ Cap(p) \in Made(e) /\ e.pairs[p] \in Nat \ {0} /\ Last(e, p) \in Made(e)
  <2>1. Cap(p) \in Made(e) /\ e.follows[p] \in Promise
    BY <1>1, <1>2 DEF Straight, Engine
  <2>2. e.pairs[p] \in Nat /\ 1 <= e.pairs[p]
    BY <1>1, <2>1 DEF Cap, Made, Engine
  <2>3. Last(e, p) \in Made(e)
    BY <2>2 DEF Last, Made, Pair
  <2> QED
    BY <2>1, <2>2, <2>3
<1>3. \A p \in Promise : e.follows[p] # None => Last(e, p) \in Chained(e) \/ Last(e, p) \in e.resolved
  BY DEF Chained, Follower
<1>4. Chained(e) \subseteq Made(e) \ e.resolved
  BY <1>2 DEF Chained, Follower
<1> QED
  BY <1>2, <1>3, <1>4

\* An engine stays straight when its followers lose nothing and none is added.
LEMMA StraightStep ==
  ASSUME NEW H, NEW V, NEW e, Good(e, H, V), Straight(e), NEW d, Holds(e, d, Chained(e)),
         \A p \in Promise : Follower(d, p) => Follower(e, p) /\ Last(d, p) = Last(e, p) /\ d.follows[p] = e.follows[p],
         \A p \in Promise : d.promise[p].state = "fulfilled" => d.promise[p].result \notin Promise \cup Thenable \cup Poisoned,
         \A i \in DOMAIN d.jobs : \A p \in Promise : Adopts(d.jobs[i], p) =>
           d.follows[p] = IF d.jobs[i].thenable \in Promise THEN d.jobs[i].thenable ELSE None,
         \A p \in Promise : d.follows[p] # None => Cap(p) \in d.resolved,
         \A p \in Promise : d.follows[p] # None /\ Settled(d, p) => Outcome(d, p) = Outcome(d, d.follows[p])
  PROVE  Straight(d) /\ Chained(d) \subseteq Chained(e)
<1>1. ASSUME NEW p \in Promise, Follower(d, p)
      PROVE  /\ Tied(d, Last(d, p), d.follows[p], Adoption(Last(d, p)))
             /\ Due(d, d.follows[p], Adoption(Last(d, p)))
  <2>1. Follower(e, p) /\ Last(d, p) = Last(e, p) /\ d.follows[p] = e.follows[p]
    BY <1>1
  <2>2. Last(e, p) \in Chained(e) /\ e.follows[p] \in Promise
    BY <2>1, ChainedMade DEF Chained, Follower
  <2>3. Tied(e, Last(e, p), e.follows[p], Adoption(Last(e, p))) /\ Due(e, e.follows[p], Adoption(Last(e, p)))
    BY <2>1 DEF Straight
  <2> QED
    BY <2>1, <2>2, <2>3 DEF Holds, Bound, Adoption, Settler
<1>2. Chained(d) \subseteq Chained(e)
  BY DEF Chained
<1> QED
  BY <1>1, <1>2 DEF Straight

\* Tidy steps add up.
LEMMA TidyTransitive ==
  ASSUME NEW e, NEW d, NEW b, NEW K, Made(e) \subseteq Made(d), NEW C, NEW D,
         Tidy(e, d, K, C), Tidy(d, b, K, D)
  PROVE  Tidy(e, b, K, C \cup D)
BY DEF Tidy, Carries, Holds, Bound

LEMMA TidyLess ==
  ASSUME NEW e, NEW d, NEW K, NEW L \in SUBSET K, NEW C, NEW D, C \cap Made(e) \subseteq D, Tidy(e, d, K, C)
  PROVE  Tidy(e, d, L, D)
BY DEF Tidy, Carries, Holds, Bound

LEMMA TidySame ==
  ASSUME NEW e, Straight(e), NEW K
  PROVE  Tidy(e, e, K, {})
BY DEF Tidy, Carries, Holds, Bound

\* A promise is created.
LEMMA CreateTidy ==
  ASSUME NEW H, NEW V, NEW e, Good(e, H, V), Straight(e), Fresh(e) # {}, NEW d, d = Create(e), NEW K
  PROVE  Tidy(e, d, K, {}) /\ Made(e) \subseteq Made(d) /\ Chained(d) \subseteq Chained(e)
<1>1. e \in Engine(H, V) /\ Made(e) \subseteq Made(d) /\ New(e) \in Promise /\ Cap(New(e)) \notin Made(e)
  BY CreateGood DEF Good
<1>2. /\ d.promise = e.promise /\ d.jobs = e.jobs /\ d.resolved = e.resolved /\ d.follows = e.follows
      /\ \A p \in Promise : p # New(e) => d.pairs[p] = e.pairs[p]
  BY <1>1 DEF Create, CreateResolvingFunctions, Engine
<1>3. Carries(e, d, K) /\ Holds(e, d, Chained(e))
  BY <1>2, SameCarries DEF Carries
<1>4. \A p \in Promise : d.follows[p] # None => p # New(e)
  BY <1>1, <1>2, ChainedMade
<1>5. \A p \in Promise : Follower(d, p) => Follower(e, p) /\ Last(d, p) = Last(e, p) /\ d.follows[p] = e.follows[p]
  BY <1>2, <1>4 DEF Follower, Last
<1>6. Straight(d) /\ Chained(d) \subseteq Chained(e)
  <2>1. \A p \in Promise : d.promise[p].state = "fulfilled" => d.promise[p].result \notin Promise \cup Thenable \cup Poisoned
    BY <1>2 DEF Straight
  <2>2. \A i \in DOMAIN d.jobs : \A p \in Promise : Adopts(d.jobs[i], p) =>
          d.follows[p] = IF d.jobs[i].thenable \in Promise THEN d.jobs[i].thenable ELSE None
    BY <1>2 DEF Straight
  <2>3. /\ \A p \in Promise : d.follows[p] # None => Cap(p) \in d.resolved
        /\ \A p \in Promise : d.follows[p] # None /\ Settled(d, p) => Outcome(d, p) = Outcome(d, d.follows[p])
    BY <1>2 DEF Straight, Settled, Outcome
  <2> QED
    BY <1>3, <1>5, <2>1, <2>2, <2>3, StraightStep
<1> QED
  BY <1>1, <1>2, <1>3, <1>6 DEF Tidy

\* A resolving function is called that is not one of a follower.
LEMMA CallTidy ==
  ASSUME NEW H, NEW V, Error \in V, NEW e, Good(e, H, V), Straight(e), NEW pair \in Made(e) \ Chained(e),
         NEW how \in How, NEW v \in V, NEW d, d = ResolvingCall(e, pair, how, v), NEW K \in SUBSET Pair
  PROVE  Tidy(e, d, K, {pair}) /\ Made(d) = Made(e) /\ Chained(d) \subseteq Chained(e)
<1>1. e \in Engine(H, V)
  BY DEF Good
<1>2. CASE pair \in e.resolved
  BY <1>2 DEF ResolvingCall, Tidy, Carries, Holds
<1>3. CASE pair \notin e.resolved
  <2> DEFINE p == pair.of
  <2>1. /\ pair = Last(e, p) /\ ~Settled(e, p) /\ ~Waits(e, p) /\ p \in Promise
        /\ \A n \in 1 .. e.pairs[p] - 1 : [of |-> p, n |-> n] \in e.resolved
    BY <1>3, LastPairUsed DEF Made, Pair
  <2>2. e.follows[p] = None
    BY <1>3, <2>1, ChainedMade
  <2>a. PICK c \in Engine(H, V) :
           Marks(e, c, pair) /\ (Settles(c, d, pair.of, how, v, V) \/ Defers(c, d, pair.of, how, v))
    BY <1>3, CallCases
  <2>3. /\ c.promise = e.promise /\ c.jobs = e.jobs /\ c.pairs = e.pairs /\ c.follows = e.follows
        /\ c.resolved = e.resolved \cup {pair} /\ ~Settled(c, p) /\ p \in Promise
    BY <2>a DEF Marks
  <2> HIDE DEF p
  <2>4. Carries(e, c, Pair)
    BY <2>3, SameCarries
  <2>5. Chained(e) \subseteq Pair
    BY ChainedMade DEF Made
  <2>6. ASSUME NEW how2 \in How, NEW w \in V, d = Settle(c, p, how2, w),
               how2 = "fulfilled" => w \notin Promise \cup Thenable \cup Poisoned
        PROVE  Carries(c, d, Pair) /\ d.resolved = c.resolved /\ d.pairs = c.pairs /\ Straight(d) /\ Chained(d) \subseteq Chained(e)
                /\ d.follows = c.follows
    <3>1. SettleStep(c, d, p, how2, w) /\ Carries(c, d, Pair)
      BY <2>3, <2>6, SettleCarries
    <3>2. /\ d.promise[p] = [state |-> how2, result |-> w, reactions |-> <<>>]
          /\ \A o \in Promise : o # p => d.promise[o] = e.promise[o]
          /\ d.resolved = c.resolved /\ d.pairs = c.pairs /\ d.follows = c.follows
          /\ \A i \in DOMAIN d.jobs : (i \in DOMAIN e.jobs /\ d.jobs[i] = e.jobs[i]) \/ d.jobs[i].kind = "reaction"
      BY <2>3, <3>1 DEF SettleStep
    <3>3. Carries(c, d, Pair)
      BY <3>1
    <3>4. Holds(e, d, Chained(e))
      BY <2>4, <2>5, <3>3 DEF Carries, Holds, Bound
    <3>5. \A o \in Promise : Follower(d, o) => Follower(e, o) /\ Last(d, o) = Last(e, o) /\ d.follows[o] = e.follows[o]
      BY <2>3, <3>2 DEF Follower, Last
    <3>6. \A o \in Promise : d.promise[o].state = "fulfilled" => d.promise[o].result \notin Promise \cup Thenable \cup Poisoned
      BY <2>6, <3>2 DEF Straight
    <3>7. \A i \in DOMAIN d.jobs : \A o \in Promise : Adopts(d.jobs[i], o) =>
            d.follows[o] = IF d.jobs[i].thenable \in Promise THEN d.jobs[i].thenable ELSE None
      BY <2>3, <3>2 DEF Straight, Adopts
    <3>8. \A o \in Promise : d.follows[o] # None => Cap(o) \in d.resolved
      BY <2>3, <3>2 DEF Straight
    <3>9. ASSUME NEW o \in Promise, d.follows[o] # None, Settled(d, o) PROVE Outcome(d, o) = Outcome(d, d.follows[o])
      <4>1. o # p /\ e.follows[o] # None /\ d.follows[o] = e.follows[o] /\ e.follows[o] \in Promise
        BY <2>2, <2>3, <3>2, <3>9, ChainedMade
      <4>2. Settled(e, o) /\ Outcome(e, o) = Outcome(e, e.follows[o])
        BY <3>2, <3>9, <4>1 DEF Straight, Settled
      <4>3. Settled(e, e.follows[o])
        BY <4>2 DEF Settled, Outcome
      <4>4. e.follows[o] # p
        BY <2>1, <4>3
      <4> QED
        BY <3>2, <4>1, <4>2, <4>4 DEF Outcome
    <3> QED
      BY <3>2, <3>3, <3>4, <3>5, <3>6, <3>7, <3>8, <3>9, StraightStep
  <2>7. ASSUME how = "fulfilled", v \in Promise \cup Thenable,
               d.jobs = Append(c.jobs, ThenableJob(p, v)), d.promise = c.promise,
               d.follows = [c.follows EXCEPT ![p] = IF v \in Promise THEN v ELSE None],
               d.resolved = c.resolved, d.pairs = c.pairs
        PROVE  Carries(c, d, Pair) /\ Straight(d) /\ Chained(d) \subseteq Chained(e)
    <3>1. ThenableJob(p, v) \in AJob(H, V) /\ ThenableJob(p, v).kind = "thenable"
      BY <2>3, <2>7 DEF AJob, ThenableJobs, ThenableJob
    <3>2. JobIn(ThenableJob(p, v), Pair \ Pair) /\ ~CallsBack(ThenableJob(p, v))
      BY <3>1 DEF JobIn, CallsBack
    <3>3. Carries(c, d, Pair)
      BY <2>3, <2>7, <3>1, <3>2, AppendCarries
    <3>4. Holds(e, d, Chained(e))
      BY <2>4, <2>5, <3>3 DEF Carries, Holds, Bound
    <3>5. /\ d.follows[p] = IF v \in Promise THEN v ELSE None
          /\ \A o \in Promise : o # p => d.follows[o] = e.follows[o]
      BY <1>1, <2>3, <2>7 DEF Engine
    <3>6. \A o \in Promise : Follower(d, o) => Follower(e, o) /\ Last(d, o) = Last(e, o) /\ d.follows[o] = e.follows[o]
      BY <2>1, <2>3, <2>7, <3>5 DEF Follower, Last
    <3>7. \A o \in Promise : d.promise[o].state = "fulfilled" => d.promise[o].result \notin Promise \cup Thenable \cup Poisoned
      BY <2>3, <2>7 DEF Straight
    <3>8. ASSUME NEW i \in DOMAIN d.jobs, NEW o \in Promise, Adopts(d.jobs[i], o)
          PROVE  d.follows[o] = IF d.jobs[i].thenable \in Promise THEN d.jobs[i].thenable ELSE None
      <4>1. c.jobs \in Seq(AJob(H, V))
        BY <2>3 DEF Engine, AJob
      <4>2. (i \in DOMAIN e.jobs /\ d.jobs[i] = e.jobs[i]) \/ d.jobs[i] = ThenableJob(p, v)
        BY SMTT(60), <2>3, <2>7, <3>1, <4>1
      <4>3. CASE i \in DOMAIN e.jobs /\ d.jobs[i] = e.jobs[i]
        <5>1. o # p
          BY <2>1, <3>8, <4>3 DEF Waits
        <5> QED
          BY <3>5, <3>8, <4>3, <5>1 DEF Straight
      <4>4. CASE d.jobs[i] = ThenableJob(p, v)
        BY <3>5, <3>8, <4>4 DEF ThenableJob, Adopts
      <4> QED
        BY <4>2, <4>3, <4>4
    <3>9. ASSUME NEW o \in Promise, d.follows[o] # None PROVE Cap(o) \in d.resolved
      <4>1. CASE o # p
        BY <2>3, <2>7, <3>5, <3>9, <4>1 DEF Straight
      <4>2. CASE o = p
        <5>1. pair.n \in Nat \ {0} /\ pair = [of |-> p, n |-> pair.n] /\ pair.n = e.pairs[p]
          BY <2>1 DEF Made, Pair, Last, p
        <5>2. CASE pair.n = 1
          BY <2>3, <2>7, <4>2, <5>1, <5>2 DEF Cap
        <5>3. CASE pair.n # 1
          <6>1. 1 \in 1 .. e.pairs[p] - 1
            BY <5>1, <5>3
          <6> QED
            BY <2>1, <2>3, <2>7, <4>2, <6>1 DEF Cap
        <5> QED
          BY <5>2, <5>3
      <4> QED
        BY <4>1, <4>2
    <3>10. ASSUME NEW o \in Promise, d.follows[o] # None, Settled(d, o) PROVE Outcome(d, o) = Outcome(d, d.follows[o])
      <4>1. Settled(e, o) /\ o # p
        BY <2>1, <2>3, <2>7, <3>10 DEF Settled
      <4> QED
        BY <2>3, <2>7, <3>5, <3>10, <4>1 DEF Straight, Outcome
    <3> QED
      BY <3>3, <3>4, <3>6, <3>7, <3>8, <3>9, <3>10, StraightStep
  <2>8. Carries(c, d, Pair) /\ Straight(d) /\ Chained(d) \subseteq Chained(e) /\ d.pairs = e.pairs
        /\ d.resolved = e.resolved \cup {pair} /\ (\A o \in Promise : o # p => d.follows[o] = e.follows[o])
    <3>1. CASE Settles(c, d, p, how, v, V)
      <4>1. PICK how2 \in How, w \in V :
              d = Settle(c, p, how2, w) /\ (how2 = "fulfilled" => w \notin Promise \cup Thenable \cup Poisoned)
        BY <3>1 DEF Settles
      <4> QED
        BY <2>3, <2>6, <4>1
    <3>2. CASE Defers(c, d, p, how, v)
      <4>1. \A o \in Promise : o # p => d.follows[o] = c.follows[o]
        BY <3>2 DEF Engine, Defers
      <4> QED
        BY <2>3, <2>7, <3>2, <4>1 DEF Defers
    <3>3. Settles(c, d, p, how, v, V) \/ Defers(c, d, p, how, v)
      BY <2>a DEF p
    <3> QED
      BY <3>1, <3>2, <3>3
  <2>9. Carries(e, d, K)
    BY <2>4, <2>8 DEF Carries, Holds, Bound
  <2> QED
    BY <2>2, <2>8, <2>9 DEF Tidy, Made
<1> QED
  BY <1>2, <1>3

\* The first of a promise's pairs is never the one that follows.
LEMMA FirstNotChained ==
  ASSUME NEW e, Straight(e), NEW p \in Promise
  PROVE  Cap(p) \notin Chained(e)
<1> SUFFICES ASSUME NEW o \in Promise, Follower(e, o), Cap(p) = Last(e, o) PROVE FALSE
  BY DEF Chained
<1>1. p = o
  BY DEF Cap, Last
<1> QED
  BY <1>1 DEF Follower, Straight

\* A handler ends that belongs to no follower.
LEMMA FinishTidy ==
  ASSUME NEW H, NEW V, Error \in V, NEW e, Good(e, H, V), Straight(e), NEW cap, CapIn(cap, Made(e) \ Chained(e)),
         NEW how \in How, NEW v \in V, NEW d, d = Finish(e, cap, how, v), NEW K \in SUBSET Pair
  PROVE  Tidy(e, d, K, {cap}) /\ Made(d) = Made(e) /\ Chained(d) \subseteq Chained(e)
<1>1. CASE cap = None
  <2>1. d = e /\ Tidy(e, e, K, {})
    BY <1>1, TidySame DEF Finish
  <2> QED
    BY <2>1, TidyLess
<1>2. CASE cap # None
  BY <1>2, CallTidy DEF Finish, CapIn
<1> QED
  BY <1>1, <1>2

\* A reaction is added that refers to nothing kept and is not of a script.
LEMMA ThenTidy ==
  ASSUME NEW H, NEW V, NEW e, Good(e, H, V), Straight(e), NEW p \in Promise, NEW on \in [How -> H],
         NEW cap \in Capability, NEW K \in SUBSET Pair,
         ReactionIn([on |-> on, cap |-> cap], Pair \ (K \cup Chained(e))), \A how \in How : ~IsCallback(on[how]),
         NEW d, d = Then(e, p, on, cap)
  PROVE  Tidy(e, d, K, {}) /\ Made(d) = Made(e) /\ Chained(d) \subseteq Chained(e)
<1> DEFINE x == [on |-> on, cap |-> cap]
           L == K \cup Chained(e)
<1>1. ReactionIn(x, Pair \ L) /\ (\A how \in How : ~IsCallback(x.on[how])) /\ L \in SUBSET Pair
  BY ChainedMade DEF Made
<1>2. x = [on |-> on, cap |-> cap]
  OBVIOUS
<1> HIDE DEF x, L
<1>3. Carries(e, d, L)
  BY <1>1, <1>2, ThenCarries
<1>4. /\ d.resolved = e.resolved /\ d.pairs = e.pairs /\ d.follows = e.follows
      /\ \A o \in Promise : d.promise[o].state = e.promise[o].state /\ d.promise[o].result = e.promise[o].result
      /\ \A i \in DOMAIN d.jobs : d.jobs[i].kind = "reaction" \/ (i \in DOMAIN e.jobs /\ d.jobs[i] = e.jobs[i])
  BY <1>2, ThenCarries
<1>5. Carries(e, d, K) /\ Holds(e, d, Chained(e))
  BY <1>3 DEF Carries, Holds, Bound, L
<1>6. \A o \in Promise : Follower(d, o) => Follower(e, o) /\ Last(d, o) = Last(e, o) /\ d.follows[o] = e.follows[o]
  BY <1>4 DEF Follower, Last
<1>7. \A o \in Promise : d.promise[o].state = "fulfilled" => d.promise[o].result \notin Promise \cup Thenable \cup Poisoned
  BY <1>4 DEF Straight
<1>8. \A i \in DOMAIN d.jobs : \A o \in Promise : Adopts(d.jobs[i], o) =>
        d.follows[o] = IF d.jobs[i].thenable \in Promise THEN d.jobs[i].thenable ELSE None
  <2> SUFFICES ASSUME NEW i \in DOMAIN d.jobs, NEW o \in Promise, Adopts(d.jobs[i], o)
               PROVE  d.follows[o] = IF d.jobs[i].thenable \in Promise THEN d.jobs[i].thenable ELSE None
    OBVIOUS
  <2>1. i \in DOMAIN e.jobs /\ d.jobs[i] = e.jobs[i]
    BY <1>4 DEF Adopts
  <2> QED
    BY <1>4, <2>1 DEF Straight
<1>9. \A o \in Promise : d.follows[o] # None => Cap(o) \in d.resolved
  BY <1>4 DEF Straight
<1>10. ASSUME NEW o \in Promise, d.follows[o] # None, Settled(d, o) PROVE Outcome(d, o) = Outcome(d, d.follows[o])
  <2>1. d.follows[o] = e.follows[o] /\ e.follows[o] \in Promise /\ Settled(e, o)
    BY <1>4, <1>10, ChainedMade DEF Settled
  <2>2. Outcome(e, o) = Outcome(e, e.follows[o])
    BY <1>4, <1>10, <2>1 DEF Straight
  <2> QED
    BY <1>4, <2>1, <2>2 DEF Outcome
<1>11. Straight(d) /\ Chained(d) \subseteq Chained(e)
  BY <1>5, <1>6, <1>7, <1>8, <1>9, <1>10, StraightStep
<1> QED
  BY <1>4, <1>5, <1>11 DEF Tidy, Made

\* A value is made a promise.
LEMMA WrapTidy ==
  ASSUME NEW H, NEW V, Error \in V, NEW e, Good(e, H, V), Straight(e), NEW v \in V, v \notin Promise => Fresh(e) # {},
         NEW K \in SUBSET Pair, NEW d, d = Wrap(e, v)
  PROVE  Tidy(e, d, K, {}) /\ Made(e) \subseteq Made(d) /\ Chained(d) \subseteq Chained(e)
<1>1. CASE v \in Promise
  BY <1>1, TidySame DEF Wrap
<1>2. CASE v \notin Promise
  <2> DEFINE new == Cap(New(e))
  <2>0. PICK c : c = Create(e)
    OBVIOUS
  <2>1. Good(c, H, V) /\ New(e) \in Promise /\ new \in Made(c) \ Made(e)
    BY <1>2, <2>0, CreateGood
  <2>2. Tidy(e, c, K, {}) /\ Made(e) \subseteq Made(c) /\ Chained(c) \subseteq Chained(e)
    BY <1>2, <2>0, CreateTidy
  <2>3. d = ResolvingCall(c, new, "fulfilled", v)
    BY <1>2, <2>0 DEF Wrap
  <2>4. Straight(c) /\ new \notin Chained(c)
    <3>1. Straight(c)
      BY <2>2 DEF Tidy
    <3> QED
      BY <2>1, <3>1, FirstNotChained
  <2> HIDE DEF new
  <2>5. Tidy(c, d, K, {new}) /\ Made(d) = Made(c) /\ Chained(d) \subseteq Chained(c)
    <3>1. PICK how \in How : how = "fulfilled"
      BY DEF How
    <3>2. PICK y \in Made(c) \ Chained(c) : y = new
      BY <2>1, <2>4
    <3>3. d = ResolvingCall(c, y, how, v) /\ Good(c, H, V) /\ Straight(c)
      BY <2>1, <2>3, <2>4, <3>1, <3>2
    <3>4. Tidy(c, d, K, {y}) /\ Made(d) = Made(c) /\ Chained(d) \subseteq Chained(c)
      BY ONLY <3>3, Error \in V, v \in V, K \in SUBSET Pair, CallTidy
    <3> QED
      BY <3>2, <3>4
  <2>6. Tidy(e, d, K, {} \cup {new})
    BY <2>2, <2>5, TidyTransitive
  <2>7. Tidy(e, d, K, {})
    BY <2>1, <2>6, TidyLess
  <2> QED
    BY <2>2, <2>5, <2>7
<1> QED
  BY <1>1, <1>2

\* A reaction is added to a value made a promise.
LEMMA WrapThenTidy ==
  ASSUME NEW H, NEW V, Error \in V, NEW e, Good(e, H, V), Straight(e), NEW v \in V, v \notin Promise => Fresh(e) # {},
         NEW on \in [How -> H], NEW K \in SUBSET Pair, ReactionIn([on |-> on, cap |-> None], Pair \ (K \cup Chained(e))),
         \A how \in How : ~IsCallback(on[how]), NEW d, d = Then(Wrap(e, v), Wrapped(e, v), on, None)
  PROVE  Tidy(e, d, K, {}) /\ Made(e) \subseteq Made(d) /\ Chained(d) \subseteq Chained(e)
<1> DEFINE c == Wrap(e, v)
           p == Wrapped(e, v)
<1>1. Good(c, H, V) /\ p \in Promise
  BY WrapGood
<1>2. Tidy(e, c, K, {}) /\ Made(e) \subseteq Made(c) /\ Chained(c) \subseteq Chained(e)
  BY WrapTidy
<1>3. d = Then(c, p, on, None)
  OBVIOUS
<1> HIDE DEF c, p
<1>4. Straight(c) /\ None \in Capability
  BY <1>2 DEF Tidy, Capability
<1>5. ReactionIn([on |-> on, cap |-> None], Pair \ (K \cup Chained(c)))
  BY <1>2 DEF ReactionIn, CapIn, HandlerIn
<1>6. Tidy(c, d, K, {}) /\ Made(d) = Made(c) /\ Chained(d) \subseteq Chained(c)
  BY <1>1, <1>3, <1>4, <1>5, ThenTidy
<1>7. Tidy(e, d, K, {} \cup {})
  BY <1>2, <1>6, TidyTransitive
<1> QED
  BY <1>2, <1>6, <1>7

\* Where the jobs are when the first is taken.
TailView(q, s) ==
  /\ 1 \in DOMAIN q /\ q[1] = Head(q)
  /\ \A i \in DOMAIN s : i \in Nat /\ i + 1 \in DOMAIN q /\ s[i] = q[i + 1]
  /\ \A i \in DOMAIN q : i # 1 => i - 1 \in DOMAIN s /\ s[i - 1] = q[i]
  /\ \A i \in DOMAIN s : 1 < i + 1
  /\ \A i, j \in DOMAIN s : i < j => i + 1 < j + 1

LEMMA TailViews ==
  ASSUME NEW S, NEW q \in Seq(S), q # <<>>, NEW s, s = Tail(q)
  PROVE  TailView(q, s)
<1>1. Len(q) \in Nat \ {0} /\ DOMAIN q = 1 .. Len(q) /\ q[1] = Head(q)
  OBVIOUS
<1>2. s \in Seq(S) /\ Len(s) = Len(q) - 1 /\ DOMAIN s = 1 .. Len(q) - 1
  OBVIOUS
<1>3. \A i \in 1 .. Len(q) - 1 : s[i] = q[i + 1]
  OBVIOUS
<1>4. \A i \in 1 .. Len(q) : i # 1 => s[i - 1] = q[i]
  OBVIOUS
<1>5. /\ \A i \in DOMAIN s : i \in Nat /\ i + 1 \in DOMAIN q /\ 1 < i + 1
      /\ \A i \in DOMAIN q : i # 1 => i - 1 \in DOMAIN s
      /\ \A i, j \in DOMAIN s : i < j => i + 1 < j + 1
  BY ONLY <1>1, <1>2
<1> QED
  BY ONLY <1>1, <1>2, <1>3, <1>4, <1>5 DEF TailView

\* The first job is taken.
LEMMA PopCarries ==
  ASSUME NEW H, NEW V, NEW e \in Engine(H, V), e.jobs # <<>>, NEW d, d.promise = e.promise, d.jobs = Tail(e.jobs)
  PROVE  /\ \A y : \A o \in Promise : \A r : Tied(e, y, o, r) => Tied(d, y, o, r)
         /\ \A o \in Promise : \A r :
              Due(e, o, r) /\ ~(Settled(e, o) /\ Head(e.jobs) = JobOf(e, r, o)) => Due(d, o, r)
         /\ \A reg \in Registrations : \A ran : Sequenced(e, reg, ran) => Sequenced(d, reg, ran)
         /\ \A K \in SUBSET Pair : JobIn(Head(e.jobs), Pair \ K) => Carries(e, d, K)
<1> DEFINE q == e.jobs
           s == d.jobs
<1>1. TailView(q, s)
  <2>1. q \in Seq(AJob(H, V))
    BY DEF Engine, AJob
  <2> QED
    BY <2>1, TailViews
<1>2. \A o \in Promise : (Settled(d, o) <=> Settled(e, o)) /\ Outcome(d, o) = Outcome(e, o) /\ \A r : JobOf(d, r, o) = JobOf(e, r, o)
  BY DEF Settled, Outcome, JobOf
<1> HIDE DEF q, s
<1>3. ASSUME NEW y, NEW o \in Promise, NEW r, Tied(e, y, o, r) PROVE Tied(d, y, o, r)
  <2>1. \A i \in DOMAIN s : JobIn(s[i], Pair \ {y}) \/ (Settled(e, o) /\ s[i] = JobOf(e, r, o))
    BY <1>1, <1>3 DEF Tied, TailView, q
  <2> QED
    BY <1>2, <1>3, <2>1 DEF Tied, s
<1>4. ASSUME NEW o \in Promise, NEW r, Due(e, o, r), ~(Settled(e, o) /\ Head(e.jobs) = JobOf(e, r, o)) PROVE Due(d, o, r)
  <2>1. CASE Settled(e, o)
    <3>1. PICK i \in DOMAIN q : q[i] = JobOf(e, r, o)
      BY <1>4, <2>1 DEF Due, q
    <3>2. i # 1
      BY <1>1, <1>4, <2>1, <3>1 DEF TailView, q
    <3>3. i - 1 \in DOMAIN s /\ s[i - 1] = JobOf(e, r, o)
      BY <1>1, <3>1, <3>2 DEF TailView
    <3> QED
      BY <1>2, <2>1, <3>3 DEF Due, s
  <2>2. CASE ~Settled(e, o)
    BY SMTT(60), <1>2, <1>4, <2>2 DEF Due
  <2> QED
    BY <2>1, <2>2
<1>5. ASSUME NEW reg \in Registrations, NEW ran, Sequenced(e, reg, ran) PROVE Sequenced(d, reg, ran)
  <2>1. \A k \in DOMAIN reg : Tied(d, Cap(reg[k].derived), reg[k].on, Reaction(reg[k], k))
    <3> SUFFICES ASSUME NEW k \in DOMAIN reg PROVE Tied(d, Cap(reg[k].derived), reg[k].on, Reaction(reg[k], k))
      OBVIOUS
    <3>1. reg[k].on \in Promise
      BY <1>5, RegistrationKnown
    <3> QED
      BY <1>3, <1>5, <3>1 DEF Sequenced
  <2>2. \A i \in DOMAIN s : CallsBack(s[i]) => Derives(reg, s[i].handler, s[i].cap)
    BY <1>1, <1>5 DEF Sequenced, TailView, q
  <2>3. \A i, j \in DOMAIN s : i < j /\ CallsBack(s[i]) /\ CallsBack(s[j]) => Before(reg, s[i].handler.id, s[j].handler.id)
    BY <1>1, <1>5 DEF Sequenced, TailView, q
  <2>4. \A i \in DOMAIN ran, j \in DOMAIN s : CallsBack(s[j]) => Before(reg, ran[i].id, s[j].handler.id)
    BY <1>1, <1>5 DEF Sequenced, TailView, q
  <2>5. \A i \in DOMAIN ran : <<ran[i].how, ran[i].arg>> = Outcome(d, reg[ran[i].id].on)
    BY <1>5 DEF Sequenced, Outcome
  <2> QED
    BY SMTT(60), <1>5, <2>1, <2>2, <2>3, <2>4, <2>5 DEF Sequenced, s
<1>6. ASSUME NEW K \in SUBSET Pair, JobIn(Head(e.jobs), Pair \ K) PROVE Carries(e, d, K)
  <2>1. ASSUME NEW o \in Promise, NEW r, Bound(r, K), Due(e, o, r) PROVE Due(d, o, r)
    <3>1. ASSUME Settled(e, o), Head(e.jobs) = JobOf(e, r, o) PROVE FALSE
      <4>1. e.promise[o].state \in How
        BY <3>1 DEF Settled, Engine, PromiseState
      <4>2. CASE r.cap \in K
        <5>1. r.cap # None
          BY <4>2, PromisesAssumption
        <5> QED
          BY <1>6, <3>1, <4>2, <5>1 DEF JobIn, CapIn, JobOf, ReactionJob
      <4>3. CASE r.cap \notin K
        BY <1>6, <2>1, <3>1, <4>1, <4>3 DEF Bound, JobIn, HandlerIn, JobOf, ReactionJob
      <4> QED
        BY <4>2, <4>3
    <3> QED
      BY <1>4, <2>1, <3>1
  <2> QED
    BY <1>3, <1>5, <2>1 DEF Carries, Holds
<1> QED
  BY <1>3, <1>4, <1>5, <1>6

\* A job is taken that concerns no follower.
LEMMA PopTidy ==
  ASSUME NEW H, NEW V, NEW e, Good(e, H, V), Straight(e), e.jobs # <<>>, Head(e.jobs).kind = "reaction",
         NEW K \in SUBSET Pair, JobIn(Head(e.jobs), Pair \ (K \cup Chained(e))), NEW d, d = [e EXCEPT !.jobs = Tail(@)]
  PROVE  Tidy(e, d, K, {}) /\ Made(d) = Made(e) /\ Chained(d) \subseteq Chained(e)
<1> DEFINE L == K \cup Chained(e)
<1>1. e \in Engine(H, V) /\ L \in SUBSET Pair
  BY ChainedMade DEF Made, Good
<1>2. /\ d.promise = e.promise /\ d.jobs = Tail(e.jobs) /\ d.resolved = e.resolved /\ d.follows = e.follows /\ d.pairs = e.pairs
  BY <1>1 DEF Engine
<1>3. JobIn(Head(e.jobs), Pair \ L)
  OBVIOUS
<1> HIDE DEF L
<1>4. Carries(e, d, L)
  BY <1>1, <1>2, <1>3, PopCarries
<1>5. Carries(e, d, K) /\ Holds(e, d, Chained(e))
  BY <1>4 DEF Carries, Holds, Bound, L
<1>6. \A o \in Promise : Follower(d, o) => Follower(e, o) /\ Last(d, o) = Last(e, o) /\ d.follows[o] = e.follows[o]
  BY <1>2 DEF Follower, Last
<1>7. \A i \in DOMAIN d.jobs : \A o \in Promise : Adopts(d.jobs[i], o) =>
        d.follows[o] = IF d.jobs[i].thenable \in Promise THEN d.jobs[i].thenable ELSE None
  <2> SUFFICES ASSUME NEW i \in DOMAIN d.jobs, NEW o \in Promise, Adopts(d.jobs[i], o)
               PROVE  d.follows[o] = IF d.jobs[i].thenable \in Promise THEN d.jobs[i].thenable ELSE None
    OBVIOUS
  <2>1. e.jobs \in Seq(AJob(H, V))
    BY <1>1 DEF Engine, AJob
  <2>2. TailView(e.jobs, d.jobs)
    BY <1>2, <2>1, TailViews
  <2>3. i + 1 \in DOMAIN e.jobs /\ d.jobs[i] = e.jobs[i + 1]
    BY <2>2 DEF TailView
  <2> QED
    BY <1>2, <2>3 DEF Straight
<1>8. \A o \in Promise : d.promise[o].state = "fulfilled" => d.promise[o].result \notin Promise \cup Thenable \cup Poisoned
  BY <1>2 DEF Straight
<1>a. \A o \in Promise : d.follows[o] # None => Cap(o) \in d.resolved
  BY <1>2 DEF Straight
<1>b. \A o \in Promise : d.follows[o] # None /\ Settled(d, o) => Outcome(d, o) = Outcome(d, d.follows[o])
  BY <1>2 DEF Straight, Settled, Outcome
<1>9. Straight(d) /\ Chained(d) \subseteq Chained(e)
  BY ONLY Good(e, H, V), Straight(e), <1>5, <1>6, <1>7, <1>8, <1>a, <1>b, StraightStep
<1> QED
  BY <1>2, <1>5, <1>9 DEF Tidy, Made

\* Nothing refers to a pair that has not been made.
LEMMA UntouchedTied ==
  ASSUME NEW H, NEW V, NEW e, Good(e, H, V), NEW y, y \notin Made(e), NEW o \in Promise, NEW r
  PROVE  Tied(e, y, o, r)
<1>1. PairsIn(e, Made(e)) /\ Made(e) \subseteq Pair \ {y}
  BY DEF Good, Sound, Made
<1>2. /\ \A x : ReactionIn(x, Made(e)) => ReactionIn(x, Pair \ {y})
      /\ \A job : JobIn(job, Made(e)) => JobIn(job, Pair \ {y})
  BY <1>1 DEF ReactionIn, JobIn, CapIn, HandlerIn
<1> QED
  BY <1>1, <1>2 DEF Tied, PairsIn

\* The job of a thenable: what its promise is like, and what the job leaves.
AdoptView(e, d, job) ==
  /\ job.kind = "thenable" /\ job.promise \in Promise /\ ~Follower(e, job.promise) /\ ~Settled(e, job.promise)
  /\ e.follows[job.promise] = IF job.thenable \in Promise THEN job.thenable ELSE None
  /\ d.promise = e.promise /\ d.jobs = Tail(e.jobs) /\ d.resolved = e.resolved /\ d.follows = e.follows
  /\ \A o \in Promise : o # job.promise => d.pairs[o] = e.pairs[o]
  /\ Last(d, job.promise) = NewPair(e, job.promise) /\ NewPair(e, job.promise) \in Made(d) \ Made(e)
  /\ Made(e) \subseteq Made(d)
  /\ \A i \in DOMAIN d.jobs : \A o \in Promise : Adopts(d.jobs[i], o) =>
       d.follows[o] = IF d.jobs[i].thenable \in Promise THEN d.jobs[i].thenable ELSE None

LEMMA AdoptViews ==
  ASSUME NEW H, NEW V, NEW e, Good(e, H, V), Straight(e), e.jobs # <<>>, Head(e.jobs).kind = "thenable",
         NEW job, job = Head(e.jobs), NEW d, d = CreateResolvingFunctions([e EXCEPT !.jobs = Tail(@)], job.promise)
  PROVE  AdoptView(e, d, job) /\ Good(d, H, V) /\ \A K \in SUBSET Pair : Carries(e, d, K)
<1>1. e \in Engine(H, V)
  BY DEF Good
<1>2. /\ Good(d, H, V) /\ job \in ThenableJobs /\ Made(e) \subseteq Made(d)
      /\ NewPair(e, job.promise) \in Made(d) \ Made(e) /\ d.resolved = e.resolved
  BY PopThenable
<1>3. job.promise \in Promise
  BY <1>2 DEF ThenableJobs
<1>4. /\ d.promise = e.promise /\ d.jobs = Tail(e.jobs) /\ d.follows = e.follows
      /\ d.pairs = [e.pairs EXCEPT ![job.promise] = @ + 1]
  BY <1>1 DEF Engine, CreateResolvingFunctions
<1>5. /\ \A o \in Promise : o # job.promise => d.pairs[o] = e.pairs[o]
      /\ d.pairs[job.promise] = e.pairs[job.promise] + 1
  BY <1>1, <1>3, <1>4 DEF Engine
<1>6. e.jobs \in Seq(AJob(H, V))
  BY <1>1 DEF Engine, AJob
<1>7. TailView(e.jobs, d.jobs)
  BY <1>4, <1>6, TailViews
<1>8. 1 \in DOMAIN e.jobs /\ e.jobs[1] = job /\ Adopts(job, job.promise)
  BY <1>7 DEF TailView, Adopts
<1>9. e.follows[job.promise] = IF job.thenable \in Promise THEN job.thenable ELSE None
  BY <1>3, <1>8 DEF Straight
<1>10. Last(e, job.promise) \in e.resolved /\ ~Settled(e, job.promise)
  <2>1. Waits(e, job.promise) /\ Resolver(e, job.promise)
    BY <1>3, <1>8 DEF Waits, Good
  <2> QED
    BY <2>1 DEF Resolver
<1>11. \A i \in DOMAIN d.jobs : \A o \in Promise : Adopts(d.jobs[i], o) =>
         d.follows[o] = IF d.jobs[i].thenable \in Promise THEN d.jobs[i].thenable ELSE None
  <2> SUFFICES ASSUME NEW i \in DOMAIN d.jobs, NEW o \in Promise, Adopts(d.jobs[i], o)
               PROVE  d.follows[o] = IF d.jobs[i].thenable \in Promise THEN d.jobs[i].thenable ELSE None
    OBVIOUS
  <2>1. i + 1 \in DOMAIN e.jobs /\ d.jobs[i] = e.jobs[i + 1]
    BY Zenon, <1>7 DEF TailView
  <2> QED
    BY SMTT(60), <1>4, <2>1 DEF Straight
<1>12. Last(d, job.promise) = NewPair(e, job.promise)
  BY <1>5 DEF Last, NewPair
<1>13. AdoptView(e, d, job)
  BY Zenon, <1>2, <1>3, <1>4, <1>5, <1>9, <1>10, <1>11, <1>12 DEF AdoptView, Follower
<1>14. ASSUME NEW K \in SUBSET Pair PROVE Carries(e, d, K)
  <2>1. JobIn(Head(e.jobs), Pair \ K)
    BY DEF JobIn
  <2> QED
    BY <1>1, <1>4, <2>1, PopCarries
<1> QED
  BY <1>2, <1>13, <1>14

\* The thenable belongs to a script.
LEMMA AdoptTidy ==
  ASSUME NEW H, NEW V, NEW e, Good(e, H, V), Straight(e), e.jobs # <<>>, Head(e.jobs).kind = "thenable",
         NEW job, job = Head(e.jobs), job.thenable \notin Promise, NEW K \in SUBSET Pair,
         NEW d, d = CreateResolvingFunctions([e EXCEPT !.jobs = Tail(@)], job.promise)
  PROVE  Tidy(e, d, K, {}) /\ Chained(d) \subseteq Chained(e)
<1>1. AdoptView(e, d, job)
  BY AdoptViews
<1>2. Carries(e, d, K) /\ Holds(e, d, Chained(e))
  <2>1. Chained(e) \in SUBSET Pair
    BY ChainedMade DEF Made
  <2>2. Carries(e, d, Chained(e)) /\ Carries(e, d, K)
    BY <2>1, AdoptViews
  <2> QED
    BY <2>2 DEF Carries
<1>3. \A o \in Promise : Follower(d, o) => Follower(e, o) /\ Last(d, o) = Last(e, o) /\ d.follows[o] = e.follows[o]
  BY <1>1 DEF AdoptView, Follower, Last
<1>4. \A o \in Promise : d.promise[o].state = "fulfilled" => d.promise[o].result \notin Promise \cup Thenable \cup Poisoned
  BY <1>1 DEF AdoptView, Straight
<1>5. \A i \in DOMAIN d.jobs : \A o \in Promise : Adopts(d.jobs[i], o) =>
        d.follows[o] = IF d.jobs[i].thenable \in Promise THEN d.jobs[i].thenable ELSE None
  BY <1>1 DEF AdoptView
<1>6. \A o \in Promise : d.follows[o] # None => Cap(o) \in d.resolved
  BY SMTT(60), <1>1 DEF AdoptView, Straight
<1>7. \A o \in Promise : d.follows[o] # None /\ Settled(d, o) => Outcome(d, o) = Outcome(d, d.follows[o])
  BY SMTT(60), <1>1 DEF AdoptView, Straight, Settled, Outcome
<1>8. Straight(d) /\ Chained(d) \subseteq Chained(e)
  BY ONLY Good(e, H, V), Straight(e), <1>2, <1>3, <1>4, <1>5, <1>6, <1>7, StraightStep
<1>9. d.resolved = e.resolved /\ d.follows = e.follows
  BY <1>1 DEF AdoptView
<1> QED
  BY <1>2, <1>8, <1>9 DEF Tidy

\* The thenable is a promise: the one that was resolved with it becomes a follower.
LEMMA ChainTidy ==
  ASSUME NEW H, NEW V, NEW e, Good(e, H, V), Straight(e), e.jobs # <<>>, Head(e.jobs).kind = "thenable",
         NEW job, job = Head(e.jobs), job.thenable \in Promise, NEW K \in SUBSET Made(e),
         NEW c, c = CreateResolvingFunctions([e EXCEPT !.jobs = Tail(@)], job.promise),
         NEW y, y = NewPair(e, job.promise),
         NEW on \in [How -> H], on = Adoption(y).on, NEW d, d = Then(c, job.thenable, on, None)
  PROVE  Tidy(e, d, K, {}) /\ Made(e) \subseteq Made(d)
<1> DEFINE p == job.promise
           q == job.thenable
           x == Adoption(y)
<1>1. AdoptView(e, c, job) /\ Good(c, H, V) /\ \A L \in SUBSET Pair : Carries(e, c, L)
  BY Zenon, AdoptViews
<1>2. /\ p \in Promise /\ ~Follower(e, p) /\ ~Settled(e, p) /\ e.follows[p] = q
      /\ c.promise = e.promise /\ c.resolved = e.resolved /\ c.follows = e.follows
      /\ \A o \in Promise : o # p => c.pairs[o] = e.pairs[o]
      /\ Last(c, p) = y /\ y \in Made(c) \ Made(e) /\ Made(e) \subseteq Made(c) /\ y \in Pair
  BY Zenon, <1>1 DEF AdoptView, Made
<1>3. x = [on |-> on, cap |-> None] /\ None \in Capability /\ d = Then(c, q, on, None) /\ q \in Promise
  BY DEF Adoption, Capability
<1>4. /\ \A z \in Pair : z # y => ReactionIn(x, Pair \ {z})
      /\ \A how \in How : ~IsCallback(x.on[how])
  BY <1>2 DEF Adoption, ReactionIn, CapIn, HandlerIn, Settler, IsCallback
<1> HIDE DEF p, q, x
<1>a. /\ Good(c, H, V) /\ q \in Promise /\ on \in [How -> H] /\ None \in Capability /\ x = [on |-> on, cap |-> None]
      /\ d = Then(c, q, on, None)
  BY <1>1, <1>3
<1>5. d.resolved = c.resolved /\ d.pairs = c.pairs /\ d.follows = c.follows
  BY ONLY <1>a, ThenCarries
<1>e. \A o \in Promise : d.promise[o].state = c.promise[o].state /\ d.promise[o].result = c.promise[o].result
  BY ONLY <1>a, ThenCarries
<1>b. \A i \in DOMAIN d.jobs : d.jobs[i].kind = "reaction" \/ (i \in DOMAIN c.jobs /\ d.jobs[i] = c.jobs[i])
  BY ONLY <1>a, ThenCarries
<1>c. \A o \in Promise : d.promise[o].state = e.promise[o].state /\ d.promise[o].result = e.promise[o].result
  BY ONLY <1>2, <1>e
<1>d. d.resolved = e.resolved /\ d.follows = e.follows /\ d.pairs = c.pairs
  BY ONLY <1>2, <1>5
<1>6. \A z : \A o \in Promise : \A r :
        Tied(c, z, o, r) /\ (ReactionIn(x, Pair \ {z}) \/ (q = o /\ x = r)) => Tied(d, z, o, r)
  BY ONLY <1>a, ThenCarries
<1>7. \A o \in Promise : \A r : Due(c, o, r) \/ (q = o /\ x = r) => Due(d, o, r)
  BY ONLY <1>a, ThenCarries
<1>8. \A L \in SUBSET Pair : ReactionIn(x, Pair \ L) /\ (\A how \in How : ~IsCallback(x.on[how])) => Carries(c, d, L)
  BY ONLY <1>a, ThenCarries
<1>9. \A L \in SUBSET Made(e) : Carries(e, d, L)
  <2> SUFFICES ASSUME NEW L \in SUBSET Made(e) PROVE Carries(e, d, L)
    BY SMTT(60)
  <2>1. L \in SUBSET Pair /\ y \notin L
    BY <1>2 DEF Made
  <2>2. ReactionIn(x, Pair \ L)
    BY <1>2, <2>1 DEF Adoption, ReactionIn, CapIn, HandlerIn, Settler, x
  <2>3. Carries(c, d, L) /\ Carries(e, c, L)
    BY <1>1, <1>4, <1>8, <2>1, <2>2
  <2> QED
    BY <2>3 DEF Carries, Holds
<1>10. Chained(e) \in SUBSET Made(e) /\ \A o \in Promise : e.follows[o] # None => e.follows[o] \in Promise
  BY ChainedMade
<1>11. ASSUME NEW o \in Promise, Follower(d, o)
       PROVE  /\ Tied(d, Last(d, o), d.follows[o], Adoption(Last(d, o)))
              /\ Due(d, d.follows[o], Adoption(Last(d, o)))
              /\ o = p \/ (Follower(e, o) /\ Last(d, o) = Last(e, o))
  <2>1. CASE o = p
    <3>1. Last(d, o) = y /\ d.follows[o] = q
      BY <1>2, <1>d, <2>1 DEF Last
    <3>2. Tied(e, y, q, x) /\ Pair \in SUBSET Pair
      BY <1>2, <1>3, UntouchedTied
    <3>3. Tied(c, y, q, x)
      BY <1>1, <1>2, <1>3, <3>2 DEF Carries, Holds
    <3>4. Tied(d, y, q, x) /\ Due(d, q, x)
      BY <1>3, <1>6, <1>7, <3>3
    <3> QED
      BY SMTT(60), <2>1, <3>1, <3>4 DEF x
  <2>2. CASE o # p
    <3>1. Follower(e, o) /\ Last(d, o) = Last(e, o) /\ d.follows[o] = e.follows[o]
      BY ZenonT(60), <1>2, <1>d, <1>11, <2>2 DEF Follower, Last
    <3>2. Last(e, o) \in Chained(e) /\ e.follows[o] \in Promise
      BY <1>10, <3>1 DEF Chained, Follower
    <3>3. Tied(e, Last(e, o), e.follows[o], Adoption(Last(e, o))) /\ Due(e, e.follows[o], Adoption(Last(e, o)))
      BY <3>1 DEF Straight
    <3>4. Bound(Adoption(Last(e, o)), Chained(e))
      BY <3>2 DEF Bound, Adoption, Settler
    <3>5. Carries(e, d, Chained(e))
      BY <1>9, <1>10
    <3> QED
      BY <3>1, <3>2, <3>3, <3>4, <3>5 DEF Carries, Holds
  <2> QED
    BY <2>1, <2>2
<1>12. Chained(d) \cap Made(e) \subseteq Chained(e)
  <2> SUFFICES ASSUME NEW o \in Promise, Follower(d, o), Last(d, o) \in Made(e) PROVE Last(d, o) \in Chained(e)
    BY SMTT(60) DEF Chained
  <2>1. o # p
    BY <1>2, <1>d DEF Last
  <2> QED
    BY <1>11, <2>1 DEF Chained
<1>13. \A o \in Promise : d.promise[o].state = "fulfilled" => d.promise[o].result \notin Promise \cup Thenable \cup Poisoned
  BY ZenonT(60), <1>c DEF Straight
<1>14. ASSUME NEW i \in DOMAIN d.jobs, NEW o \in Promise, Adopts(d.jobs[i], o)
       PROVE  d.follows[o] = IF d.jobs[i].thenable \in Promise THEN d.jobs[i].thenable ELSE None
  <2>1. i \in DOMAIN c.jobs /\ d.jobs[i] = c.jobs[i]
    BY <1>b, <1>14 DEF Adopts
  <2> QED
    <3>1. c.follows[o] = IF c.jobs[i].thenable \in Promise THEN c.jobs[i].thenable ELSE None
      BY ZenonT(60), <1>1, <1>14, <2>1 DEF AdoptView
    <3> QED
      BY <1>2, <1>d, <2>1, <3>1
<1>15. \A o \in Promise : d.follows[o] # None => Cap(o) \in d.resolved
  BY <1>d DEF Straight
<1>16. ASSUME NEW o \in Promise, d.follows[o] # None, Settled(d, o) PROVE Outcome(d, o) = Outcome(d, d.follows[o])
  <2>1. d.follows[o] = e.follows[o] /\ e.follows[o] \in Promise /\ Settled(e, o)
    BY ZenonT(60), <1>c, <1>d, <1>10, <1>16 DEF Settled
  <2>2. Outcome(e, o) = Outcome(e, e.follows[o])
    BY <1>16, <2>1 DEF Straight
  <2> QED
    BY ONLY <1>c, <2>1, <2>2, o \in Promise DEF Outcome
<1>17. Straight(d)
  BY ZenonT(60), <1>11, <1>13, <1>14, <1>15, <1>16 DEF Straight
<1>18. Made(d) = Made(c) /\ d.resolved = e.resolved /\ d.follows = e.follows
  BY ZenonT(30), <1>d DEF Made
<1> QED
  BY Zenon, <1>2, <1>9, <1>12, <1>17, <1>18 DEF Tidy

\* The promise that a follower follows has settled: the follower ends like it.
LEMMA FollowTidy ==
  ASSUME NEW H, NEW V, Error \in V, NEW e, Good(e, H, V), Straight(e), e.jobs # <<>>,
         NEW p \in Promise, Follower(e, p), NEW y, y = Last(e, p), NEW q, q = e.follows[p], Settled(e, q),
         NEW job, job = Head(e.jobs), job = JobOf(e, Adoption(y), q), NEW K \in SUBSET Pair, y \notin K,
         NEW d, d = ResolvingCall([e EXCEPT !.jobs = Tail(@)], y, job.handler.how, job.arg)
  PROVE  Tidy(e, d, K, {y}) /\ Made(d) = Made(e) /\ Chained(d) \subseteq Chained(e)
<1>1. /\ e \in Engine(H, V) /\ y \in Made(e) /\ y \notin e.resolved /\ y.of = p /\ q \in Promise
      /\ Chained(e) \in SUBSET Pair
  BY ChainedMade DEF Good, Follower, Last, Made
<1>2. PICK how, v : how = e.promise[q].state /\ v = e.promise[q].result
  OBVIOUS
<1>3. how \in How /\ v \in V /\ Outcome(e, q) = <<how, v>>
  BY <1>1, <1>2 DEF Settled, Engine, PromiseState, Outcome
<1>4. how = "rejected" \/ v \notin Promise \cup Thenable \cup Poisoned
  BY <1>1, <1>2, <1>3 DEF Straight, How
<1>5. job.kind = "reaction" /\ job.handler = Settler(y, how) /\ job.arg = v /\ job.cap = None
  BY <1>2, <1>3 DEF JobOf, ReactionJob, Adoption
<1>6. PICK c : c = [e EXCEPT !.jobs = Tail(@)]
  OBVIOUS
<1>7. Good(c, H, V) /\ Made(c) = Made(e)
  BY <1>5, <1>6, PopReaction
<1>8. /\ c.promise = e.promise /\ c.jobs = Tail(e.jobs) /\ c.resolved = e.resolved /\ c.follows = e.follows
      /\ c.pairs = e.pairs
  BY <1>1, <1>6 DEF Engine
<1>9. d = ResolvingCall(c, y, how, v) /\ y \in Made(c) /\ y \notin c.resolved
  BY <1>1, <1>5, <1>6, <1>7, <1>8 DEF Settler
<1>10. PICK b \in Engine(H, V) : Marks(c, b, y) /\ (Settles(b, d, y.of, how, v, V) \/ Defers(b, d, y.of, how, v))
  BY Zenon, <1>3, <1>7, <1>9, CallCases
<1>11. /\ b.promise = e.promise /\ b.jobs = c.jobs /\ b.pairs = e.pairs /\ b.follows = e.follows
       /\ b.resolved = e.resolved \cup {y} /\ ~Settled(b, p) /\ ~Settled(e, p)
  BY <1>1, <1>8, <1>10 DEF Marks, Settled
<1>12. d = Settle(b, p, how, v)
  BY Zenon, <1>1, <1>4, <1>10 DEF Settles, Defers, How
<1>13. SettleStep(b, d, p, how, v) /\ \A L : Carries(b, d, L)
  BY SMTT(60), <1>3, <1>11, <1>12, SettleCarries
<1>14. /\ d.promise[p] = [state |-> how, result |-> v, reactions |-> <<>>]
       /\ \A o \in Promise : o # p => d.promise[o] = e.promise[o]
       /\ d.resolved = e.resolved \cup {y} /\ d.pairs = e.pairs /\ d.follows = e.follows
  BY Zenon, <1>11, <1>13 DEF SettleStep
<1>15. ASSUME NEW L \in SUBSET Pair, y \notin L PROVE Carries(e, d, L)
  <2>1. JobIn(job, Pair \ L)
    BY <1>1, <1>5, <1>15 DEF JobIn, CapIn, HandlerIn, Settler, Made
  <2>2. Carries(e, c, L)
    BY <1>1, <1>8, <2>1, PopCarries
  <2>3. Carries(c, b, L)
    BY <1>8, <1>11, SameCarries
  <2> QED
    BY <1>13, <2>2, <2>3 DEF Carries, Holds
<1>16. ASSUME NEW o \in Promise, Follower(d, o)
       PROVE  /\ Tied(d, Last(d, o), d.follows[o], Adoption(Last(d, o)))
              /\ Due(d, d.follows[o], Adoption(Last(d, o)))
              /\ Last(d, o) \in Chained(e)
  <2>1. Follower(e, o) /\ Last(d, o) = Last(e, o) /\ d.follows[o] = e.follows[o] /\ Last(e, o) # y
    BY Zenon, <1>14, <1>16 DEF Follower, Last
  <2>2. Last(e, o) \in Chained(e) /\ e.follows[o] \in Promise
    BY <2>1, ChainedMade DEF Chained, Follower
  <2>3. Tied(e, Last(e, o), e.follows[o], Adoption(Last(e, o))) /\ Due(e, e.follows[o], Adoption(Last(e, o)))
    BY <2>1 DEF Straight
  <2>4. Bound(Adoption(Last(e, o)), Chained(e) \ {y})
    BY <2>1, <2>2 DEF Bound, Adoption, Settler
  <2>5. Carries(e, d, Chained(e) \ {y})
    <3>1. PICK L : L = Chained(e) \ {y}
      OBVIOUS
    <3>2. L \in SUBSET Pair /\ y \notin L
      BY ONLY <1>1, <3>1
    <3> QED
      BY ONLY <1>15, <3>1, <3>2
  <2> QED
    BY Zenon, <2>1, <2>2, <2>3, <2>4, <2>5 DEF Carries, Holds
<1>d. \A o \in Promise : e.promise[o].state = "fulfilled" => e.promise[o].result \notin Promise \cup Thenable \cup Poisoned
  BY ONLY Straight(e) DEF Straight
<1>17. \A o \in Promise : d.promise[o].state = "fulfilled" => d.promise[o].result \notin Promise \cup Thenable \cup Poisoned
  <2> SUFFICES ASSUME NEW o \in Promise, d.promise[o].state = "fulfilled"
               PROVE  d.promise[o].result \notin Promise \cup Thenable \cup Poisoned
    OBVIOUS
  <2>1. CASE o = p
    BY ONLY <2>1, <1>4, <1>14, d.promise[o].state = "fulfilled"
  <2>2. CASE o # p
    BY ONLY <2>2, <1>d, <1>14, o \in Promise, d.promise[o].state = "fulfilled"
  <2> QED
    BY ONLY <2>1, <2>2
<1>18. ASSUME NEW i \in DOMAIN d.jobs, NEW o \in Promise, Adopts(d.jobs[i], o)
       PROVE  d.follows[o] = IF d.jobs[i].thenable \in Promise THEN d.jobs[i].thenable ELSE None
  <2>1. i \in DOMAIN c.jobs /\ d.jobs[i] = c.jobs[i]
    BY ZenonT(60), <1>11, <1>13, <1>18 DEF SettleStep, Adopts
  <2>2. TailView(e.jobs, c.jobs)
    <3>1. e.jobs \in Seq(AJob(H, V))
      BY <1>1 DEF Engine, AJob
    <3> QED
      BY <1>8, <3>1, TailViews
  <2>3. i + 1 \in DOMAIN e.jobs /\ d.jobs[i] = e.jobs[i + 1]
    BY SMTT(60), <2>1, <2>2 DEF TailView
  <2> QED
    <3>1. e.follows[o] = IF e.jobs[i + 1].thenable \in Promise THEN e.jobs[i + 1].thenable ELSE None
      BY <1>18, <2>3 DEF Straight
    <3> QED
      BY ZenonT(60), <1>14, <2>3, <3>1
<1>19. \A o \in Promise : d.follows[o] # None => Cap(o) \in d.resolved
  BY SMTT(60), <1>14 DEF Straight
<1>20. ASSUME NEW o \in Promise, d.follows[o] # None, Settled(d, o) PROVE Outcome(d, o) = Outcome(d, d.follows[o])
  <2>1. CASE o = p
    <3>1. q # p
      BY <1>11
    <3> QED
      <4>1. d.promise[p] = [state |-> how, result |-> v, reactions |-> <<>>] /\ d.promise[q] = e.promise[q] /\ d.follows[p] = q
        BY ONLY <1>1, <1>14, <3>1, q = e.follows[p]
      <4> QED
        BY ONLY <1>2, <2>1, <4>1 DEF Outcome
  <2>2. CASE o # p
    <3>1. e.follows[o] # None /\ e.follows[o] \in Promise /\ Settled(e, o)
      BY <1>14, <1>20, <2>2, ChainedMade DEF Settled
    <3>2. Outcome(e, o) = Outcome(e, e.follows[o])
      BY <3>1 DEF Straight
    <3>3. e.follows[o] # p
      BY <1>11, <3>1, <3>2 DEF Outcome, Settled
    <3> QED
      BY ZenonT(60), <1>14, <2>2, <3>1, <3>2, <3>3 DEF Outcome
  <2> QED
    BY <2>1, <2>2
<1>21. Straight(d) /\ Chained(d) \subseteq Chained(e)
  BY ZenonT(30), <1>16, <1>17, <1>18, <1>19, <1>20 DEF Straight, Chained
<1>22. Carries(e, d, K) /\ Made(d) = Made(e)
  BY Zenon, <1>14, <1>15 DEF Made
<1> QED
  BY Zenon, <1>14, <1>21, <1>22 DEF Tidy

\* What then adds to the reactions and to the queue.
ThenView(e, d, p, x) ==
  /\ \A o \in Promise : \A i \in DOMAIN d.promise[o].reactions :
       \/ i \in DOMAIN e.promise[o].reactions /\ d.promise[o].reactions[i] = e.promise[o].reactions[i]
       \/ o = p /\ d.promise[o].reactions[i] = x
  /\ \A o \in Promise : \A i, j \in DOMAIN d.promise[o].reactions :
       i < j => i \in DOMAIN e.promise[o].reactions /\ d.promise[o].reactions[i] = e.promise[o].reactions[i]
  /\ \A i \in DOMAIN d.jobs :
       \/ i \in DOMAIN e.jobs /\ d.jobs[i] = e.jobs[i]
       \/ Settled(e, p) /\ d.jobs[i] = JobOf(e, x, p)
  /\ \A i, j \in DOMAIN d.jobs : i < j => i \in DOMAIN e.jobs /\ d.jobs[i] = e.jobs[i]

LEMMA ThenViews ==
  ASSUME NEW H, NEW V, NEW e \in Engine(H, V), NEW p \in Promise, NEW on \in [How -> H],
         NEW cap \in Capability, NEW x, x = [on |-> on, cap |-> cap], NEW d, d = Then(e, p, on, cap)
  PROVE  ThenView(e, d, p, x)
<1>1. x \in [on : [How -> H], cap : Capability] /\ x.on = on /\ x.cap = cap
  OBVIOUS
<1>2. CASE Settled(e, p)
  <2> DEFINE job == JobOf(e, x, p)
             q == e.jobs
             s == d.jobs
  <2>1. e.promise[p].state \in How /\ e.promise[p].result \in V
    BY <1>2 DEF Settled, Engine, PromiseState
  <2>2. job \in AJob(H, V)
    BY <1>1, <2>1 DEF JobOf, ReactionJob, ReactionJobs, AJob
  <2>3. d = [e EXCEPT !.jobs = Append(@, job)]
    BY <1>2 DEF Then, Enqueue, JobOf
  <2>4. d.promise = e.promise /\ s = Append(q, job)
    BY <2>3 DEF Engine
  <2>5. q \in Seq(AJob(H, V))
    BY DEF Engine, AJob
  <2> HIDE DEF job, q, s
  <2>6. /\ \A i \in DOMAIN q : i \in DOMAIN s /\ s[i] = q[i]
        /\ \A i \in DOMAIN s : i \notin DOMAIN q => s[i] = job
        /\ \A i, j \in DOMAIN s : i < j => i \in DOMAIN q
    BY <2>2, <2>4, <2>5, AppendView
  <2> QED
    BY <1>2, <2>4, <2>6 DEF ThenView, q, s, job
<1>3. CASE ~Settled(e, p)
  <2>1. d = [e EXCEPT !.promise[p].reactions = Append(@, x)]
    BY <1>3 DEF Then
  <2>2. d.promise = [e.promise EXCEPT ![p].reactions = Append(@, x)] /\ d.jobs = e.jobs
    BY <2>1 DEF Engine
  <2>3. ReactionView(e, d, p, x)
    BY <1>1, <2>2, ReactionViews
  <2>4. \A o \in Promise : o # p => d.promise[o] = e.promise[o]
    BY <2>2 DEF Engine
  <2> HIDE DEF ThenView
  <2>5. ASSUME NEW o \in Promise, NEW i \in DOMAIN d.promise[o].reactions
        PROVE  \/ i \in DOMAIN e.promise[o].reactions /\ d.promise[o].reactions[i] = e.promise[o].reactions[i]
               \/ o = p /\ d.promise[o].reactions[i] = x
    BY <2>3, <2>5 DEF ReactionView
  <2>6. ASSUME NEW o \in Promise, NEW i \in DOMAIN d.promise[o].reactions, NEW j \in DOMAIN d.promise[o].reactions, i < j
        PROVE  i \in DOMAIN e.promise[o].reactions /\ d.promise[o].reactions[i] = e.promise[o].reactions[i]
    BY SMTT(60), <2>3, <2>4, <2>6 DEF ReactionView
  <2> QED
    BY <2>2, <2>5, <2>6 DEF ThenView
<1> QED
  BY <1>2, <1>3

\* A registration is added: its callbacks come after all the others.
LEMMA RegisterSequenced ==
  ASSUME NEW H, NEW V, NEW e, Good(e, H, V), NEW p \in Promise,
         NEW reg \in Registrations, NEW ran, Sequenced(e, reg, ran), Enrolled(reg) \subseteq Made(e),
         NEW sides \in SUBSET How, NEW fn \in {"callback", "finally"}, NEW new \in Promise,
         NEW g, g = [on |-> p, sides |-> sides, derived |-> new, fn |-> fn],
         NEW k, k = Len(reg) + 1, NEW x, x = Reaction(g, k),
         NEW d, ThenView(e, d, p, x), \A o \in Promise : Settled(e, o) => Outcome(d, o) = Outcome(e, o),
         \A y : \A o \in Promise : \A r :
           Tied(e, y, o, r) /\ (ReactionIn(x, Pair \ {y}) \/ (p = o /\ x = r)) => Tied(d, y, o, r),
         Tied(e, Cap(new), p, x), Cap(new) \notin Enrolled(reg)
  PROVE  Sequenced(d, Append(reg, g), ran)
<1> DEFINE s == Append(reg, g)
<1>1. /\ k \notin DOMAIN reg /\ DOMAIN s = DOMAIN reg \cup {k} /\ s[k] = g
      /\ \A l \in DOMAIN reg : s[l] = reg[l] /\ l < k
  BY DEF Registrations
<1>2. g.on = p /\ g.sides = sides /\ g.derived = new /\ g.fn = fn
  OBVIOUS
<1>3. /\ x.cap = Cap(new)
      /\ \A how \in How : x.on[how] = IF how \in sides THEN Callback(fn, k) ELSE Undefined
  BY <1>2 DEF Reaction
<1>4. \A how \in How : /\ x.on[how].fn # "settle"
                       /\ IsCallback(x.on[how]) => x.on[how].id = k
  BY <1>3 DEF Callback, Undefined, IsCallback
<1> HIDE DEF s
<1>5. \A l \in DOMAIN s : Tied(d, Cap(s[l].derived), s[l].on, Reaction(s[l], l))
  <2> SUFFICES ASSUME NEW l \in DOMAIN s PROVE Tied(d, Cap(s[l].derived), s[l].on, Reaction(s[l], l))
    OBVIOUS
  <2>1. CASE l = k
    BY <1>1, <1>2, <2>1
  <2>2. CASE l \in DOMAIN reg
    <3>1. reg[l].on \in Promise /\ Cap(reg[l].derived) \in Pair
      BY <2>2, RegistrationKnown
    <3>2. Cap(reg[l].derived) # Cap(new) /\ Cap(new) \in Pair
      <4>1. Cap(reg[l].derived) \in Enrolled(reg)
        BY <2>2 DEF Enrolled
      <4>2. Cap(new) \in Pair
        <5>1. new \in Promise /\ 1 \in Nat \ {0}
          OBVIOUS
        <5> QED
          BY ONLY <5>1 DEF Cap, Pair
      <4> QED
        BY <4>1, <4>2
    <3>3. ReactionIn(x, Pair \ {Cap(reg[l].derived)})
      BY <1>3, <1>4, <3>2 DEF ReactionIn, CapIn, HandlerIn
    <3>4. Tied(e, Cap(reg[l].derived), reg[l].on, Reaction(reg[l], l))
      BY <2>2 DEF Sequenced
    <3> QED
      BY <1>1, <2>2, <3>1, <3>3, <3>4
  <2> QED
    BY <1>1, <2>1, <2>2
<1>6. \A h : \A cap : Derives(reg, h, cap) => Derives(s, h, cap)
  BY <1>1 DEF Derives
<1>7. \A o \in Promise : \A i \in DOMAIN d.promise[o].reactions : \A how \in How :
        Derives(s, d.promise[o].reactions[i].on[how], d.promise[o].reactions[i].cap)
  <2> SUFFICES ASSUME NEW o \in Promise, NEW i \in DOMAIN d.promise[o].reactions, NEW how \in How
               PROVE  Derives(s, d.promise[o].reactions[i].on[how], d.promise[o].reactions[i].cap)
    BY SMTT(60)
  <2>1. CASE i \in DOMAIN e.promise[o].reactions /\ d.promise[o].reactions[i] = e.promise[o].reactions[i]
    BY <1>6, <2>1 DEF Sequenced
  <2>2. CASE d.promise[o].reactions[i] = x
    BY <1>1, <1>2, <1>3, <1>4, <2>2 DEF Derives
  <2> QED
    BY <2>1, <2>2 DEF ThenView
<1>8. Settled(e, p) => JobOf(e, x, p).cap = Cap(new) /\ \E how \in How : JobOf(e, x, p).handler = x.on[how]
  <2>1. Settled(e, p) => e.promise[p].state \in How
    BY DEF Settled, Good, Engine, PromiseState
  <2> QED
    BY <1>3, <2>1 DEF JobOf, ReactionJob
<1>9. \A i \in DOMAIN d.jobs : CallsBack(d.jobs[i]) =>
        \/ i \in DOMAIN e.jobs /\ d.jobs[i] = e.jobs[i] /\ d.jobs[i].handler.id \in DOMAIN reg
        \/ d.jobs[i].handler.id = k /\ d.jobs[i].cap = Cap(new)
  <2> SUFFICES ASSUME NEW i \in DOMAIN d.jobs, CallsBack(d.jobs[i])
               PROVE  \/ i \in DOMAIN e.jobs /\ d.jobs[i] = e.jobs[i] /\ d.jobs[i].handler.id \in DOMAIN reg
                      \/ d.jobs[i].handler.id = k /\ d.jobs[i].cap = Cap(new)
    BY SMTT(60)
  <2>1. CASE i \in DOMAIN e.jobs /\ d.jobs[i] = e.jobs[i]
    BY <2>1 DEF Sequenced, Derives, CallsBack
  <2>2. CASE Settled(e, p) /\ d.jobs[i] = JobOf(e, x, p)
    BY <1>4, <1>8, <2>2 DEF CallsBack
  <2> QED
    BY <2>1, <2>2 DEF ThenView
<1>10. \A i \in DOMAIN d.jobs : CallsBack(d.jobs[i]) => Derives(s, d.jobs[i].handler, d.jobs[i].cap)
  <2> SUFFICES ASSUME NEW i \in DOMAIN d.jobs, CallsBack(d.jobs[i]) PROVE Derives(s, d.jobs[i].handler, d.jobs[i].cap)
    BY SMTT(60)
  <2>1. CASE i \in DOMAIN e.jobs /\ d.jobs[i] = e.jobs[i]
    BY <1>6, <2>1 DEF Sequenced
  <2>2. CASE d.jobs[i].handler.id = k /\ d.jobs[i].cap = Cap(new)
    BY SMTT(60), <1>1, <1>2, <2>2 DEF Derives
  <2> QED
    BY <1>9, <2>1, <2>2
<1>11. ASSUME NEW o \in Promise, NEW i \in DOMAIN d.promise[o].reactions, NEW j \in DOMAIN d.promise[o].reactions,
              NEW how \in How, i < j,
              IsCallback(d.promise[o].reactions[i].on[how]), IsCallback(d.promise[o].reactions[j].on[how])
       PROVE  d.promise[o].reactions[i].on[how].id < d.promise[o].reactions[j].on[how].id
  <2>1. i \in DOMAIN e.promise[o].reactions /\ d.promise[o].reactions[i] = e.promise[o].reactions[i]
    BY SMTT(60), <1>11 DEF ThenView
  <2>2. CASE j \in DOMAIN e.promise[o].reactions /\ d.promise[o].reactions[j] = e.promise[o].reactions[j]
    BY ZenonT(60), <1>11, <2>1, <2>2 DEF Sequenced
  <2>3. CASE d.promise[o].reactions[j] = x
    <3>1. d.promise[o].reactions[i].on[how].id \in DOMAIN reg
      BY Zenon, <1>11, <2>1 DEF Sequenced, Derives
    <3> QED
      BY <1>1, <1>4, <1>11, <2>3, <3>1
  <2> QED
    BY SMTT(60), <2>2, <2>3 DEF ThenView
<1>12. \A l, m \in DOMAIN reg : Before(reg, l, m) => Before(s, l, m)
  BY <1>1 DEF Before
<1>13. \A l \in DOMAIN reg : Before(s, l, k)
  BY <1>1 DEF Before
<1>14. ASSUME NEW i \in DOMAIN d.jobs, NEW j \in DOMAIN d.jobs, i < j, CallsBack(d.jobs[i]), CallsBack(d.jobs[j])
       PROVE  Before(s, d.jobs[i].handler.id, d.jobs[j].handler.id)
  <2>1. i \in DOMAIN e.jobs /\ d.jobs[i] = e.jobs[i] /\ d.jobs[i].handler.id \in DOMAIN reg
    <3>1. i \in DOMAIN e.jobs /\ d.jobs[i] = e.jobs[i]
      BY SMTT(60), <1>14 DEF ThenView
    <3> QED
      BY <1>14, <3>1 DEF Sequenced, Derives, CallsBack
  <2>2. CASE j \in DOMAIN e.jobs /\ d.jobs[j] = e.jobs[j] /\ d.jobs[j].handler.id \in DOMAIN reg
    BY <1>12, <1>14, <2>1, <2>2 DEF Sequenced
  <2>3. CASE d.jobs[j].handler.id = k
    BY <1>13, <2>1, <2>3
  <2> QED
    BY SMTT(60), <1>9, <1>14, <2>2, <2>3
<1>15. \A i \in DOMAIN ran : ran[i].id \in DOMAIN reg /\ ran[i].how \in reg[ran[i].id].sides
  BY DEF Sequenced
<1>16. \A i \in DOMAIN ran : ran[i].id \in DOMAIN s /\ ran[i].how \in s[ran[i].id].sides
  BY <1>1, <1>15
<1>17. \A i \in DOMAIN ran : <<ran[i].how, ran[i].arg>> = Outcome(d, s[ran[i].id].on)
  <2> SUFFICES ASSUME NEW i \in DOMAIN ran PROVE <<ran[i].how, ran[i].arg>> = Outcome(d, s[ran[i].id].on)
    OBVIOUS
  <2>1. <<ran[i].how, ran[i].arg>> = Outcome(e, reg[ran[i].id].on)
    BY DEF Sequenced
  <2>2. ran[i].how \in How /\ reg[ran[i].id].on \in Promise
    BY <1>15, RegistrationKnown
  <2>3. Settled(e, reg[ran[i].id].on)
    BY <2>1, <2>2 DEF Settled, Outcome, How
  <2> QED
    BY <1>1, <1>15, <2>1, <2>2, <2>3
<1>18. ASSUME NEW i \in DOMAIN ran, NEW j \in DOMAIN d.jobs, CallsBack(d.jobs[j])
       PROVE  Before(s, ran[i].id, d.jobs[j].handler.id)
  <2>1. CASE j \in DOMAIN e.jobs /\ d.jobs[j] = e.jobs[j] /\ d.jobs[j].handler.id \in DOMAIN reg
    BY SMTT(60), <1>12, <1>15, <1>18, <2>1 DEF Sequenced
  <2>2. CASE d.jobs[j].handler.id = k
    BY <1>13, <1>15, <2>2
  <2> QED
    BY SMTT(60), <1>9, <1>18, <2>1, <2>2
<1>19. \A i, j \in DOMAIN ran : i < j => Before(s, ran[i].id, ran[j].id)
  BY <1>12, <1>15 DEF Sequenced
<1> QED
  BY <1>5, <1>7, <1>10, <1>11, <1>14, <1>16, <1>17, <1>18, <1>19 DEF Sequenced, s

\* A callback is run: it comes after all that ran, and before all that are queued.
LEMMA CallbackSequenced ==
  ASSUME NEW H, NEW V, NEW e \in Engine(H, V), e.jobs # <<>>, NEW job, job = Head(e.jobs), CallsBack(job),
         NEW reg \in Registrations, NEW S, NEW ran \in Seq(S), Sequenced(e, reg, ran),
         NEW k, k = job.handler.id, NEW r \in S, r = [id |-> k, how |-> job.how, arg |-> job.arg],
         NEW d, d.promise = e.promise, d.jobs = Tail(e.jobs)
  PROVE  /\ Sequenced(d, reg, Append(ran, r))
         /\ k \in DOMAIN reg /\ reg[k].on \in Promise /\ Settled(e, reg[k].on)
         /\ job = JobOf(e, Reaction(reg[k], k), reg[k].on)
         /\ e.promise[reg[k].on].state \in reg[k].sides /\ job.handler = Callback(reg[k].fn, k)
<1>1. TailView(e.jobs, d.jobs)
  <2>1. e.jobs \in Seq(AJob(H, V))
    BY DEF Engine, AJob
  <2> QED
    BY <2>1, TailViews
<1>2. 1 \in DOMAIN e.jobs /\ e.jobs[1] = job
  BY <1>1 DEF TailView
<1>3. /\ k \in DOMAIN reg /\ reg[k].on \in Promise /\ Settled(e, reg[k].on)
      /\ job = JobOf(e, Reaction(reg[k], k), reg[k].on)
  <2>1. PICK i \in DOMAIN e.jobs : e.jobs[i] = job
    BY <1>2
  <2>2. CallsBack(e.jobs[i]) /\ e.jobs[i].handler.id = k
    BY <2>1
  <2>3. /\ e.jobs[i].handler.id \in DOMAIN reg /\ reg[e.jobs[i].handler.id].on \in Promise
        /\ Settled(e, reg[e.jobs[i].handler.id].on)
        /\ e.jobs[i] = JobOf(e, Reaction(reg[e.jobs[i].handler.id], e.jobs[i].handler.id), reg[e.jobs[i].handler.id].on)
    BY <2>2, CallbackJob
  <2> QED
    BY ONLY <2>1, <2>2, <2>3
<1>4. e.promise[reg[k].on].state \in How
  BY <1>3 DEF Settled, Engine, PromiseState
<1>5. e.promise[reg[k].on].state \in reg[k].sides /\ job.handler = Callback(reg[k].fn, k)
  <2>1. PICK how \in How : how = e.promise[reg[k].on].state
    BY <1>4
  <2>2. job.handler = Reaction(reg[k], k).on[how]
    BY ONLY <1>3, <2>1 DEF JobOf, ReactionJob
  <2>3. Reaction(reg[k], k).on[how] = IF how \in reg[k].sides THEN Callback(reg[k].fn, k) ELSE Undefined
    BY ONLY how \in How DEF Reaction
  <2>4. job.handler.fn # "undefined"
    BY DEF CallsBack, IsCallback
  <2> QED
    BY ONLY SMTT(60), <2>1, <2>2, <2>3, <2>4 DEF Undefined
<1>6. <<job.how, job.arg>> = Outcome(e, reg[k].on) /\ job.how = e.promise[reg[k].on].state
  <2>1. job.how = e.promise[reg[k].on].state /\ job.arg = e.promise[reg[k].on].result
    BY ONLY <1>3 DEF JobOf, ReactionJob
  <2> QED
    BY ONLY <2>1 DEF Outcome
<1>7. Sequenced(d, reg, ran)
  BY PopCarries
<1> DEFINE s == Append(ran, r)
<1>8. /\ \A i \in DOMAIN s : i \notin DOMAIN ran => s[i] = r
      /\ \A i \in DOMAIN ran : s[i] = ran[i]
      /\ \A i, j \in DOMAIN s : i < j => i \in DOMAIN ran
  BY AppendView
<1> HIDE DEF s
<1>9. r.id = k /\ r.how = job.how /\ r.arg = job.arg
  OBVIOUS
<1>10. \A i \in DOMAIN s : s[i].id \in DOMAIN reg /\ s[i].how \in reg[s[i].id].sides
  BY ZenonT(60), <1>3, <1>5, <1>6, <1>7, <1>8, <1>9 DEF Sequenced
<1>11. \A i \in DOMAIN s : <<s[i].how, s[i].arg>> = Outcome(d, reg[s[i].id].on)
  <2>1. <<r.how, r.arg>> = Outcome(d, reg[r.id].on)
    BY ZenonT(60), <1>6, <1>9 DEF Outcome
  <2> QED
    BY ZenonT(30), <1>7, <1>8, <2>1 DEF Sequenced
<1>12. \A j \in DOMAIN d.jobs : CallsBack(d.jobs[j]) => Before(reg, k, d.jobs[j].handler.id)
  <2> SUFFICES ASSUME NEW j \in DOMAIN d.jobs, CallsBack(d.jobs[j]) PROVE Before(reg, k, d.jobs[j].handler.id)
    OBVIOUS
  <2>1. j + 1 \in DOMAIN e.jobs /\ d.jobs[j] = e.jobs[j + 1] /\ 1 < j + 1
    BY SMTT(60), <1>1 DEF TailView
  <2> QED
    BY <1>2, <2>1 DEF Sequenced
<1>13. \A i \in DOMAIN s, j \in DOMAIN d.jobs : CallsBack(d.jobs[j]) => Before(reg, s[i].id, d.jobs[j].handler.id)
  BY ZenonT(60), <1>7, <1>8, <1>9, <1>12 DEF Sequenced
<1>14. \A i \in DOMAIN ran : Before(reg, ran[i].id, k)
  BY <1>2 DEF Sequenced
<1>15. \A i, j \in DOMAIN s : i < j => Before(reg, s[i].id, s[j].id)
  BY SMTT(60), <1>7, <1>8, <1>9, <1>14 DEF Sequenced
<1>16. Sequenced(d, reg, s)
  BY <1>7, <1>10, <1>11, <1>13, <1>15 DEF Sequenced
<1> QED
  BY Zenon, <1>3, <1>5, <1>16 DEF s

-----------------------------------------------------------------------------
(* The states of the system.                                               *)

Control == {Resume(a) : a \in Activation} \cup {Continued, Returned}

\* What every step does to the engine, and what every step does that touches no
\* suspended code.
Evolves(e, d, c) == Good(d, Handler(c), Val) /\ Grows(e, d)
Moves(e, d, c) == Evolves(e, d, c) /\ \A h \in Control : Keeps(e, d, h)

-----------------------------------------------------------------------------
(* Engines.                                                                *)

\* Nothing made is lost.
LEMMA EvolvesMade ==
  ASSUME NEW H, NEW V, NEW e, Good(e, H, V), NEW c, NEW d, Evolves(e, d, c)
  PROVE  Made(e) \subseteq Made(d)
<1>1. \A p \in Promise : e.pairs[p] \in Nat /\ d.pairs[p] \in Nat /\ e.pairs[p] <= d.pairs[p]
  BY DEF Evolves, Good, Engine, Grows
<1> QED
  BY <1>1, MadeGrows

\* Moves add up.
LEMMA MovesTransitive ==
  ASSUME NEW c, NEW e, Good(e, Handler(c), Val), NEW d, Good(d, Handler(c), Val), NEW b
  PROVE  /\ Evolves(e, e, c) /\ Moves(e, e, c)
         /\ Evolves(e, d, c) /\ Evolves(d, b, c) => Evolves(e, b, c)
         /\ Moves(e, d, c) /\ Moves(d, b, c) => Moves(e, b, c)
<1>1. e \in Engine(Handler(c), Val) /\ d \in Engine(Handler(c), Val)
  BY DEF Good
<1>2. Evolves(e, e, c)
  BY <1>1, GrowsTransitive DEF Evolves
<1>3. Moves(e, e, c)
  BY <1>2, SameHandlers DEF Moves
<1>4. ASSUME Evolves(e, d, c), Evolves(d, b, c) PROVE Evolves(e, b, c)
  <2>1. b \in Engine(Handler(c), Val)
    BY <1>4 DEF Evolves, Good
  <2> QED
    BY <1>1, <1>4, <2>1, GrowsTransitive DEF Evolves
<1>5. ASSUME Moves(e, d, c), Moves(d, b, c) PROVE Moves(e, b, c)
  BY <1>4, <1>5 DEF Moves, Keeps
<1> QED
  BY <1>2, <1>3, <1>4, <1>5

\* A promise is created.
LEMMA CreateMoves ==
  ASSUME NEW c, NEW e, Good(e, Handler(c), Val), Fresh(e) # {}
  PROVE  /\ Moves(e, Create(e), c) /\ Good(Create(e), Handler(c), Val)
         /\ New(e) \in Promise /\ Cap(New(e)) \in Made(Create(e)) \ Made(e)
<1>1. Evolves(e, Create(e), c) /\ New(e) \in Promise /\ Cap(New(e)) \in Made(Create(e)) \ Made(e)
  BY CreateGood DEF Evolves
<1>2. Create(e).promise = e.promise /\ Create(e).jobs = e.jobs
  <2>1. e \in Engine(Handler(c), Val)
    BY DEF Good
  <2> QED
    BY <2>1 DEF Engine, Create, CreateResolvingFunctions
<1>3. \A h \in Control : Keeps(e, Create(e), h)
  BY <1>2, SameHandlers
<1> QED
  BY <1>1, <1>3 DEF Moves, Evolves

\* A resolving function is called.
LEMMA CallMoves ==
  ASSUME NEW c, NEW e, Good(e, Handler(c), Val), NEW pair \in Made(e), NEW how \in How, NEW v \in Val
  PROVE  /\ Moves(e, ResolvingCall(e, pair, how, v), c)
         /\ Good(ResolvingCall(e, pair, how, v), Handler(c), Val)
<1>1. Error \in Val
  BY DEF Val, Value
<1>2. Resolves(e, ResolvingCall(e, pair, how, v), Handler(c), Val, pair)
  BY <1>1, ResolvingCallGood
<1>3. \A h \in Control : Keeps(e, ResolvingCall(e, pair, how, v), h)
  BY <1>1, ResolvingCallKeeps
<1> QED
  BY <1>2, <1>3 DEF Resolves, Moves, Evolves

\* A handler ends.
LEMMA FinishMoves ==
  ASSUME NEW c, NEW e, Good(e, Handler(c), Val), NEW cap, CapIn(cap, Made(e)), NEW how \in How, NEW v \in Val
  PROVE  /\ Moves(e, Finish(e, cap, how, v), c)
         /\ Good(Finish(e, cap, how, v), Handler(c), Val)
BY CallMoves, MovesTransitive DEF Finish, CapIn

\* A reaction that calls no suspended code is added.
LEMMA ThenMoves ==
  ASSUME NEW c, NEW e, Good(e, Handler(c), Val), NEW p \in Promise, NEW on \in [How -> Handler(c)],
         NEW cap \in Capability, ReactionIn([on |-> on, cap |-> cap], Made(e)),
         \A how \in How : on[how] \notin Control
  PROVE  /\ Moves(e, Then(e, p, on, cap), c)
         /\ Good(Then(e, p, on, cap), Handler(c), Val)
<1>1. Evolves(e, Then(e, p, on, cap), c)
  BY ThenGood DEF Evolves
<1>2. ASSUME NEW h \in Control PROVE Keeps(e, Then(e, p, on, cap), h)
  BY ThenKeeps
<1> QED
  BY <1>1, <1>2 DEF Moves, Evolves

\* A value is made a promise.
LEMMA WrapMoves ==
  ASSUME NEW c, NEW e, Good(e, Handler(c), Val), NEW v \in Val, v \notin Promise => Fresh(e) # {}
  PROVE  /\ Moves(e, Wrap(e, v), c) /\ Good(Wrap(e, v), Handler(c), Val)
         /\ Wrapped(e, v) \in Promise
<1>1. Error \in Val
  BY DEF Val, Value
<1>2. Evolves(e, Wrap(e, v), c) /\ Wrapped(e, v) \in Promise
  BY <1>1, WrapGood DEF Evolves
<1>3. \A h \in Control : Keeps(e, Wrap(e, v), h)
  BY <1>1, WrapKeeps
<1> QED
  BY <1>2, <1>3 DEF Moves, Evolves

\* Suspended code waits for a value: it will be called once, with the outcome.
LEMMA AwaitMoves ==
  ASSUME NEW c, NEW e, Good(e, Handler(c), Val), NEW v \in Val, v \notin Promise => Fresh(e) # {},
         NEW h \in Control, h \in Handler(c), Alone(e, h), ~Expects(e, h),
         NEW d, d = AwaitOn(e, v, [how \in How |-> h])
  PROVE  /\ Evolves(e, d, c) /\ \A g \in Control : g # h => Keeps(e, d, g)
         /\ Alone(d, h) /\ Expects(d, h) /\ CalledFor(d, h, Wrapped(e, v)) /\ Wrapped(e, v) \in Promise
<1> DEFINE b == Wrap(e, v)
           p == Wrapped(e, v)
           on == [how \in How |-> h]
<1>1. Moves(e, b, c) /\ Good(b, Handler(c), Val) /\ p \in Promise
  BY WrapMoves
<1>2. d = Then(b, p, on, None) /\ on \in [How -> Handler(c)] /\ \A how \in How : on[how] = h
  BY DEF AwaitOn
<1>3. h.fn # "settle"
  BY DEF Control, Resume, Continued, Returned
<1>4. None \in Capability /\ ReactionIn([on |-> on, cap |-> None], Made(b))
  BY <1>3 DEF Capability, ReactionIn, CapIn, HandlerIn
<1> HIDE DEF b, p, on
<1>5. Evolves(b, d, c)
  BY <1>1, <1>2, <1>4, ThenGood DEF Evolves
<1>6. ASSUME NEW g \in Control, g # h PROVE Keeps(b, d, g)
  <2>1. \A how \in How : on[how] # g
    BY <1>2, <1>6
  <2> QED
    BY <1>1, <1>2, <1>4, <2>1, ThenKeeps
<1>7. Alone(b, h) /\ ~Expects(b, h)
  BY <1>1 DEF Moves, Keeps
<1>8. Alone(d, h) /\ Expects(d, h) /\ CalledFor(d, h, p)
  <2>1. (\A how \in How : on[how] = h) /\ Alone(b, h) /\ ~Expects(b, h)
    BY <1>2, <1>7
  <2> QED
    BY <1>1, <1>2, <1>4, <2>1, ThenKeeps
<1>9. Evolves(e, d, c)
  BY <1>1, <1>5, MovesTransitive DEF Moves
<1>10. ASSUME NEW g \in Control, g # h PROVE Keeps(e, d, g)
  BY <1>1, <1>6, <1>10 DEF Moves, Keeps
<1> QED
  BY <1>1, <1>8, <1>9, <1>10 DEF p

\* The job of a reaction is taken.
LEMMA PopMoves ==
  ASSUME NEW c, NEW e, Good(e, Handler(c), Val), e.jobs # <<>>, Head(e.jobs).kind = "reaction",
         NEW d, d = [e EXCEPT !.jobs = Tail(@)]
  PROVE  /\ Evolves(e, d, c) /\ Good(d, Handler(c), Val)
         /\ Head(e.jobs) \in ReactionJobs(Handler(c), Val)
         /\ CapIn(Head(e.jobs).cap, Made(d)) /\ HandlerIn(Head(e.jobs).handler, Made(d))
         /\ \A h \in Control : h # Head(e.jobs).handler => Keeps(e, d, h)
         /\ Head(e.jobs).handler \notin Control => Moves(e, d, c)
<1>1. /\ Good(d, Handler(c), Val) /\ Grows(e, d) /\ Made(d) = Made(e)
      /\ Head(e.jobs) \in ReactionJobs(Handler(c), Val)
      /\ \A S : PairsIn(e, S) => CapIn(Head(e.jobs).cap, S) /\ HandlerIn(Head(e.jobs).handler, S)
  BY PopReaction
<1>2. PairsIn(e, Made(e))
  BY DEF Good, Sound
<1>3. CapIn(Head(e.jobs).cap, Made(d)) /\ HandlerIn(Head(e.jobs).handler, Made(d))
  BY <1>1, <1>2
<1>4. ASSUME NEW h \in Control, h # Head(e.jobs).handler PROVE Keeps(e, d, h)
  <2>1. e \in Engine(Handler(c), Val) /\ ~Runs(Head(e.jobs), h)
    BY <1>4 DEF Good, Runs
  <2> QED
    BY <2>1, PopKeeps
<1> QED
  BY <1>1, <1>3, <1>4 DEF Evolves, Moves

\* The job of a thenable is taken, and its promise gets another pair.
LEMMA AdoptMoves ==
  ASSUME NEW c, NEW e, Good(e, Handler(c), Val), e.jobs # <<>>, Head(e.jobs).kind = "thenable",
         NEW d, d = CreateResolvingFunctions([e EXCEPT !.jobs = Tail(@)], Head(e.jobs).promise)
  PROVE  /\ Moves(e, d, c) /\ Good(d, Handler(c), Val)
         /\ Head(e.jobs) \in ThenableJobs /\ NewPair(e, Head(e.jobs).promise) \in Made(d)
<1>1. Evolves(e, d, c) /\ Head(e.jobs) \in ThenableJobs /\ NewPair(e, Head(e.jobs).promise) \in Made(d)
  BY PopThenable DEF Evolves
<1>2. ASSUME NEW h \in Control PROVE Keeps(e, d, h)
  <2> DEFINE b == [e EXCEPT !.jobs = Tail(@)]
  <2>1. e \in Engine(Handler(c), Val) /\ ~Runs(Head(e.jobs), h)
    BY DEF Good, Runs
  <2>2. Keeps(e, b, h)
    BY <2>1, PopKeeps
  <2>3. d.promise = b.promise /\ d.jobs = b.jobs
    BY <2>1 DEF Engine, CreateResolvingFunctions
  <2>4. Keeps(b, d, h)
    BY <2>3, SameHandlers
  <2> QED
    BY <2>2, <2>4 DEF Keeps
<1> QED
  BY <1>1, <1>2 DEF Moves, Evolves

\* A combinator adds handlers and frames.
LEMMA CombinatorAdds ==
  ASSUME NEW c, NEW d, c = NoCombinator \/ d # NoCombinator
  PROVE  Handler(c) \subseteq Handler(d) /\ Frame(c) \subseteq Frame(d)
BY DEF Handler, Frame

\* An engine may have more handlers than it uses.
LEMMA MoreHandlers ==
  ASSUME NEW H, NEW J, H \subseteq J, NEW V, NEW e, Good(e, H, V)
  PROVE  Good(e, J, V)
<1> DEFINE R(X) == [on : [How -> X], cap : Capability]
<1>1. R(H) \subseteq R(J) /\ ReactionJobs(H, V) \subseteq ReactionJobs(J, V)
  BY DEF ReactionJobs
<1>2. Seq(R(H)) \subseteq Seq(R(J)) /\ Seq(AJob(H, V)) \subseteq Seq(AJob(J, V))
  BY <1>1, SeqMonotonic DEF AJob
<1>3. PromiseState(H, V) \subseteq PromiseState(J, V)
  BY <1>2 DEF PromiseState
<1>4. e \in Engine(H, V)
  BY DEF Good
<1>5. /\ e.promise \in [Promise -> PromiseState(H, V)] /\ e.jobs \in Seq(AJob(H, V))
      /\ e.pairs \in [Promise -> Nat] /\ e.resolved \in SUBSET Pair
      /\ e.follows \in [Promise -> Promise \cup {None}]
      /\ e = [promise |-> e.promise, pairs |-> e.pairs, resolved |-> e.resolved, jobs |-> e.jobs,
              follows |-> e.follows]
  BY <1>4 DEF Engine, AJob
<1>6. e.promise \in [Promise -> PromiseState(J, V)] /\ e.jobs \in Seq(AJob(J, V))
  BY <1>2, <1>3, <1>5
<1>7. e \in Engine(J, V)
  BY <1>5, <1>6 DEF Engine, AJob
<1> QED
  BY <1>7 DEF Good

-----------------------------------------------------------------------------
(* Stacks.                                                                 *)

\* A frame is pushed.
LEMMA PushFrame ==
  ASSUME NEW F, NEW s \in Seq(F), NEW f \in F
  PROVE  <<f>> \o s \in Seq(F) /\ InProgress(<<f>> \o s) = InProgress(s) \cup {f}
<1> DEFINE t == <<f>> \o s
<1>1. /\ t \in Seq(F) /\ t[1] = f /\ 1 \in DOMAIN t
      /\ \A i \in DOMAIN s : i + 1 \in DOMAIN t /\ t[i + 1] = s[i]
      /\ \A i \in DOMAIN t : i = 1 \/ (i - 1 \in DOMAIN s /\ t[i] = s[i - 1])
  OBVIOUS
<1> HIDE DEF t
<1>2. ASSUME NEW g \in InProgress(t) PROVE g \in InProgress(s) \cup {f}
  <2>1. PICK i \in DOMAIN t : g = t[i]
    BY DEF InProgress
  <2> QED
    BY <1>1, <2>1 DEF InProgress
<1>3. f \in InProgress(t)
  BY <1>1 DEF InProgress
<1>4. ASSUME NEW g \in InProgress(s) PROVE g \in InProgress(t)
  BY <1>1 DEF InProgress
<1> QED
  BY <1>1, <1>2, <1>3, <1>4 DEF t

\* A frame may stand on another.
MayStand(f, s) ==
  /\ \A g \in InProgress(s) : ~Alike(f, g)
  /\ s # <<>> => (f.kind = "generator" <=> Head(s).kind = "resumeNext") /\ (f.kind = "hook" => Head(s).kind = "combine")
  /\ s = <<>> => f.kind \notin {"generator", "hook"}

\* A frame is pushed where it may stand.
LEMMA PushStacked ==
  ASSUME NEW F, NEW s \in Seq(F), NEW f \in F, Stacked(s), MayStand(f, s)
  PROVE  Stacked(<<f>> \o s)
<1> DEFINE t == <<f>> \o s
<1>1. /\ t \in Seq(F) /\ Len(t) = Len(s) + 1 /\ t[1] = f
      /\ \A i \in DOMAIN s : i + 1 \in DOMAIN t /\ t[i + 1] = s[i]
      /\ \A i \in DOMAIN t : i = 1 \/ (i - 1 \in DOMAIN s /\ t[i] = s[i - 1])
      /\ DOMAIN s \subseteq Nat \ {0} /\ DOMAIN t \subseteq Nat \ {0} /\ 1 \in DOMAIN t
      /\ (s # <<>> <=> 1 \in DOMAIN s) /\ (s # <<>> => Head(s) = s[1])
  OBVIOUS
<1> HIDE DEF t
<1>2. ASSUME NEW i \in DOMAIN t, NEW j \in DOMAIN t, Alike(t[i], t[j]) PROVE i = j
  <2>1. \A k \in DOMAIN s : ~Alike(f, s[k]) /\ ~Alike(s[k], f)
    BY DEF MayStand, InProgress, Alike
  <2>2. CASE i = 1 \/ j = 1
    BY <1>1, <1>2, <2>1, <2>2
  <2>3. CASE i # 1 /\ j # 1
    <3>1. i - 1 \in DOMAIN s /\ j - 1 \in DOMAIN s /\ Alike(s[i - 1], s[j - 1])
      BY <1>1, <1>2, <2>3
    <3>2. i - 1 = j - 1 /\ i \in Nat /\ j \in Nat
      BY <1>1, <3>1 DEF Stacked
    <3> QED
      BY <3>2
  <2> QED
    BY <2>2, <2>3
<1>3. ASSUME NEW i \in DOMAIN t, t[i].kind \in {"generator", "hook"} PROVE i + 1 \in DOMAIN t
  <2>1. CASE i = 1
    BY <1>1, <1>3, <2>1 DEF MayStand
  <2>2. CASE i # 1
    <3>1. i - 1 \in DOMAIN s /\ s[i - 1].kind \in {"generator", "hook"} /\ i \in Nat
      BY <1>1, <1>3, <2>2
    <3>2. i - 1 + 1 \in DOMAIN s
      BY <3>1 DEF Stacked
    <3> QED
      BY <1>1, <3>1, <3>2
  <2> QED
    BY <2>1, <2>2
<1>4. ASSUME NEW i \in DOMAIN t, i + 1 \in DOMAIN t
      PROVE  /\ t[i].kind = "generator" <=> t[i + 1].kind = "resumeNext"
             /\ t[i].kind = "hook" => t[i + 1].kind = "combine"
  <2>1. CASE i = 1
    BY <1>1, <1>4, <2>1 DEF MayStand
  <2>2. CASE i # 1
    <3>1. i \in Nat /\ i - 1 \in DOMAIN s /\ t[i] = s[i - 1]
      BY <1>1, <2>2
    <3>2. i + 1 # 1 /\ i - 1 + 1 = i + 1 - 1
      BY <3>1
    <3>3. i + 1 - 1 \in DOMAIN s /\ t[i + 1] = s[i + 1 - 1]
      BY <1>1, <1>4, <3>2
    <3>4. i - 1 + 1 \in DOMAIN s /\ t[i + 1] = s[i - 1 + 1]
      BY <3>2, <3>3
    <3> QED
      BY <3>1, <3>4 DEF Stacked
  <2> QED
    BY <2>1, <2>2
<1> QED
  BY <1>2, <1>3, <1>4 DEF Stacked, t

\* The innermost frame is popped.
LEMMA Drop ==
  ASSUME NEW F, NEW s \in Seq(F), s # <<>>, NEW t, t = Tail(s)
  PROVE  /\ t \in Seq(F) /\ Head(s) \in F /\ InProgress(s) = InProgress(t) \cup {Head(s)}
         /\ Stacked(s) => /\ Stacked(t) /\ \A g \in InProgress(t) : ~Alike(Head(s), g)
                          /\ Head(s).kind = "generator" => t # <<>> /\ Head(t).kind = "resumeNext"
                          /\ Head(s).kind = "hook" => t # <<>> /\ Head(t).kind = "combine"
<1>1. /\ t \in Seq(F) /\ Head(s) = s[1] /\ s[1] \in F /\ 1 \in DOMAIN s
      /\ \A i \in DOMAIN t : i + 1 \in DOMAIN s /\ t[i] = s[i + 1]
      /\ \A i \in DOMAIN s : i = 1 \/ (i - 1 \in DOMAIN t /\ s[i] = t[i - 1])
      /\ DOMAIN s \subseteq Nat \ {0} /\ DOMAIN t \subseteq Nat \ {0}
      /\ (2 \in DOMAIN s => t # <<>> /\ Head(t) = s[2])
  <2>1. t \in Seq(F) /\ Len(t) = Len(s) - 1 /\ Len(s) \in Nat \ {0} /\ Head(s) = s[1]
    OBVIOUS
  <2>2. DOMAIN s = 1 .. Len(s) /\ DOMAIN t = 1 .. Len(s) - 1 /\ \A i \in 1 .. Len(s) - 1 : t[i] = s[i + 1]
    BY <2>1, HeadTailProperties
  <2>3. 2 \in DOMAIN s => t # <<>> /\ Head(t) = s[2]
    BY <2>1, <2>2
  <2>4. \A i \in DOMAIN s : i = 1 \/ (i - 1 \in DOMAIN t /\ s[i] = t[i - 1])
    BY <2>1, <2>2
  <2>5. \A i \in DOMAIN t : i + 1 \in DOMAIN s /\ t[i] = s[i + 1]
    BY <2>1, <2>2
  <2>6. s[1] \in F /\ 1 \in DOMAIN s /\ DOMAIN s \subseteq Nat \ {0} /\ DOMAIN t \subseteq Nat \ {0}
    BY <2>1, <2>2
  <2> QED
    BY <2>1, <2>3, <2>4, <2>5, <2>6
<1>2. InProgress(s) = InProgress(t) \cup {Head(s)}
  <2>1. ASSUME NEW g \in InProgress(s) PROVE g \in InProgress(t) \cup {Head(s)}
    <3>1. PICK i \in DOMAIN s : g = s[i]
      BY DEF InProgress
    <3> QED
      BY <1>1, <3>1 DEF InProgress
  <2>2. Head(s) \in InProgress(s)
    BY <1>1 DEF InProgress
  <2>3. ASSUME NEW g \in InProgress(t) PROVE g \in InProgress(s)
    BY <1>1 DEF InProgress
  <2> QED
    BY <2>1, <2>2, <2>3
<1>3. ASSUME Stacked(s) PROVE Stacked(t)
  <2>1. ASSUME NEW i \in DOMAIN t, NEW j \in DOMAIN t, Alike(t[i], t[j]) PROVE i = j
    <3>1. i + 1 \in DOMAIN s /\ j + 1 \in DOMAIN s /\ Alike(s[i + 1], s[j + 1]) /\ i \in Nat /\ j \in Nat
      BY <1>1, <2>1
    <3>2. i + 1 = j + 1
      BY <1>3, <3>1 DEF Stacked
    <3> QED
      BY <3>1, <3>2
  <2>2. ASSUME NEW i \in DOMAIN t, t[i].kind \in {"generator", "hook"} PROVE i + 1 \in DOMAIN t
    <3>1. i + 1 \in DOMAIN s /\ s[i + 1].kind \in {"generator", "hook"} /\ i \in Nat
      BY <1>1, <2>2
    <3>2. i + 1 + 1 \in DOMAIN s
      BY <1>3, <3>1 DEF Stacked
    <3> QED
      BY SMTT(60), <1>1, <3>1, <3>2
  <2>3. ASSUME NEW i \in DOMAIN t, i + 1 \in DOMAIN t
        PROVE  /\ t[i].kind = "generator" <=> t[i + 1].kind = "resumeNext"
               /\ t[i].kind = "hook" => t[i + 1].kind = "combine"
    <3>1. i + 1 \in DOMAIN s /\ i + 1 + 1 \in DOMAIN s /\ t[i] = s[i + 1] /\ t[i + 1] = s[i + 1 + 1]
      BY <1>1, <2>3
    <3> QED
      BY <1>3, <3>1 DEF Stacked
  <2> QED
    BY <2>1, <2>2, <2>3 DEF Stacked
<1>4. ASSUME Stacked(s), NEW g \in InProgress(t) PROVE ~Alike(Head(s), g)
  <2>1. PICK i \in DOMAIN t : g = t[i]
    BY DEF InProgress
  <2>2. i + 1 \in DOMAIN s /\ g = s[i + 1] /\ i + 1 # 1
    BY <1>1, <2>1
  <2> QED
    BY <1>1, <1>4, <2>2 DEF Stacked
<1>5. ASSUME Stacked(s), Head(s).kind \in {"generator", "hook"}
      PROVE  t # <<>> /\ (Head(s).kind = "generator" => Head(t).kind = "resumeNext")
             /\ (Head(s).kind = "hook" => Head(t).kind = "combine")
  <2>1. 1 + 1 \in DOMAIN s
    BY <1>1, <1>5 DEF Stacked
  <2>2. (s[1].kind = "generator" <=> s[1 + 1].kind = "resumeNext") /\ (s[1].kind = "hook" => s[1 + 1].kind = "combine")
    BY <1>1, <1>5, <2>1 DEF Stacked
  <2> QED
    BY <1>1, <2>1, <2>2
<1> QED
  BY <1>1, <1>2, <1>3, <1>4, <1>5

\* The rest of a sequence, as SubSeq says it.
LEMMA Rest ==
  ASSUME NEW F, NEW s \in Seq(F), s # <<>>
  PROVE  /\ SubSeq(s, 1 + 1, Len(s)) = Tail(s)
         /\ Tail(s) # <<>> => SubSeq(s, 2 + 1, Len(s)) = Tail(Tail(s)) /\ s[1 + 1] = Head(Tail(s))
  BY SMTT(60)

-----------------------------------------------------------------------------
(* Steps that touch no suspended code.                                     *)

Common == {"settler", "callback", "finally", "combine", "hook"}

StackStep ==
  \/ stack' = stack
  \/ \E f \in Frame(comb') :
       /\ stack' = <<f>> \o stack /\ f.kind \in Common /\ FrameIn(f, Made(eng'))
       /\ f.kind = "combine" => comb = NoCombinator
       /\ stack = <<>> => f.kind # "hook"
       /\ stack # <<>> => Head(stack).kind # "resumeNext" /\ (f.kind = "hook" => Head(stack).kind = "combine")
  \/ stack # <<>> /\ Head(stack).kind \in Common /\ stack' = Tail(stack)
  \/ stack # <<>> /\ Head(stack).kind = "hook" /\ stack' = Tail(Tail(stack))

\* What a step does besides the engine, the stack, the activations and the generator.
Elsewhere ==
  /\ held' \subseteq held \cup Promise \cup Made(eng')
  /\ LogTyped' /\ ScriptTyped'
  /\ comb' \in {NoCombinator} \cup Combinator
  /\ comb = NoCombinator \/ comb' # NoCombinator
  /\ comb' # NoCombinator => comb'.cap \in Made(eng')

Ordinary ==
  /\ Moves(eng, eng', comb')
  /\ act' = act /\ gen' = gen
  /\ StackStep
  /\ Elsewhere

\* The frames of suspended code stay where they are.
LEMMA CommonStack ==
  ASSUME stack \in Seq(Frame(comb)), Stacked(stack), StackStep, comb = NoCombinator \/ comb' # NoCombinator
  PROVE  /\ stack' \in Seq(Frame(comb')) /\ Stacked(stack')
         /\ \A f : f.kind \notin Common => (f \in InProgress(stack') <=> f \in InProgress(stack))
         /\ \A f \in InProgress(stack') : f \in InProgress(stack) \/ FrameIn(f, Made(eng'))
<1>1. stack \in Seq(Frame(comb'))
  <2>1. Frame(comb) \subseteq Frame(comb')
    BY CombinatorAdds
  <2> QED
    BY <2>1, SeqMonotonic
<1>2. CASE stack' = stack
  BY <1>1, <1>2
<1>3. ASSUME NEW f \in Frame(comb'), stack' = <<f>> \o stack, f.kind \in Common, FrameIn(f, Made(eng')),
             f.kind = "combine" => comb = NoCombinator, stack = <<>> => f.kind # "hook",
             stack # <<>> => Head(stack).kind # "resumeNext" /\ (f.kind = "hook" => Head(stack).kind = "combine")
      PROVE  /\ stack' \in Seq(Frame(comb')) /\ Stacked(stack')
             /\ InProgress(stack') = InProgress(stack) \cup {f}
  <2>1. f.kind \notin {"async", "resumeNext", "generator"}
    BY <1>3 DEF Common
  <2>2. MayStand(f, stack)
    <3>1. ASSUME NEW g \in InProgress(stack), g.kind = "combine" PROVE comb # NoCombinator
      <4>1. g \in Frame(comb)
        BY DEF InProgress
      <4> QED
        BY <3>1, <4>1 DEF Frame, GeneratorBody
    <3> QED
      BY <1>3, <2>1, <3>1 DEF Alike, MayStand
  <2>3. stack \in Seq(Frame(comb')) /\ f \in Frame(comb')
    BY <1>1
  <2>4. <<f>> \o stack \in Seq(Frame(comb')) /\ InProgress(<<f>> \o stack) = InProgress(stack) \cup {f}
    BY <2>3, PushFrame
  <2>5. Stacked(<<f>> \o stack)
    BY <2>2, <2>3, PushStacked
  <2> QED
    BY <1>3, <2>4, <2>5
<1>4. CASE stack # <<>> /\ Head(stack).kind \in Common /\ stack' = Tail(stack)
  <2>1. stack' \in Seq(Frame(comb')) /\ InProgress(stack) = InProgress(stack') \cup {Head(stack)} /\ Stacked(stack')
    BY <1>1, <1>4, Drop
  <2> QED
    BY <1>4, <2>1
<1>5. CASE stack # <<>> /\ Head(stack).kind = "hook" /\ stack' = Tail(Tail(stack))
  <2> DEFINE s == Tail(stack)
  <2>1. /\ s \in Seq(Frame(comb')) /\ InProgress(stack) = InProgress(s) \cup {Head(stack)} /\ Stacked(s)
        /\ s # <<>> /\ Head(s).kind = "combine"
    BY <1>1, <1>5, Drop
  <2> HIDE DEF s
  <2>2. stack' = Tail(s)
    BY <1>5 DEF s
  <2>3. stack' \in Seq(Frame(comb')) /\ InProgress(s) = InProgress(stack') \cup {Head(s)} /\ Stacked(stack')
    BY <2>1, <2>2, Drop
  <2> QED
    BY <1>5, <2>1, <2>3 DEF Common
<1> QED
  BY <1>2, <1>3, <1>4, <1>5 DEF StackStep

\* What is referred to was made.
LEMMA StillReferred ==
  ASSUME NEW S, NEW T, S \subseteq T, Referred(S), held' \subseteq held \cup Promise \cup T,
         \A f \in InProgress(stack') : f \in InProgress(stack) \/ FrameIn(f, T),
         \A a \in Activation : act'[a].cap = act[a].cap \/ CapIn(act'[a].cap, T),
         \A i \in DOMAIN gen'.queue : gen'.queue[i].pair \in T,
         comb' # NoCombinator => comb'.cap \in T
  PROVE  Referred(T)'
<1>1. \A f : FrameIn(f, S) => FrameIn(f, T)
  BY DEF FrameIn, CapIn
<1>2. \A cap : CapIn(cap, S) => CapIn(cap, T)
  BY DEF CapIn
<1>3. held' \ Promise \subseteq T
  BY DEF Referred
<1>4. \A f \in InProgress(stack') : FrameIn(f, T)
  BY <1>1 DEF Referred
<1>5. \A a \in Activation : CapIn(act'[a].cap, T)
  BY <1>2 DEF Referred
<1> QED
  BY <1>3, <1>4, <1>5 DEF Referred

\* An activation that a step does not touch.
LEMMA StillActivated ==
  ASSUME NEW a \in Activation, Activated(a), Keeps(eng, eng', Resume(a)), act'[a] = act[a],
         \A f : f.kind = "async" /\ f.of = a => (f \in InProgress(stack') <=> f \in InProgress(stack))
  PROVE  Activated(a)'
<1>1. (\E f \in InProgress(stack') : f.kind = "async" /\ f.of = a) <=> act'[a].state = "running"
  BY DEF Activated
<1>2. Alone(eng', Resume(a)) /\ (Expects(eng', Resume(a)) <=> act'[a].state = "awaiting")
  BY DEF Activated, Keeps
<1>3. act'[a].state = "awaiting" => act'[a].on \in Promise /\ CalledFor(eng', Resume(a), act'[a].on)
  BY DEF Activated, Keeps
<1> QED
  BY <1>1, <1>2, <1>3 DEF Activated

\* A body knows an outcome, which stays.
LEMMA StillInformed ==
  ASSUME NEW f, Informed(f), NEW c, Evolves(eng, eng', c), act'[f.of].on = act[f.of].on
  PROVE  Informed(f)'
<1> SUFFICES ASSUME f.kind = "async", f.got # None
             PROVE  LET p == act'[f.of].on IN p \in Promise /\ Settled(eng', p) /\ f.got = Outcome(eng', p)
  BY DEF Informed
<1> DEFINE p == act[f.of].on
<1>1. p \in Promise /\ Settled(eng, p) /\ f.got = Outcome(eng, p) /\ act'[f.of].on = p
  BY DEF Informed
<1>2. Outcome(eng', p) = Outcome(eng, p)
  BY <1>1 DEF Evolves, Grows
<1>3. Settled(eng', p)
  BY <1>1, <1>2 DEF Outcome, Settled
<1> QED
  BY <1>1, <1>2, <1>3

\* A generator that a step does not touch, though it may ask it more.
LEMMA StillGenerating ==
  ASSUME Generating, Keeps(eng, eng', Continued), Keeps(eng, eng', Returned),
         gen'.state = gen.state, gen'.queue = gen.queue \/ gen'.queue # <<>>,
         \A f : f.kind \in {"resumeNext", "generator"} => (f \in InProgress(stack') <=> f \in InProgress(stack))
  PROVE  Generating'
<1>1. Alone(eng', Continued) /\ (Expects(eng', Continued) <=> Expects(eng, Continued))
  BY DEF Generating, Keeps
<1>2. Alone(eng', Returned) /\ (Expects(eng', Returned) <=> Expects(eng, Returned))
  BY DEF Generating, Keeps
<1>3. (\A f \in InProgress(stack') : f.kind # "resumeNext") <=> (\A f \in InProgress(stack) : f.kind # "resumeNext")
  OBVIOUS
<1>4. (\E f \in InProgress(stack') : f.kind = "generator") => (\E f \in InProgress(stack) : f.kind = "generator")
  OBVIOUS
<1> QED
  BY <1>1, <1>2, <1>3, <1>4 DEF Generating

\* An ordinary step keeps the invariant.
LEMMA OrdinaryKeeps ==
  ASSUME Base, Ordinary
  PROVE  Base' /\ Grows(eng, eng')
<1>1. /\ TypeOK /\ Good(eng, Handler(comb), Val) /\ Referred(Made(eng)) /\ Stacked(stack)
      /\ (\A a \in Activation : Activated(a)) /\ (\A f \in InProgress(stack) : Informed(f)) /\ Generating
  BY DEF Base
<1>2. /\ Moves(eng, eng', comb') /\ act' = act /\ gen' = gen /\ StackStep /\ Elsewhere
  BY DEF Ordinary
<1>3. Evolves(eng, eng', comb') /\ Made(eng) \subseteq Made(eng')
  BY <1>1, <1>2, EvolvesMade DEF Moves
<1>4. /\ stack' \in Seq(Frame(comb')) /\ Stacked(stack')
      /\ \A f : f.kind \notin Common => (f \in InProgress(stack') <=> f \in InProgress(stack))
      /\ \A f \in InProgress(stack') : f \in InProgress(stack) \/ FrameIn(f, Made(eng'))
  BY <1>1, <1>2, CommonStack DEF TypeOK, Elsewhere
<1>5. TypeOK'
  BY <1>1, <1>2, <1>4 DEF TypeOK, Elsewhere, LogTyped, ScriptTyped, Made
<1>6. Referred(Made(eng))'
  <2>1. \A i \in DOMAIN gen'.queue : gen'.queue[i].pair \in Made(eng')
    BY <1>1, <1>2, <1>3 DEF Referred
  <2> QED
    BY <1>1, <1>2, <1>3, <1>4, <2>1, StillReferred DEF Elsewhere
<1>7. ASSUME NEW a \in Activation PROVE Activated(a)'
  <2>1. Keeps(eng, eng', Resume(a))
    BY <1>2 DEF Moves, Control
  <2> QED
    BY <1>1, <1>2, <1>4, <2>1, StillActivated DEF Common
<1>8. ASSUME NEW f \in InProgress(stack') PROVE Informed(f)'
  <2>1. CASE f.kind = "async"
    <3>1. Informed(f) /\ act'[f.of].on = act[f.of].on
      BY <1>1, <1>2, <1>4, <2>1 DEF Common
    <3> QED
      BY <1>3, <3>1, StillInformed
  <2>2. CASE f.kind # "async"
    BY <2>2 DEF Informed
  <2> QED
    BY <2>1, <2>2
<1>9. Generating'
  <2>1. Keeps(eng, eng', Continued) /\ Keeps(eng, eng', Returned)
    BY <1>2 DEF Moves, Control
  <2> QED
    BY <1>1, <1>2, <1>4, <2>1, StillGenerating DEF Common
<1> QED
  BY <1>3, <1>4, <1>5, <1>6, <1>7, <1>8, <1>9 DEF Base, Evolves

-----------------------------------------------------------------------------
(* Promises.                                                               *)

\* What the invariant says of the engine and of what scripts hold.
LEMMA Known ==
  ASSUME Base
  PROVE  /\ Good(eng, Handler(comb), Val)
         /\ held \subseteq Promise \cup Made(eng) /\ HeldValue \subseteq Value /\ Value \subseteq Val
         /\ \A f \in InProgress(stack) : FrameIn(f, Made(eng))
         /\ stack \in Seq(Frame(comb))
         /\ stack # <<>> => Head(stack) \in InProgress(stack) /\ Head(stack) \in Frame(comb)
         /\ LogTyped /\ ScriptTyped
<1>1. held \subseteq Promise \cup Made(eng) /\ HeldValue \subseteq Value /\ Value \subseteq Val
  BY DEF Base, TypeOK, ScriptTyped, Referred, HeldValue, Value, Val
<1>2. stack \in Seq(Frame(comb))
  BY DEF Base, TypeOK
<1>3. stack # <<>> => Head(stack) \in InProgress(stack) /\ Head(stack) \in Frame(comb)
  BY <1>2 DEF InProgress
<1> QED
  BY <1>1, <1>2, <1>3 DEF Base, TypeOK, Referred, LogTyped, ScriptTyped

\* A script's budget is not a part of what it does.
LEMMA DoesTyped ==
  ASSUME ScriptTyped, script' = script \/ \E op : Does(op)
  PROVE  ScriptTyped'
BY DEF ScriptTyped, Does

\* A step of the promises alone.
LEMMA PromiseStep ==
  ASSUME Base, UNCHANGED <<comb, cvars>>, Moves(eng, eng', comb), StackStep,
         held' \subseteq held \cup Promise \cup Made(eng'), LogTyped', ScriptTyped'
  PROVE  Base' /\ Grows(eng, eng')
<1>1. Made(eng) \subseteq Made(eng')
  BY EvolvesMade DEF Base, Moves
<1>2. Elsewhere
  BY <1>1 DEF Elsewhere, Base, TypeOK, Referred
<1>3. Ordinary
  BY <1>2 DEF Ordinary, cvars
<1> QED
  BY <1>3, OrdinaryKeeps

\* The operations of scripts.
LEMMA ScriptKeeps ==
  ASSUME Base, Script, UNCHANGED <<comb, cvars>>
  PROVE  Base' /\ Grows(eng, eng')
<1>1. /\ Good(eng, Handler(comb), Val)
      /\ held \subseteq Promise \cup Made(eng) /\ HeldValue \subseteq Val
      /\ LogTyped /\ ScriptTyped
  BY Known
<1>2. ScriptRuns => (stack # <<>> => Head(stack).kind # "resumeNext")
  BY DEF ScriptRuns, ScriptFrames
<1> DEFINE p == New(eng)
           d == Create(eng)
<1>3. Fresh(eng) # {} => /\ Moves(eng, d, comb) /\ Good(d, Handler(comb), Val)
                         /\ p \in Promise /\ Cap(p) \in Made(d) /\ Cap(p) \in Pair /\ Cap(p) # None
  <2>1. Fresh(eng) # {} => /\ Moves(eng, d, comb) /\ Good(d, Handler(comb), Val)
                           /\ p \in Promise /\ Cap(p) \in Made(d)
    BY <1>1, CreateMoves
  <2> QED
    BY <2>1, PromisesAssumption DEF Made
<1>4. ASSUME NEW op, Does(op) PROVE ScriptTyped' /\ ScriptRuns
  BY <1>1, <1>4, DoesTyped DEF Does
<1>5. CASE Construct
  <2> DEFINE f == [kind |-> "settler", pair |-> Cap(p)]
  <2>1. Moves(eng, eng', comb) /\ held' \subseteq held \cup Promise \cup Made(eng') /\ LogTyped' /\ ScriptTyped' /\ ScriptRuns
    BY <1>1, <1>3, <1>4, <1>5 DEF Construct, LogTyped
  <2>2. f \in Frame(comb') /\ stack' = <<f>> \o stack /\ FrameIn(f, Made(eng'))
    BY <1>3, <1>5 DEF Construct, Frame, FrameIn
  <2>3. f.kind \in Common /\ f.kind \notin {"combine", "hook", "generator"}
    BY DEF Common
  <2>4. StackStep
    BY <1>2, <2>1, <2>2, <2>3 DEF StackStep
  <2> QED
    BY <2>1, <2>4, PromiseStep
<1>6. CASE WithResolvers
  <2>1. Moves(eng, eng', comb) /\ held' \subseteq held \cup Promise \cup Made(eng') /\ LogTyped' /\ ScriptTyped' /\ StackStep
    BY <1>1, <1>3, <1>4, <1>6 DEF WithResolvers, LogTyped, StackStep
  <2> QED
    BY <2>1, PromiseStep
<1>7. CASE Try
  <2> DEFINE f == [kind |-> "callback", cap |-> Cap(p)]
  <2>1. Moves(eng, eng', comb) /\ held' \subseteq held \cup Promise \cup Made(eng') /\ LogTyped' /\ ScriptTyped' /\ ScriptRuns
    BY <1>1, <1>3, <1>4, <1>7 DEF Try, LogTyped
  <2>2. f \in Frame(comb') /\ stack' = <<f>> \o stack /\ FrameIn(f, Made(eng'))
    BY <1>3, <1>7 DEF Try, Frame, FrameIn, CapIn
  <2>3. f.kind \in Common /\ f.kind \notin {"combine", "hook", "generator"}
    BY DEF Common
  <2>4. StackStep
    BY <1>2, <2>1, <2>2, <2>3 DEF StackStep
  <2> QED
    BY <2>1, <2>4, PromiseStep
<1>8. ASSUME NEW how \in How, NEW v \in HeldValue, MakeSettled(how, v) PROVE Base' /\ Grows(eng, eng')
  <2>1. eng' = ResolvingCall(d, Cap(p), how, v) /\ v \in Val /\ Fresh(eng) # {}
    BY <1>1, <1>8 DEF MakeSettled
  <2>2. Moves(d, eng', comb) /\ Good(eng', Handler(comb), Val)
    BY <1>3, <2>1, CallMoves
  <2>3. Moves(eng, eng', comb)
    BY <1>1, <1>3, <2>1, <2>2, MovesTransitive
  <2>4. held' \subseteq held \cup Promise \cup Made(eng') /\ LogTyped' /\ ScriptTyped' /\ StackStep
    BY <1>1, <1>3, <1>4, <1>8, <2>1 DEF MakeSettled, LogTyped, StackStep
  <2> QED
    BY <2>3, <2>4, PromiseStep
<1>9. ASSUME NEW pair \in held \ Promise, NEW how \in How, NEW v \in HeldValue, CallResolving(pair, how, v)
      PROVE  Base' /\ Grows(eng, eng')
  <2>1. eng' = ResolvingCall(eng, pair, how, v) /\ v \in Val /\ pair \in Made(eng)
    BY <1>1, <1>9 DEF CallResolving
  <2>2. Moves(eng, eng', comb)
    BY <1>1, <2>1, CallMoves
  <2>3. held' \subseteq held \cup Promise \cup Made(eng') /\ LogTyped' /\ ScriptTyped' /\ StackStep
    BY <1>1, <1>4, <1>9 DEF CallResolving, LogTyped, StackStep
  <2> QED
    BY <2>2, <2>3, PromiseStep
<1>10. ASSUME NEW o \in held \cap Promise, NEW sides \in SUBSET How, NEW fn \in {"callback", "finally"}, Register(o, sides, fn)
       PROVE  Base' /\ Grows(eng, eng')
  <2> DEFINE on == [how \in How |-> IF how \in sides THEN Callback(fn, Len(log.registered) + 1) ELSE Undefined]
  <2>1. eng' = Then(d, o, on, Cap(p)) /\ Fresh(eng) # {}
    BY <1>10 DEF Register
  <2>2. Len(log.registered) + 1 \in Nat
    BY <1>1 DEF LogTyped
  <2>3. Callback(fn, Len(log.registered) + 1) \in Handler(comb) \ Control /\ Undefined \in Handler(comb) \ Control
    BY <2>2 DEF Callback, Handler, Undefined, Control, Resume, Continued, Returned
  <2>4. Callback(fn, Len(log.registered) + 1).fn # "settle" /\ Undefined.fn # "settle"
    BY DEF Callback, Undefined
  <2>5. on \in [How -> Handler(comb)] /\ (\A how \in How : on[how] \notin Control) /\ \A how \in How : on[how].fn # "settle"
    BY <2>3, <2>4
  <2> HIDE DEF on, d, p
  <2>6. Cap(p) \in Capability /\ ReactionIn([on |-> on, cap |-> Cap(p)], Made(d))
    BY <1>3, <2>1, <2>5 DEF Capability, ReactionIn, CapIn, HandlerIn
  <2>7. Moves(d, eng', comb) /\ Good(eng', Handler(comb), Val)
    BY <1>3, <2>1, <2>5, <2>6, ThenMoves
  <2>8. Moves(eng, eng', comb)
    BY <1>1, <1>3, <2>1, <2>7, MovesTransitive
  <2>9. held' \subseteq held \cup Promise \cup Made(eng') /\ ScriptTyped' /\ StackStep
    BY <1>3, <1>4, <1>10, <2>1 DEF Register, StackStep, p
  <2>10. LogTyped'
    <3> DEFINE R == [on : Promise, sides : SUBSET How, derived : Promise, fn : {"callback", "finally"}]
               r == [on |-> o, sides |-> sides, derived |-> p, fn |-> fn]
    <3>1. r \in R /\ log.registered \in Seq(R)
      BY <1>1, <1>3, <1>10, <2>1 DEF LogTyped
    <3>2. log' = [log EXCEPT !.registered = Append(@, r)]
      BY <1>10 DEF Register, p
    <3> HIDE DEF R, r
    <3>3. Append(log.registered, r) \in Seq(R)
      BY <3>1
    <3> QED
      BY <1>1, <3>2, <3>3 DEF LogTyped, R
  <2> QED
    BY <2>8, <2>9, <2>10, PromiseStep
<1>11. ASSUME NEW o \in held \cap Promise, NEW sides \in SUBSET How, CallThen(o, sides) PROVE Base' /\ Grows(eng, eng')
  BY <1>10, <1>11 DEF CallThen
<1>12. ASSUME NEW o \in held \cap Promise, CallFinally(o) PROVE Base' /\ Grows(eng, eng')
  BY <1>10, <1>12 DEF CallFinally
<1> QED
  BY <1>5, <1>6, <1>7, <1>8, <1>9, <1>11, <1>12 DEF Script

\* A finally callback that failed is noted.
LEMMA OddTyped ==
  ASSUME LogTyped, NEW id \in Nat, log' = log \/ log' = Odd(id)
  PROVE  LogTyped'
<1>1. CASE log' = Odd(id)
  <2>1. log' = [registered |-> log.registered, ran |-> log.ran, odd |-> log.odd \cup {id}]
    BY <1>1 DEF LogTyped, Odd
  <2>2. log.odd \cup {id} \in SUBSET Nat
    BY DEF LogTyped
  <2> QED
    BY <2>1, <2>2 DEF LogTyped
<1> QED
  BY <1>1 DEF LogTyped

\* The ends of the functions of scripts.
LEMMA ScriptEndsKeeps ==
  ASSUME Base, ScriptEnds, UNCHANGED <<comb, cvars>>
  PROVE  Base' /\ Grows(eng, eng')
<1>1. /\ Good(eng, Handler(comb), Val)
      /\ HeldValue \subseteq Val /\ LogTyped /\ ScriptTyped
      /\ \A f \in InProgress(stack) : FrameIn(f, Made(eng))
      /\ stack # <<>> => Head(stack) \in InProgress(stack) /\ Head(stack) \in Frame(comb)
  BY Known
<1> DEFINE f == Head(stack)
<1>2. ASSUME NEW kind \in Common, Top(kind), Pop PROVE StackStep /\ f \in Frame(comb) /\ FrameIn(f, Made(eng))
  BY <1>1, <1>2 DEF Top, Pop, StackStep
<1>3. ASSUME NEW v \in HeldValue, NEW how \in How, CallbackEnds(how, v) PROVE Base' /\ Grows(eng, eng')
  <2>1. StackStep /\ CapIn(f.cap, Made(eng)) /\ v \in Val
    BY <1>1, <1>2, <1>3 DEF CallbackEnds, FrameIn, Top, Common
  <2>2. Moves(eng, eng', comb)
    BY <1>1, <1>3, <2>1, FinishMoves DEF CallbackEnds
  <2>3. held' \subseteq held \cup Promise \cup Made(eng') /\ LogTyped' /\ ScriptTyped'
    BY <1>1, <1>3 DEF CallbackEnds, LogTyped, ScriptTyped
  <2> QED
    BY <2>1, <2>2, <2>3, PromiseStep
<1>4. ASSUME NEW v \in HeldValue, NEW how \in How, SettlerEnds(how, v) PROVE Base' /\ Grows(eng, eng')
  <2>1. StackStep /\ f.pair \in Made(eng) /\ v \in Val
    BY <1>1, <1>2, <1>4 DEF SettlerEnds, FrameIn, Top, Common
  <2>2. "rejected" \in How
    BY DEF How
  <2>3. Moves(eng, ResolvingCall(eng, f.pair, "rejected", v), comb) /\ Moves(eng, eng, comb)
    BY <1>1, <2>1, <2>2, CallMoves, MovesTransitive
  <2>4. Moves(eng, eng', comb)
    BY <1>4, <2>3 DEF SettlerEnds
  <2>5. held' \subseteq held \cup Promise \cup Made(eng') /\ LogTyped' /\ ScriptTyped'
    BY <1>1, <1>4 DEF SettlerEnds, LogTyped, ScriptTyped
  <2> QED
    BY <2>1, <2>4, <2>5, PromiseStep
<1>5. ASSUME Top("finally") PROVE f.id \in Nat /\ f.how \in How /\ f.arg \in Val
  <2>1. f \in Frame(comb) /\ f.kind = "finally"
    BY <1>1, <1>5 DEF Top
  <2> HIDE DEF f
  <2>2. f \in [kind : {"callback", "finally"}, id : Nat, cap : Capability, how : How, arg : Val]
    BY <2>1 DEF Frame, GeneratorBody
  <2> QED
    BY <2>2
<1>6. ASSUME NEW v \in HeldValue, FinallyReturns(v) PROVE Base' /\ Grows(eng, eng')
  <2> DEFINE d == Wrap(eng, v)
             p == Wrapped(eng, v)
             b == Create(d)
             on == [how \in How |-> IF how = "fulfilled" THEN Thunk(f.how, f.arg) ELSE Undefined]
             c == Then(b, p, on, Cap(New(d)))
  <2>1. /\ StackStep /\ CapIn(f.cap, Made(eng)) /\ v \in Val /\ Fresh(d) # {} /\ (v \notin Promise => Fresh(eng) # {})
        /\ f.how \in How /\ f.arg \in Val
    BY <1>1, <1>2, <1>5, <1>6 DEF FinallyReturns, FrameIn, Top, Common
  <2>2. Moves(eng, d, comb) /\ Good(d, Handler(comb), Val) /\ p \in Promise
    BY <1>1, <2>1, WrapMoves
  <2>3. Moves(d, b, comb) /\ Good(b, Handler(comb), Val) /\ New(d) \in Promise /\ Cap(New(d)) \in Made(b)
    BY <2>1, <2>2, CreateMoves
  <2>4. Thunk(f.how, f.arg) \in Handler(comb) \ Control /\ Undefined \in Handler(comb) \ Control
    BY <2>1 DEF Thunk, Handler, Undefined, Control, Resume, Continued, Returned
  <2>5. Thunk(f.how, f.arg).fn # "settle" /\ Undefined.fn # "settle"
    BY DEF Thunk, Undefined
  <2>6. on \in [How -> Handler(comb)] /\ (\A how \in How : on[how] \notin Control) /\ \A how \in How : on[how].fn # "settle"
    BY <2>4, <2>5
  <2>7. eng' = Finish(c, f.cap, "fulfilled", New(d)) /\ New(d) \in Val /\ "fulfilled" \in How
    BY <1>6, <2>3 DEF FinallyReturns, AfterFinally, Val, Value, How
  <2> HIDE DEF on, b, d, p
  <2>8. Cap(New(d)) \in Capability /\ ReactionIn([on |-> on, cap |-> Cap(New(d))], Made(b))
    BY <2>3, <2>6 DEF Made, Capability, ReactionIn, CapIn, HandlerIn
  <2>9. Moves(b, c, comb) /\ Good(c, Handler(comb), Val)
    BY <2>2, <2>3, <2>6, <2>8, ThenMoves
  <2> HIDE DEF c
  <2>10. Moves(eng, b, comb)
    BY <1>1, <2>2, <2>3, MovesTransitive
  <2>11. Moves(eng, c, comb)
    BY <1>1, <2>3, <2>9, <2>10, MovesTransitive
  <2>12. CapIn(f.cap, Made(c))
    <3>1. Made(eng) \subseteq Made(c)
      BY <1>1, <2>11, EvolvesMade DEF Moves
    <3> QED
      BY <2>1, <3>1 DEF CapIn
  <2>13. Moves(c, eng', comb)
    BY <2>7, <2>9, <2>12, FinishMoves
  <2>14. Moves(eng, eng', comb)
    BY <1>1, <2>9, <2>11, <2>13, MovesTransitive
  <2>15. held' \subseteq held \cup Promise \cup Made(eng') /\ LogTyped' /\ ScriptTyped'
    BY <1>1, <1>5, <1>6, OddTyped DEF FinallyReturns, ScriptTyped
  <2> QED
    BY <2>1, <2>14, <2>15, PromiseStep
<1>7. ASSUME NEW v \in HeldValue, FinallyThrows(v) PROVE Base' /\ Grows(eng, eng')
  <2>1. StackStep /\ CapIn(f.cap, Made(eng)) /\ v \in Val
    BY <1>1, <1>2, <1>7 DEF FinallyThrows, FrameIn, Top, Common
  <2>2. "rejected" \in How
    BY DEF How
  <2>3. Moves(eng, eng', comb)
    BY <1>1, <1>7, <2>1, <2>2, FinishMoves DEF FinallyThrows
  <2>4. held' \subseteq held \cup Promise \cup Made(eng') /\ LogTyped' /\ ScriptTyped'
    BY <1>1, <1>5, <1>7, OddTyped DEF FinallyThrows, ScriptTyped
  <2> QED
    BY <2>1, <2>3, <2>4, PromiseStep
<1> QED
  BY <1>3, <1>4, <1>6, <1>7 DEF ScriptEnds

\* The first job, if it is the job of a reaction with a handler that is not suspended code.
LEMMA JobKnown ==
  ASSUME Base, JobRuns("reaction")
  PROVE  /\ Evolves(eng, Popped, comb) /\ Good(Popped, Handler(comb), Val)
         /\ Job \in ReactionJobs(Handler(comb), Val)
         /\ CapIn(Job.cap, Made(Popped)) /\ HandlerIn(Job.handler, Made(Popped))
         /\ \A h \in Control : h # Job.handler => Keeps(eng, Popped, h)
         /\ Job.handler.fn \notin {"resume", "continue", "returned"} => Moves(eng, Popped, comb)
<1>1. Good(eng, Handler(comb), Val) /\ eng.jobs # <<>> /\ Head(eng.jobs).kind = "reaction"
  BY Known DEF JobRuns, Job
<1>2. Job.handler.fn \notin {"resume", "continue", "returned"} => Job.handler \notin Control
  BY DEF Control, Resume, Continued, Returned
<1>3. /\ Evolves(eng, Popped, comb) /\ Good(Popped, Handler(comb), Val)
      /\ Job \in ReactionJobs(Handler(comb), Val)
      /\ CapIn(Job.cap, Made(Popped)) /\ HandlerIn(Job.handler, Made(Popped))
  BY <1>1, PopMoves DEF Popped, Job
<1>4. \A h \in Control : h # Job.handler => Keeps(eng, Popped, h)
  BY <1>1, PopMoves DEF Popped, Job
<1>5. Job.handler \notin Control => Moves(eng, Popped, comb)
  BY <1>1, PopMoves DEF Popped, Job
<1> QED
  BY <1>2, <1>3, <1>4, <1>5

\* Jobs.
LEMMA RunJobKeeps ==
  ASSUME Base, RunJob, UNCHANGED <<comb, cvars>>
  PROVE  Base' /\ Grows(eng, eng')
<1>1. Good(eng, Handler(comb), Val) /\ LogTyped /\ ScriptTyped
  BY Known
<1> DEFINE d == Popped
<1>2. ASSUME NEW fn, fn \notin {"resume", "continue", "returned"}, Reacts(fn)
      PROVE  /\ Moves(eng, d, comb) /\ Good(d, Handler(comb), Val) /\ stack = <<>>
             /\ CapIn(Job.cap, Made(d)) /\ HandlerIn(Job.handler, Made(d))
             /\ Job.how \in How /\ Job.arg \in Val /\ Job.handler \in Handler(comb) /\ Job.cap \in Capability
             /\ Job.handler.fn = fn
  BY <1>2, JobKnown DEF Reacts, JobRuns, ReactionJobs
<1> HIDE DEF d
<1>3. CASE PassOn
  <2>1. Moves(d, eng', comb) /\ Moves(eng, d, comb) /\ Good(d, Handler(comb), Val)
    BY <1>2, <1>3, FinishMoves DEF PassOn, d
  <2>2. Moves(eng, eng', comb)
    BY <1>1, <2>1, MovesTransitive
  <2>3. held' \subseteq held \cup Promise \cup Made(eng') /\ LogTyped' /\ ScriptTyped' /\ StackStep
    BY <1>1, <1>3 DEF PassOn, LogTyped, ScriptTyped, StackStep
  <2> QED
    BY <2>2, <2>3, PromiseStep
<1>4. CASE RunSettler
  <2>1. /\ Moves(eng, d, comb) /\ Good(d, Handler(comb), Val) /\ HandlerIn(Job.handler, Made(d))
        /\ Job.arg \in Val /\ Job.handler \in Handler(comb) /\ Job.handler.fn = "settle"
        /\ eng' = ResolvingCall(d, Job.handler.pair, Job.handler.how, Job.arg)
    BY <1>2, <1>4 DEF RunSettler, d
  <2>2. Job.handler.pair \in Made(d) /\ Job.handler.how \in How
    BY <2>1 DEF HandlerIn, Handler, Undefined, Resume, Continued, Returned
  <2>3. Moves(d, eng', comb)
    BY <2>1, <2>2, CallMoves
  <2>4. Moves(eng, eng', comb)
    BY <1>1, <2>1, <2>3, MovesTransitive
  <2>5. held' \subseteq held \cup Promise \cup Made(eng') /\ LogTyped' /\ ScriptTyped' /\ StackStep
    BY <1>1, <1>4 DEF RunSettler, LogTyped, ScriptTyped, StackStep
  <2> QED
    BY <2>4, <2>5, PromiseStep
<1>5. CASE RunThunk
  <2>1. /\ Moves(eng, d, comb) /\ Good(d, Handler(comb), Val) /\ CapIn(Job.cap, Made(d))
        /\ Job.handler \in Handler(comb) /\ Job.handler.fn = "thunk"
        /\ eng' = Finish(d, Job.cap, Job.handler.how, Job.handler.arg)
    BY <1>2, <1>5 DEF RunThunk, d
  <2>2. Job.handler.how \in How /\ Job.handler.arg \in Val
    BY <2>1 DEF Handler, Undefined, Resume, Continued, Returned
  <2>3. Moves(d, eng', comb)
    BY <2>1, <2>2, FinishMoves
  <2>4. Moves(eng, eng', comb)
    BY <1>1, <2>1, <2>3, MovesTransitive
  <2>5. held' \subseteq held \cup Promise \cup Made(eng') /\ LogTyped' /\ ScriptTyped' /\ StackStep
    BY <1>1, <1>5 DEF RunThunk, LogTyped, ScriptTyped, StackStep
  <2> QED
    BY <2>4, <2>5, PromiseStep
<1>6. CASE RunCallback
  <2> DEFINE f == [kind |-> Job.handler.fn, id |-> Job.handler.id, cap |-> Job.cap, how |-> Job.how, arg |-> Job.arg]
  <2>1. /\ Moves(eng, d, comb) /\ CapIn(Job.cap, Made(d)) /\ stack = <<>> /\ Job.how \in How /\ Job.arg \in Val
        /\ Job.handler \in Handler(comb) /\ Job.handler.fn \in {"callback", "finally"} /\ Job.cap \in Capability
        /\ eng' = d
    BY <1>2, <1>6 DEF RunCallback, d
  <2>2. Job.handler.id \in Nat
    BY <2>1 DEF Handler, Undefined, Resume, Continued, Returned
  <2>3. stack' = <<f>> \o stack
    BY <1>6, <2>1 DEF RunCallback
  <2>4. f \in Frame(comb') /\ FrameIn(f, Made(eng')) /\ f.kind \in {"callback", "finally"}
    BY <2>1, <2>2 DEF Frame, FrameIn
  <2>5. StackStep
    BY <2>1, <2>3, <2>4 DEF StackStep, Common
  <2>6. LogTyped'
    <3> DEFINE r == [id |-> Job.handler.id, how |-> Job.how, arg |-> Job.arg]
    <3>1. r \in [id : Nat, how : How, arg : Val] /\ log' = [log EXCEPT !.ran = Append(@, r)]
      BY <1>6, <2>1, <2>2 DEF RunCallback
    <3> HIDE DEF r
    <3>2. log' = [registered |-> log.registered, ran |-> Append(log.ran, r), odd |-> log.odd]
      BY <1>1, <3>1 DEF LogTyped
    <3>3. Append(log.ran, r) \in Seq([id : Nat, how : How, arg : Val])
      BY <1>1, <3>1 DEF LogTyped
    <3> QED
      BY <1>1, <3>2, <3>3 DEF LogTyped
  <2>7. held' \subseteq held \cup Promise \cup Made(eng') /\ ScriptTyped'
    BY <1>1, <1>6 DEF RunCallback, ScriptTyped
  <2> QED
    BY <2>1, <2>5, <2>6, <2>7, PromiseStep
<1>7. CASE RunThenable
  <2> DEFINE pair == NewPair(eng, Job.promise)
             e == CreateResolvingFunctions(Popped, Job.promise)
  <2>1. Moves(eng, e, comb) /\ Good(e, Handler(comb), Val) /\ Job \in ThenableJobs /\ pair \in Made(e)
    BY <1>1, <1>7, AdoptMoves DEF RunThenable, JobRuns, Job, Popped
  <2>2. LogTyped' /\ ScriptTyped' /\ stack = <<>>
    BY <1>1, <1>7 DEF RunThenable, LogTyped, ScriptTyped, JobRuns
  <2>3. pair \in Pair
    BY <2>1 DEF Made
  <2>4. CASE Job.thenable \in Promise
    <3> DEFINE on == [how \in How |-> Settler(pair, how)]
    <3>1. eng' = Then(e, Job.thenable, on, None) /\ stack' = stack /\ held' = held
      BY <1>7, <2>4 DEF RunThenable
    <3>2. \A how \in How : Settler(pair, how) \in Handler(comb) \ Control /\ Settler(pair, how).pair = pair
      BY <2>3 DEF Settler, Handler, Control, Resume, Continued, Returned
    <3>3. on \in [How -> Handler(comb)] /\ \A how \in How : on[how] \notin Control /\ on[how].pair = pair
      BY <3>2
    <3> HIDE DEF on, e, pair
    <3>4. None \in Capability /\ ReactionIn([on |-> on, cap |-> None], Made(e))
      BY <2>1, <3>3 DEF Capability, ReactionIn, CapIn, HandlerIn
    <3>5. Moves(e, eng', comb)
      BY <2>1, <2>4, <3>1, <3>3, <3>4, ThenMoves
    <3>6. Moves(eng, eng', comb)
      BY <1>1, <2>1, <3>5, MovesTransitive
    <3> QED
      BY <2>2, <3>1, <3>6, PromiseStep DEF StackStep
  <2>5. CASE Job.thenable \notin Promise
    <3> DEFINE f == [kind |-> "settler", pair |-> pair]
    <3>1. eng' = e /\ held' = held \cup {pair} /\ stack' = <<f>> \o stack
      BY <1>7, <2>2, <2>5 DEF RunThenable
    <3>2. f \in Frame(comb') /\ FrameIn(f, Made(eng')) /\ f.kind = "settler"
      BY <2>1, <2>3, <3>1 DEF Frame, FrameIn
    <3> HIDE DEF f
    <3>3. StackStep
      BY <2>2, <3>1, <3>2 DEF StackStep, Common
    <3> QED
      BY <2>1, <2>2, <3>1, <3>3, PromiseStep
  <2> QED
    BY <2>4, <2>5
<1> QED
  BY <1>3, <1>4, <1>5, <1>6, <1>7 DEF RunJob

-----------------------------------------------------------------------------
(* Combinators.                                                            *)

\* A combinator is there when one of its frames or handlers is.
LEMMA CombinatorKnown ==
  ASSUME Base
  PROVE  /\ comb # NoCombinator => comb \in Combinator /\ comb.cap \in Made(eng)
         /\ comb \in Combinator => comb # NoCombinator
         /\ \A kind \in {"combine", "hook"} : Top(kind) => comb # NoCombinator
<1>1. comb # NoCombinator => comb \in Combinator /\ comb.cap \in Made(eng)
  BY DEF Base, TypeOK, Referred
<1>2. comb \in Combinator => comb # NoCombinator
  BY DEF Combinator, NoCombinator, CombinatorKinds
<1>3. ASSUME NEW kind \in {"combine", "hook"}, Top(kind), comb = NoCombinator PROVE FALSE
  <2> DEFINE f == Head(stack)
  <2>1. f \in Frame(comb) /\ f.kind = kind
    BY <1>3, Known DEF Top
  <2> HIDE DEF f
  <2> QED
    BY <1>3, <2>1 DEF Frame, GeneratorBody
<1> QED
  BY <1>1, <1>2, <1>3

\* A step of the combinator.
LEMMA CombinatorStep ==
  ASSUME Base, comb # NoCombinator, comb' \in Combinator, comb'.cap = comb.cap, UNCHANGED cvars,
         Moves(eng, eng', comb), StackStep,
         held' \subseteq held \cup Promise \cup Made(eng'), LogTyped', ScriptTyped'
  PROVE  Base' /\ Grows(eng, eng')
<1>1. comb' # NoCombinator
  BY DEF Combinator, NoCombinator, CombinatorKinds
<1>2. Handler(comb') = Handler(comb)
  BY <1>1 DEF Handler
<1>3. Moves(eng, eng', comb')
  BY <1>2 DEF Moves, Evolves
<1>4. Made(eng) \subseteq Made(eng') /\ comb.cap \in Made(eng)
  BY EvolvesMade, CombinatorKnown DEF Base, Moves
<1>5. Elsewhere
  BY <1>1, <1>4 DEF Elsewhere
<1>6. Ordinary
  BY <1>3, <1>5 DEF Ordinary, cvars
<1> QED
  BY <1>6, OrdinaryKeeps

\* Its count changes.
LEMMA AddRemainingTyped ==
  ASSUME NEW c \in Combinator, NEW n \in Int
  PROVE  AddRemaining(c, n) \in Combinator /\ AddRemaining(c, n).cap = c.cap
<1>1. c.count + n \in Int
  BY DEF Combinator
<1> DEFINE m == c.count + n
<1>2. AddRemaining(c, n) = [c EXCEPT !.count = m]
  BY DEF AddRemaining
<1> HIDE DEF m
<1>3. [c EXCEPT !.count = m] \in Combinator /\ [c EXCEPT !.count = m].cap = c.cap
  BY <1>1 DEF Combinator, m
<1> QED
  BY <1>2, <1>3

Noted(c, key, i, x) == [c EXCEPT !.called = @ \cup {key}, !.values[i] = x]

\* An item is noted.
LEMMA NotedTyped ==
  ASSUME NEW c \in Combinator, NEW key \in Nat \X (How \cup {"either"}), NEW i, NEW x \in Completion
  PROVE  Noted(c, key, i, x) \in Combinator /\ Noted(c, key, i, x).cap = c.cap
<1> DEFINE called == c.called \cup {key}
           values == [c.values EXCEPT ![i] = x]
<1>1. called \in SUBSET (Nat \X (How \cup {"either"}))
  BY DEF Combinator
<1>2. values \in Seq(Completion)
  <2>1. c.values \in Seq(Completion)
    BY DEF Combinator
  <2>2. PICK n \in Nat : c.values \in [1 .. n -> Completion]
    BY <2>1, SeqDef
  <2>3. values \in [1 .. n -> Completion]
    BY <2>2
  <2> HIDE DEF values
  <2> QED
    BY ONLY <2>2, <2>3, SeqDef
<1>3. Noted(c, key, i, x) = [c EXCEPT !.called = called, !.values = values]
  BY DEF Combinator, Noted
<1> HIDE DEF called, values
<1>4. [c EXCEPT !.called = called, !.values = values] \in Combinator
      /\ [c EXCEPT !.called = called, !.values = values].cap = c.cap
  BY <1>1, <1>2 DEF Combinator
<1> QED
  BY <1>3, <1>4

\* The end of an item.
LEMMA CompleteMoves ==
  ASSUME NEW c \in Combinator, NEW e, Good(e, Handler(comb), Val), c.cap \in Made(e)
  PROVE  Moves(e, CompleteIfZero(e, c), comb)
<1>1. Error \in Val /\ Array \in Val /\ How = {"fulfilled", "rejected"}
  BY DEF Val, Value, How
<1>2. Moves(e, ResolvingCall(e, c.cap, "rejected", Error), comb) /\ Moves(e, ResolvingCall(e, c.cap, "fulfilled", Array), comb)
  BY <1>1, CallMoves
<1>3. Moves(e, e, comb)
  BY MovesTransitive
<1> QED
  BY <1>2, <1>3 DEF CompleteIfZero, Complete

LEMMA CallElementMoves ==
  ASSUME comb \in Combinator, NEW e, Good(e, Handler(comb), Val), comb.cap \in Made(e),
         NEW i \in Nat, NEW how \in How, NEW v \in Val, CallElement(e, i, how, v)
  PROVE  Moves(e, eng', comb) /\ comb' \in Combinator /\ comb'.cap = comb.cap
<1>1. CASE CalledKey(i, how) \in comb.called
  BY <1>1, MovesTransitive DEF CallElement
<1>2. CASE CalledKey(i, how) \notin comb.called
  <2> DEFINE d == Noted(comb, CalledKey(i, how), i, <<how, v>>)
  <2>1. comb' = AddRemaining(d, -1) /\ eng' = CompleteIfZero(e, comb')
    BY <1>2 DEF CallElement, Noted
  <2>2. CalledKey(i, how) \in Nat \X (How \cup {"either"}) /\ <<how, v>> \in Completion
    BY DEF CalledKey, Completion
  <2>3. d \in Combinator /\ d.cap = comb.cap
    BY <2>2, NotedTyped
  <2> HIDE DEF d
  <2>4. comb' \in Combinator /\ comb'.cap = comb.cap
    BY <2>1, <2>3, AddRemainingTyped
  <2> QED
    BY <2>1, <2>4, CompleteMoves
<1> QED
  BY <1>1, <1>2

\* A combinator is called.
LEMMA CombineKeeps ==
  ASSUME Base, UNCHANGED cvars,
         NEW kind \in CombinatorKinds, NEW n \in 0 .. MaxItems, NEW items \in [1 .. n -> CombinatorItems], Combine(kind, items)
  PROVE  Base' /\ Grows(eng, eng')
<1>1. /\ Good(eng, Handler(comb), Val) /\ LogTyped /\ ScriptTyped /\ HeldValue \subseteq Value
      /\ comb = NoCombinator /\ Fresh(eng) # {} /\ eng' = Create(eng)
  BY Known DEF Combine
<1> DEFINE values == [i \in DOMAIN items |-> None]
<1>2. comb' = [kind |-> kind, items |-> items, index |-> 0, count |-> 1, cap |-> Cap(New(eng)),
               values |-> values, called |-> {}, hooked |-> {}, failed |-> FALSE]
  BY DEF Combine
<1>3. Good(eng, Handler(comb'), Val)
  BY <1>1, CombinatorAdds, MoreHandlers
<1>4. Moves(eng, eng', comb') /\ New(eng) \in Promise /\ Cap(New(eng)) \in Made(eng')
  BY <1>1, <1>3, CreateMoves
<1>5. CombinatorItems \subseteq Value \cup {Hook}
  BY <1>1 DEF CombinatorItems, HeldValue, Value, ScriptTyped
<1>6. items \in Seq(Value \cup {Hook}) /\ values \in Seq(Completion)
  <2>1. items \in [1 .. n -> Value \cup {Hook}] /\ values \in [1 .. n -> Completion] /\ n \in Nat
    BY <1>5, CombinatorsAssumption DEF Completion
  <2> QED
    BY <2>1, SeqDef
<1> HIDE DEF values
<1>7. comb' \in Combinator /\ comb'.cap = Cap(New(eng))
  BY <1>2, <1>4, <1>6 DEF Combinator, Made
<1>8. comb' # NoCombinator
  BY <1>7 DEF Combinator, NoCombinator, CombinatorKinds
<1>9. Elsewhere
  BY <1>1, <1>4, <1>7, <1>8, DoesTyped DEF Elsewhere, Combine, LogTyped
<1>10. StackStep
  <2> DEFINE f == [kind |-> "combine"]
  <2>1. stack' = <<f>> \o stack /\ ScriptRuns
    BY DEF Combine, Does
  <2>2. f \in Frame(comb') /\ FrameIn(f, Made(eng')) /\ f.kind = "combine"
    BY <1>8 DEF Frame, FrameIn
  <2> HIDE DEF f
  <2>3. stack # <<>> => Head(stack).kind # "resumeNext"
    BY <2>1 DEF ScriptRuns, ScriptFrames
  <2> QED
    BY <1>1, <2>1, <2>2, <2>3 DEF StackStep, Common
<1>11. Ordinary
  BY <1>4, <1>9, <1>10 DEF Ordinary, cvars
<1> QED
  BY <1>11, OrdinaryKeeps

\* The loop over the items.
LEMMA NextItemKeeps ==
  ASSUME Base, UNCHANGED cvars, NextItem
  PROVE  Base' /\ Grows(eng, eng')
<1>1. /\ Good(eng, Handler(comb), Val) /\ LogTyped /\ ScriptTyped
      /\ comb # NoCombinator /\ comb \in Combinator /\ comb.cap \in Made(eng)
  BY Known, CombinatorKnown DEF NextItem
<1> DEFINE i == comb.index + 1
           item == comb.items[i]
           c == [(IF comb.kind = "race" THEN comb ELSE AddRemaining(comb, 1)) EXCEPT !.index = i]
<1>2. comb' \in Combinator /\ comb'.cap = comb.cap
  <2>1. i \in Nat
    BY <1>1 DEF Combinator
  <2>2. AddRemaining(comb, 1) \in Combinator /\ AddRemaining(comb, 1).cap = comb.cap
    BY <1>1, AddRemainingTyped
  <2>3. c \in Combinator /\ c.cap = comb.cap
    BY <1>1, <2>1, <2>2 DEF Combinator
  <2>4. c.cap = comb.cap /\ [c EXCEPT !.hooked = @ \cup {i}] \in Combinator
        /\ [c EXCEPT !.hooked = @ \cup {i}].cap = comb.cap
    BY <2>1, <2>3 DEF Combinator
  <2>5. comb' = c \/ comb' = [c EXCEPT !.hooked = @ \cup {i}]
    BY DEF NextItem
  <2> QED
    BY <2>3, <2>4, <2>5
<1>3. held' = held /\ LogTyped' /\ ScriptTyped' /\ stack # <<>> /\ Head(stack).kind = "combine"
  BY <1>1 DEF NextItem, LogTyped, ScriptTyped, Top
<1>4. CASE item = Hook
  <2> DEFINE f == [kind |-> "hook"]
  <2>1. stack' = <<f>> \o stack /\ eng' = eng
    BY <1>4 DEF NextItem
  <2>2. comb' # NoCombinator
    BY <1>2 DEF Combinator, NoCombinator, CombinatorKinds
  <2>3. f \in Frame(comb') /\ FrameIn(f, Made(eng')) /\ f.kind = "hook"
    BY <2>2 DEF Frame, FrameIn
  <2> HIDE DEF f
  <2>4. StackStep
    BY <1>3, <2>1, <2>3 DEF StackStep, Common
  <2>5. Moves(eng, eng', comb)
    BY <1>1, <2>1, MovesTransitive
  <2> QED
    BY <1>1, <1>2, <1>3, <2>4, <2>5, CombinatorStep
<1>5. CASE item # Hook
  <2>1. eng' = Then(Wrap(eng, item), Wrapped(eng, item), Handlers(i), None) /\ stack' = stack
        /\ (item \notin Promise => Fresh(eng) # {})
    BY <1>5 DEF NextItem
  <2>2. i \in Nat /\ item \in Val
    <3>1. i \in 1 .. Len(comb.items) /\ comb.items \in Seq(Value \cup {Hook})
      BY <1>1 DEF Combinator, NextItem
    <3> QED
      BY <1>5, <3>1 DEF Val
  <2>3. Moves(eng, Wrap(eng, item), comb) /\ Good(Wrap(eng, item), Handler(comb), Val) /\ Wrapped(eng, item) \in Promise
    BY <1>1, <2>1, <2>2, WrapMoves
  <2>4. \A how \in How : Element(i, how) \in Handler(comb) \ Control /\ Element(i, how).fn # "settle"
    BY <1>1, <2>2 DEF Element, Handler, Control, Resume, Continued, Returned
  <2>5. \A how \in How : Settler(comb.cap, how) \in Handler(comb) \ Control /\ Settler(comb.cap, how).pair = comb.cap
    BY <1>1 DEF Settler, Handler, Made, Control, Resume, Continued, Returned
  <2> DEFINE on == Handlers(i)
             d == Wrap(eng, item)
  <2>6. on \in [How -> Handler(comb)] /\ \A how \in How : on[how] \notin Control /\ (on[how].fn = "settle" => on[how].pair = comb.cap)
    BY <2>4, <2>5 DEF Handlers
  <2>7. comb.cap \in Made(d)
    BY <1>1, <2>3, EvolvesMade DEF Moves
  <2> HIDE DEF on, d, i, item
  <2>8. None \in Capability /\ ReactionIn([on |-> on, cap |-> None], Made(d))
    BY <2>6, <2>7 DEF Capability, ReactionIn, CapIn, HandlerIn
  <2>9. Moves(d, eng', comb)
    BY <2>1, <2>3, <2>6, <2>8, ThenMoves DEF on, d
  <2>10. Moves(eng, eng', comb)
    BY <1>1, <2>3, <2>9, MovesTransitive DEF d
  <2> QED
    BY <1>1, <1>2, <1>3, <2>1, <2>10, CombinatorStep DEF StackStep
<1> QED
  BY <1>4, <1>5

\* The other steps.
LEMMA CombinatorKeeps ==
  ASSUME Base, CombinatorNext, UNCHANGED cvars
  PROVE  Base' /\ Grows(eng, eng')
<1>1. /\ Good(eng, Handler(comb), Val) /\ LogTyped /\ ScriptTyped /\ HeldValue \subseteq Val
      /\ stack \in Seq(Frame(comb))
  BY Known
<1>2. comb # NoCombinator => comb \in Combinator /\ comb.cap \in Made(eng) /\ comb.cap.of \in Promise
  BY CombinatorKnown DEF Made, Pair
<1>3. ASSUME NEW kind \in {"combine", "hook"}, Top(kind)
      PROVE  /\ comb # NoCombinator /\ stack # <<>> /\ Head(stack).kind = kind
             /\ SubSeq(stack, 1 + 1, Len(stack)) = Tail(stack)
  BY <1>1, <1>3, CombinatorKnown, Rest DEF Top
<1>4. CASE EndOfItems
  <2> DEFINE c == AddRemaining(comb, -1)
  <2>1. comb # NoCombinator /\ StackStep
    BY <1>3, <1>4 DEF EndOfItems, Leave, StackStep, Common
  <2>2. held' \subseteq held \cup Promise \cup Made(eng') /\ LogTyped' /\ ScriptTyped'
    BY <1>1, <1>2, <1>4, <2>1 DEF EndOfItems, Leave, LogTyped, ScriptTyped
  <2>3. c \in Combinator /\ c.cap = comb.cap
    BY <1>2, <2>1, AddRemainingTyped
  <2>4. comb' \in Combinator /\ comb'.cap = comb.cap /\ Moves(eng, eng', comb)
    <3>1. CASE comb.kind = "race"
      BY <1>1, <1>2, <1>4, <2>1, <3>1, MovesTransitive DEF EndOfItems
    <3>2. CASE comb.kind # "race"
      BY <1>1, <1>2, <1>4, <2>1, <2>3, <3>2, CompleteMoves DEF EndOfItems
    <3> QED
      BY <3>1, <3>2
  <2> QED
    BY <2>1, <2>2, <2>4, CombinatorStep
<1>5. ASSUME NEW n, Fail(n), comb # NoCombinator, StackStep PROVE Base' /\ Grows(eng, eng')
  <2>1. "rejected" \in How /\ Error \in Val
    BY DEF How, Val, Value
  <2>2. Moves(eng, eng', comb)
    BY <1>1, <1>2, <1>5, <2>1, CallMoves DEF Fail
  <2>3. comb' \in Combinator /\ comb'.cap = comb.cap
    BY <1>2, <1>5 DEF Fail, Combinator
  <2>4. held' \subseteq held \cup Promise \cup Made(eng') /\ LogTyped' /\ ScriptTyped'
    BY <1>1, <1>2, <1>5 DEF Fail, Leave, LogTyped, ScriptTyped
  <2> QED
    BY <1>5, <2>2, <2>3, <2>4, CombinatorStep
<1>6. CASE IteratorThrows
  <2>1. comb # NoCombinator /\ StackStep /\ Fail(1)
    BY <1>3, <1>6 DEF IteratorThrows, Fail, Leave, StackStep, Common
  <2> QED
    BY <1>5, <2>1
<1>7. CASE HookReturns
  <2>1. comb # NoCombinator /\ StackStep
    BY <1>3, <1>7 DEF HookReturns, Pop, StackStep, Common
  <2>2. held' \subseteq held \cup Promise \cup Made(eng') /\ LogTyped' /\ ScriptTyped' /\ eng' = eng /\ comb' = comb
    BY <1>1, <1>7 DEF HookReturns, LogTyped, ScriptTyped
  <2>3. Moves(eng, eng', comb)
    BY <1>1, <2>2, MovesTransitive
  <2> QED
    BY <1>2, <2>1, <2>2, <2>3, CombinatorStep
<1>8. CASE HookThrows
  <2>1. comb # NoCombinator /\ stack # <<>> /\ Head(stack).kind = "hook" /\ Fail(2)
    BY <1>3, <1>8 DEF HookThrows
  <2>2. Stacked(stack)
    BY DEF Base
  <2>3. Tail(stack) # <<>>
    BY <1>1, <2>1, <2>2, Drop
  <2>4. stack' = Tail(Tail(stack))
    BY <1>1, <2>1, <2>3, Rest DEF Fail, Leave
  <2> QED
    BY <1>5, <2>1, <2>4 DEF StackStep
<1>9. ASSUME comb # NoCombinator, NEW i \in comb.hooked, NEW how \in How, NEW v \in HeldValue, CallHooked(i, how, v)
      PROVE  Base' /\ Grows(eng, eng')
  <2>1. i \in Nat /\ v \in Val
    BY <1>1, <1>2, <1>9 DEF Combinator
  <2>2. StackStep /\ held' = held /\ LogTyped' /\ ScriptTyped'
    BY <1>1, <1>9, DoesTyped DEF CallHooked, StackStep, LogTyped
  <2>3. Moves(eng, eng', comb) /\ comb' \in Combinator /\ comb'.cap = comb.cap
    <3>1. CASE how \in ElementSides(comb.kind)
      BY <1>1, <1>2, <1>9, <2>1, <3>1, CallElementMoves DEF CallHooked
    <3>2. CASE how \notin ElementSides(comb.kind)
      BY <1>1, <1>2, <1>9, <2>1, <3>2, CallMoves DEF CallHooked
    <3> QED
      BY <3>1, <3>2
  <2> QED
    BY <1>9, <2>2, <2>3, CombinatorStep
<1>10. CASE RunElement
  <2>1. JobRuns("reaction") /\ Job.handler.fn = "element" /\ CallElement(Popped, Job.handler.item, Job.how, Job.arg)
    BY <1>10 DEF RunElement, Reacts
  <2>2. Moves(eng, Popped, comb) /\ Good(Popped, Handler(comb), Val) /\ Job \in ReactionJobs(Handler(comb), Val)
    BY <2>1, JobKnown
  <2>3. Job.handler \in Handler(comb) /\ Job.how \in How /\ Job.arg \in Val
    BY <2>2 DEF ReactionJobs
  <2>4. comb # NoCombinator /\ Job.handler.item \in Nat
    BY <2>1, <2>3 DEF Handler, Undefined, Resume, Continued, Returned
  <2>5. comb.cap \in Made(Popped)
    BY <1>1, <1>2, <2>2, <2>4, EvolvesMade DEF Moves
  <2>6. Moves(Popped, eng', comb) /\ comb' \in Combinator /\ comb'.cap = comb.cap
    BY <1>2, <2>1, <2>2, <2>3, <2>4, <2>5, CallElementMoves
  <2>7. Moves(eng, eng', comb)
    BY <1>1, <2>2, <2>6, MovesTransitive
  <2>8. StackStep /\ held' = held /\ LogTyped' /\ ScriptTyped'
    BY <1>1, <1>10 DEF RunElement, StackStep, LogTyped, ScriptTyped
  <2> QED
    BY <2>4, <2>6, <2>7, <2>8, CombinatorStep
<1> QED
  BY <1>4, <1>6, <1>7, <1>8, <1>9, <1>10, CombineKeeps, NextItemKeeps DEF CombinatorNext

-----------------------------------------------------------------------------
(* Async functions.                                                        *)

\* The job that continues suspended code is the only one, and knows the outcome.
LEMMA TakeControl ==
  ASSUME Base, JobRuns("reaction"), NEW h \in Control, Job.handler = h
  PROVE  /\ Alone(Popped, h) /\ ~Expects(Popped, h) /\ Expects(eng, h)
         /\ \A o \in Promise : CalledFor(eng, h, o) => Settled(eng, o) /\ <<Job.how, Job.arg>> = Outcome(eng, o)
<1>1. eng \in Engine(Handler(comb), Val) /\ eng.jobs # <<>> /\ Runs(Head(eng.jobs), h)
  BY DEF Base, Good, JobRuns, Job, Runs
<1>2. Alone(eng, h)
  BY DEF Base, Activated, Generating, Control
<1>3. Alone(Popped, h) /\ ~Expects(Popped, h) /\ Expects(eng, h)
  BY <1>1, <1>2, PopKeeps DEF Popped
<1>4. ASSUME NEW o \in Promise, CalledFor(eng, h, o) PROVE Settled(eng, o) /\ <<Job.how, Job.arg>> = Outcome(eng, o)
  <2> DEFINE d == [eng EXCEPT !.jobs = Tail(@)]
  <2>1. d = [eng EXCEPT !.jobs = Tail(@)]
    OBVIOUS
  <2> HIDE DEF d
  <2>2. Settled(eng, o) /\ <<Head(eng.jobs).how, Head(eng.jobs).arg>> = Outcome(eng, o)
    BY <1>1, <1>4, <2>1, PopKeeps
  <2> QED
    BY <2>2 DEF Job
<1> QED
  BY <1>3, <1>4

\* What a step of one activation must show.
AsyncStep(a) ==
  /\ Evolves(eng, eng', comb) /\ \A h \in Control : h # Resume(a) => Keeps(eng, eng', h)
  /\ comb' = comb /\ gen' = gen /\ log' = log /\ ScriptTyped'
  /\ held' \subseteq held \cup Promise
  /\ act' \in [Activation -> ActivationData] /\ CapIn(act'[a].cap, Made(eng'))
  /\ \A b \in Activation : b # a => act'[b] = act[b]
  /\ stack' \in Seq(Frame(comb)) /\ Stacked(stack')
  /\ \A f : f.kind # "async" \/ f.of # a => (f \in InProgress(stack') <=> f \in InProgress(stack))
  /\ Activated(a)'
  /\ \A f \in InProgress(stack') : f.kind = "async" /\ f.of = a => Informed(f)'

\* A step of an activation keeps the invariant.
LEMMA AsyncStepKeeps ==
  ASSUME Base, NEW a \in Activation, AsyncStep(a)
  PROVE  Base' /\ Grows(eng, eng')
<1>1. /\ TypeOK /\ Good(eng, Handler(comb), Val) /\ Referred(Made(eng))
      /\ (\A b \in Activation : Activated(b)) /\ (\A f \in InProgress(stack) : Informed(f)) /\ Generating
  BY DEF Base
<1>2. /\ Evolves(eng, eng', comb) /\ \A h \in Control : h # Resume(a) => Keeps(eng, eng', h)
      /\ comb' = comb /\ gen' = gen /\ Stacked(stack') /\ Activated(a)'
      /\ \A b \in Activation : b # a => act'[b] = act[b]
      /\ \A f : f.kind # "async" \/ f.of # a => (f \in InProgress(stack') <=> f \in InProgress(stack))
  BY DEF AsyncStep
<1>3. Made(eng) \subseteq Made(eng')
  BY <1>1, <1>2, EvolvesMade
<1>4. TypeOK'
  <2>1. held' \subseteq Promise \cup Pair
    BY <1>1 DEF AsyncStep, TypeOK
  <2> QED
    BY <1>1, <2>1 DEF AsyncStep, TypeOK, LogTyped
<1>5. Referred(Made(eng))'
  <2>1. \A f \in InProgress(stack') : f \in InProgress(stack) \/ FrameIn(f, Made(eng'))
    BY <1>2 DEF FrameIn
  <2>2. \A b \in Activation : act'[b].cap = act[b].cap \/ CapIn(act'[b].cap, Made(eng'))
    BY <1>2 DEF AsyncStep
  <2>3. (\A i \in DOMAIN gen'.queue : gen'.queue[i].pair \in Made(eng')) /\ (comb' # NoCombinator => comb'.cap \in Made(eng'))
    BY <1>1, <1>2, <1>3 DEF Referred
  <2>4. held' \subseteq held \cup Promise \cup Made(eng')
    BY DEF AsyncStep
  <2> QED
    BY <1>1, <1>3, <2>1, <2>2, <2>3, <2>4, StillReferred
<1>6. ASSUME NEW b \in Activation, b # a PROVE Activated(b)'
  <2>1. Resume(b) \in Control /\ Resume(b) # Resume(a)
    BY <1>6 DEF Control, Resume
  <2>2. Keeps(eng, eng', Resume(b)) /\ act'[b] = act[b]
    BY <1>2, <1>6, <2>1
  <2>3. \A f : f.kind = "async" /\ f.of = b => (f \in InProgress(stack') <=> f \in InProgress(stack))
    BY <1>2, <1>6
  <2> QED
    BY <1>1, <2>2, <2>3, StillActivated
<1>7. ASSUME NEW f \in InProgress(stack') PROVE Informed(f)'
  <2>1. CASE f.kind # "async"
    BY <2>1 DEF Informed
  <2>2. CASE f.kind = "async" /\ f.of = a
    BY <2>2 DEF AsyncStep
  <2>3. CASE f.kind = "async" /\ f.of # a
    <3>1. f \in Frame(comb)
      BY DEF AsyncStep, InProgress
    <3>2. f.of \in Activation
      BY <2>3, <3>1 DEF Frame, GeneratorBody
    <3>3. Informed(f) /\ act'[f.of].on = act[f.of].on
      BY <1>1, <1>2, <2>3, <3>2
    <3> QED
      BY <1>2, <3>3, StillInformed
  <2> QED
    BY <2>1, <2>2, <2>3
<1>8. Generating'
  <2>1. Keeps(eng, eng', Continued) /\ Keeps(eng, eng', Returned)
    BY <1>2 DEF Control, Resume, Continued, Returned
  <2>2. \A f : f.kind \in {"resumeNext", "generator"} => (f \in InProgress(stack') <=> f \in InProgress(stack))
    BY <1>2
  <2> QED
    BY <1>1, <1>2, <2>1, <2>2, StillGenerating
<1> QED
  BY <1>2, <1>4, <1>5, <1>6, <1>7, <1>8 DEF Base, Evolves

\* An async function is called.
LEMMA CallAsyncKeeps ==
  ASSUME Base, NEW a \in Activation, CallAsync(a), UNCHANGED comb
  PROVE  Base' /\ Grows(eng, eng')
<1>1. /\ Good(eng, Handler(comb), Val) /\ ScriptTyped /\ stack \in Seq(Frame(comb)) /\ Stacked(stack)
      /\ act \in [Activation -> ActivationData] /\ Activated(a) /\ act[a].state = "none"
  BY Known DEF Base, TypeOK, CallAsync
<1> DEFINE f == Body(a, None)
           new == [state |-> "running", cap |-> Cap(New(eng)), on |-> None]
<1>2. /\ Moves(eng, eng', comb) /\ Cap(New(eng)) \in Made(eng') /\ Cap(New(eng)) \in Pair /\ Cap(New(eng)) # None
  <2>1. Fresh(eng) # {} /\ eng' = Create(eng)
    BY DEF CallAsync
  <2>2. Moves(eng, eng', comb) /\ Cap(New(eng)) \in Made(eng')
    BY <1>1, <2>1, CreateMoves
  <2> QED
    BY <2>2, PromisesAssumption DEF Made
<1>3. act' = [act EXCEPT ![a] = new] /\ new \in ActivationData
  BY <1>2 DEF CallAsync, ActivationData, Capability
<1>4. act' \in [Activation -> ActivationData] /\ act'[a] = new /\ \A b \in Activation : b # a => act'[b] = act[b]
  BY <1>1, <1>3
<1>5. f \in Frame(comb) /\ f.kind = "async" /\ f.of = a /\ f.got = None
  BY DEF Body, Frame, Completion
<1>6. stack' = <<f>> \o stack /\ ScriptRuns
  BY DEF CallAsync, Does
<1>7. \A g \in InProgress(stack) : g.kind = "async" => g.of # a
  BY <1>1 DEF Activated
<1> HIDE DEF f
<1>8. MayStand(f, stack)
  BY <1>5, <1>6, <1>7 DEF MayStand, Alike, ScriptRuns, ScriptFrames
<1>9. stack' \in Seq(Frame(comb)) /\ InProgress(stack') = InProgress(stack) \cup {f}
  BY <1>1, <1>5, <1>6, PushFrame
<1>10. Stacked(stack')
  BY <1>1, <1>5, <1>6, <1>8, PushStacked
<1>11. Activated(a)'
  <2>1. Alone(eng', Resume(a)) /\ ~Expects(eng', Resume(a))
    BY <1>1, <1>2 DEF Activated, Moves, Keeps, Control
  <2>2. \E g \in InProgress(stack') : g.kind = "async" /\ g.of = a
    BY <1>5, <1>9
  <2> QED
    BY <1>2, <1>4, <2>1, <2>2 DEF Activated
<1>12. \A g \in InProgress(stack') : g.kind = "async" /\ g.of = a => Informed(g)'
  BY <1>5, <1>7, <1>9 DEF Informed
<1>13. AsyncStep(a)
  <2>1. Evolves(eng, eng', comb) /\ \A h \in Control : h # Resume(a) => Keeps(eng, eng', h)
    BY <1>2 DEF Moves
  <2>2. comb' = comb /\ gen' = gen /\ log' = log /\ ScriptTyped' /\ held' = held
    BY <1>1, DoesTyped DEF CallAsync
  <2>3. CapIn(act'[a].cap, Made(eng'))
    BY <1>2, <1>4 DEF CapIn
  <2>4. \A g : g.kind # "async" \/ g.of # a => (g \in InProgress(stack') <=> g \in InProgress(stack))
    BY <1>5, <1>9
  <2> QED
    BY <1>4, <1>9, <1>10, <1>11, <1>12, <2>1, <2>2, <2>3, <2>4 DEF AsyncStep
<1> QED
  BY <1>13, AsyncStepKeeps

\* A body that runs: its frame is popped when it awaits or ends.
LEMMA BodyKnown ==
  ASSUME Base, Top("async"), NEW a, a = Head(stack).of
  PROVE  /\ a \in Activation /\ act[a].state = "running" /\ act[a].cap \in Made(eng) /\ act[a].cap.of \in Promise
         /\ Alone(eng, Resume(a)) /\ ~Expects(eng, Resume(a)) /\ act[a] \in ActivationData
         /\ stack # <<>> /\ Tail(stack) \in Seq(Frame(comb)) /\ Stacked(Tail(stack))
         /\ InProgress(stack) = InProgress(Tail(stack)) \cup {Head(stack)}
         /\ \A f \in InProgress(Tail(stack)) : ~(f.kind = "async" /\ f.of = a)
<1>1. /\ stack \in Seq(Frame(comb)) /\ Stacked(stack) /\ stack # <<>> /\ Head(stack) \in InProgress(stack)
      /\ Head(stack) \in Frame(comb) /\ Head(stack).kind = "async"
  BY Known DEF Base, TypeOK, Top
<1>2. a \in Activation
  <2> DEFINE f == Head(stack)
  <2>1. f \in Frame(comb) /\ f.kind = "async" /\ f.of = a
    BY <1>1
  <2> HIDE DEF f
  <2> QED
    BY <2>1 DEF Frame, GeneratorBody
<1>3. Activated(a) /\ act[a] \in ActivationData /\ CapIn(act[a].cap, Made(eng))
  BY <1>2 DEF Base, TypeOK, Referred
<1>4. act[a].state = "running"
  BY <1>1, <1>3 DEF Activated
<1>5. act[a].cap \in Made(eng) /\ act[a].cap.of \in Promise
  BY <1>3, <1>4 DEF Activated, CapIn, Made, Pair
<1>6. /\ Tail(stack) \in Seq(Frame(comb)) /\ Stacked(Tail(stack))
      /\ InProgress(stack) = InProgress(Tail(stack)) \cup {Head(stack)}
      /\ \A f \in InProgress(Tail(stack)) : ~Alike(Head(stack), f)
  BY <1>1, Drop
<1> QED
  BY <1>1, <1>2, <1>3, <1>4, <1>5, <1>6 DEF Activated, Alike

\* The body of an activation stops.
LEMMA LeaveBodyKeeps ==
  ASSUME Base, UNCHANGED <<comb, gen, log>>, ScriptTyped', Top("async"), LeaveBody,
         NEW a, a = Me,
         Evolves(eng, eng', comb), \A h \in Control : h # Resume(a) => Keeps(eng, eng', h),
         NEW state \in {"awaiting", "done"}, NEW on \in Promise \cup {None},
         act' = [act EXCEPT ![a].state = state, ![a].on = on],
         Alone(eng', Resume(a)), Expects(eng', Resume(a)) <=> state = "awaiting",
         state = "awaiting" => on \in Promise /\ CalledFor(eng', Resume(a), on)
  PROVE  Base' /\ Grows(eng, eng')
<1>1. /\ a \in Activation /\ act[a].state = "running" /\ act[a].cap \in Made(eng) /\ act[a].cap.of \in Promise
      /\ act[a] \in ActivationData
      /\ stack # <<>> /\ Tail(stack) \in Seq(Frame(comb)) /\ Stacked(Tail(stack))
      /\ InProgress(stack) = InProgress(Tail(stack)) \cup {Head(stack)}
      /\ \A f \in InProgress(Tail(stack)) : ~(f.kind = "async" /\ f.of = a)
  BY BodyKnown DEF Me
<1>2. stack' = Tail(stack) /\ held' = held \cup {act[a].cap.of}
  BY DEF LeaveBody, Pop
<1>3. act \in [Activation -> ActivationData] /\ Activated(a) /\ Good(eng, Handler(comb), Val)
  BY <1>1 DEF Base, TypeOK
<1>4. /\ act' \in [Activation -> ActivationData] /\ \A b \in Activation : b # a => act'[b] = act[b]
      /\ act'[a].state = state /\ act'[a].on = on /\ act'[a].cap = act[a].cap
  BY <1>1, <1>3 DEF ActivationData
<1>5. CapIn(act'[a].cap, Made(eng'))
  BY <1>1, <1>3, <1>4, EvolvesMade DEF CapIn
<1>6. Activated(a)'
  <2>1. act'[a].cap # None /\ act'[a].state # "none" /\ act'[a].state # "running"
    BY <1>1, <1>3, <1>4 DEF Activated
  <2>2. ~ \E f \in InProgress(stack') : f.kind = "async" /\ f.of = a
    BY <1>1, <1>2
  <2> QED
    BY <1>4, <2>1, <2>2 DEF Activated
<1>7. \A f : f.kind # "async" \/ f.of # a => (f \in InProgress(stack') <=> f \in InProgress(stack))
  BY <1>1, <1>2 DEF Top, Me
<1>8. AsyncStep(a)
  BY SMTT(60), <1>1, <1>2, <1>4, <1>5, <1>6, <1>7 DEF AsyncStep
<1> QED
  BY <1>1, <1>8, AsyncStepKeeps

\* An await.
LEMMA AwaitKeeps ==
  ASSUME Base, UNCHANGED comb, NEW v \in HeldValue, Await(v)
  PROVE  Base' /\ Grows(eng, eng')
<1> DEFINE a == Me
           h == Resume(a)
<1>1. Top("async") /\ LeaveBody /\ UNCHANGED <<comb, gen, log>> /\ a = Head(stack).of
  BY DEF Await, Me
<1>2. a \in Activation /\ Alone(eng, h) /\ ~Expects(eng, h) /\ act[a] \in ActivationData
  BY <1>1, BodyKnown
<1>3. Good(eng, Handler(comb), Val) /\ v \in Val /\ ScriptTyped
  BY Known
<1>4. /\ eng' = AwaitOn(eng, v, [how \in How |-> h]) /\ (v \notin Promise => Fresh(eng) # {}) /\ ScriptTyped'
  BY <1>3, DoesTyped DEF Await, Continue, Resume, CanAwait
<1>5. h \in Control /\ h \in Handler(comb)
  BY <1>2 DEF Control, Handler
<1> HIDE DEF h, a
<1>6. /\ Evolves(eng, eng', comb) /\ \A g \in Control : g # h => Keeps(eng, eng', g)
      /\ Alone(eng', h) /\ Expects(eng', h) /\ CalledFor(eng', h, Wrapped(eng, v)) /\ Wrapped(eng, v) \in Promise
  BY <1>2, <1>3, <1>4, <1>5, AwaitMoves
<1>7. act' = [act EXCEPT ![a].state = "awaiting", ![a].on = Wrapped(eng, v)]
  BY DEF Await, a
<1> QED
  BY <1>1, <1>2, <1>4, <1>6, <1>7, LeaveBodyKeeps DEF a, h

\* A body ends.
LEMMA BodyEndsKeeps ==
  ASSUME Base, UNCHANGED comb,
         (\E how \in How, v \in HeldValue : BodyEnds(how, v)) \/ AwaitFails
  PROVE  Base' /\ Grows(eng, eng')
<1> DEFINE a == Me
           h == Resume(a)
<1>1. Top("async") /\ LeaveBody /\ UNCHANGED <<comb, gen, log>> /\ a = Head(stack).of
      /\ act' = [act EXCEPT ![a].state = "done"]
  BY DEF BodyEnds, AwaitFails, Me
<1>2. /\ a \in Activation /\ Alone(eng, h) /\ ~Expects(eng, h) /\ act[a] \in ActivationData /\ act[a].cap \in Made(eng)
  BY <1>1, BodyKnown
<1>3. Good(eng, Handler(comb), Val) /\ HeldValue \subseteq Val /\ ScriptTyped
  BY Known
<1>4. ScriptTyped'
  BY <1>3, DoesTyped DEF BodyEnds, AwaitFails
<1>5. PICK how \in How, v \in Val : eng' = ResolvingCall(eng, act[a].cap, how, v)
  BY <1>3 DEF BodyEnds, AwaitFails, Val, Value, How
<1>6. Moves(eng, eng', comb)
  BY <1>2, <1>3, <1>5, CallMoves
<1>7. h \in Control
  BY <1>2 DEF Control
<1> HIDE DEF a, h
<1>8. Alone(eng', h) /\ ~Expects(eng', h)
  BY <1>2, <1>6, <1>7 DEF Moves, Keeps
<1>9. act' = [act EXCEPT ![a].state = "done", ![a].on = act[a].on] /\ act[a].on \in Promise \cup {None}
  <2>1. act \in [Activation -> ActivationData]
    BY DEF Base, TypeOK
  <2> QED
    BY <1>1, <1>2, <2>1 DEF ActivationData
<1> QED
  BY <1>1, <1>4, <1>6, <1>8, <1>9, LeaveBodyKeeps DEF a, h, Moves

\* An activation is resumed with the outcome it awaits.
LEMMA RunResumeKeeps ==
  ASSUME Base, UNCHANGED comb, RunResume
  PROVE  Base' /\ Grows(eng, eng')
<1>1. JobRuns("reaction") /\ Job.handler.fn = "resume" /\ eng' = Popped /\ stack = <<>>
  BY DEF RunResume, Reacts, JobRuns
<1>2. /\ Evolves(eng, eng', comb) /\ Job \in ReactionJobs(Handler(comb), Val)
      /\ \A h \in Control : h # Job.handler => Keeps(eng, eng', h)
  BY <1>1, JobKnown
<1>3. Job.handler \in Handler(comb) /\ Job.how \in How /\ Job.arg \in Val
  BY <1>2 DEF ReactionJobs
<1>4. PICK a \in Activation : Job.handler = Resume(a)
  BY <1>1, <1>3 DEF Handler, Undefined, Continued, Returned
<1>5. Resume(a) \in Control /\ Job.handler.of = a
  BY <1>4 DEF Control, Resume
<1>6. /\ Alone(eng', Resume(a)) /\ ~Expects(eng', Resume(a)) /\ Expects(eng, Resume(a))
      /\ \A o \in Promise : CalledFor(eng, Resume(a), o) => Settled(eng, o) /\ <<Job.how, Job.arg>> = Outcome(eng, o)
  BY <1>1, <1>4, <1>5, TakeControl
<1>7. Activated(a) /\ act \in [Activation -> ActivationData] /\ Stacked(stack) /\ stack \in Seq(Frame(comb))
      /\ Referred(Made(eng)) /\ ScriptTyped /\ Good(eng, Handler(comb), Val)
  BY DEF Base, TypeOK
<1> DEFINE p == act[a].on
           f == Body(a, <<Job.how, Job.arg>>)
<1>8. p \in Promise /\ Settled(eng, p) /\ <<Job.how, Job.arg>> = Outcome(eng, p) /\ act[a].cap # None
  BY <1>6, <1>7 DEF Activated
<1>9. Outcome(eng', p) = Outcome(eng, p) /\ Settled(eng', p)
  <2>1. Outcome(eng', p) = Outcome(eng, p)
    BY <1>2, <1>8 DEF Evolves, Grows
  <2> QED
    BY <1>8, <2>1 DEF Outcome, Settled
<1>10. act' = [act EXCEPT ![a].state = "running"]
  BY <1>5 DEF RunResume
<1>11. /\ act' \in [Activation -> ActivationData] /\ \A b \in Activation : b # a => act'[b] = act[b]
       /\ act'[a].state = "running" /\ act'[a].on = p /\ act'[a].cap = act[a].cap
  BY <1>7, <1>10 DEF ActivationData
<1>12. f \in Frame(comb) /\ f.kind = "async" /\ f.of = a /\ f.got = <<Job.how, Job.arg>>
  BY <1>3 DEF Body, Frame, Completion
<1>13. stack' = <<f>> \o stack
  BY <1>1, <1>5 DEF RunResume
<1>14. InProgress(stack) = {}
  BY <1>1 DEF InProgress
<1> HIDE DEF f
<1>15. MayStand(f, stack)
  BY <1>1, <1>12, <1>14 DEF MayStand
<1>16. stack' \in Seq(Frame(comb)) /\ InProgress(stack') = InProgress(stack) \cup {f}
  BY <1>7, <1>12, <1>13, PushFrame
<1>17. Stacked(stack')
  BY <1>7, <1>12, <1>13, <1>15, PushStacked
<1>18. Activated(a)'
  <2>1. \E g \in InProgress(stack') : g.kind = "async" /\ g.of = a
    BY <1>12, <1>16
  <2> QED
    BY <1>6, <1>8, <1>11, <2>1 DEF Activated
<1>19. \A g \in InProgress(stack') : g.kind = "async" /\ g.of = a => Informed(g)'
  BY <1>8, <1>9, <1>11, <1>12, <1>14, <1>16 DEF Informed
<1>20. AsyncStep(a)
  <2>1. \A h \in Control : h # Resume(a) => Keeps(eng, eng', h)
    BY <1>2, <1>4
  <2>2. comb' = comb /\ gen' = gen /\ log' = log /\ ScriptTyped' /\ held' = held
    BY <1>7 DEF RunResume, ScriptTyped
  <2>3. CapIn(act'[a].cap, Made(eng'))
    BY <1>2, <1>7, <1>11, EvolvesMade DEF CapIn, Referred
  <2>4. \A g : g.kind # "async" \/ g.of # a => (g \in InProgress(stack') <=> g \in InProgress(stack))
    BY <1>12, <1>16
  <2> QED
    BY <1>2, <1>11, <1>16, <1>17, <1>18, <1>19, <2>1, <2>2, <2>3, <2>4 DEF AsyncStep
<1> QED
  BY <1>20, AsyncStepKeeps

-----------------------------------------------------------------------------
(* The async generator.                                                    *)

\* The loop is the innermost frame, or its body is in progress.
LEMMA LoopPlace ==
  ASSUME NEW F, NEW s \in Seq(F), Stacked(s), NEW f \in InProgress(s), f.kind = "resumeNext"
  PROVE  s # <<>> /\ (Head(s).kind = "resumeNext" \/ \E g \in InProgress(s) : g.kind = "generator")
<1>1. PICK i \in DOMAIN s : f = s[i]
  BY DEF InProgress
<1>2. DOMAIN s = 1 .. Len(s) /\ Len(s) \in Nat /\ s # <<>> /\ Head(s) = s[1]
  BY <1>1
<1>3. CASE i = 1
  BY <1>1, <1>2, <1>3
<1>4. CASE i # 1
  <2> DEFINE j == i - 1
  <2>1. j \in DOMAIN s /\ j + 1 = i
    BY <1>1, <1>2, <1>4
  <2> HIDE DEF j
  <2>2. s[j].kind = "generator"
    BY <1>1, <2>1 DEF Stacked
  <2> QED
    BY <1>2, <2>1, <2>2 DEF InProgress
<1> QED
  BY <1>3, <1>4

\* No body is in progress when the loop is the innermost frame.
LEMMA NoBody ==
  ASSUME NEW F, NEW s \in Seq(F), Stacked(s), s # <<>>, Head(s).kind = "resumeNext", NEW g \in InProgress(s)
  PROVE  g.kind # "generator"
<1> SUFFICES ASSUME g.kind = "generator" PROVE FALSE
  OBVIOUS
<1>1. PICK i \in DOMAIN s : g = s[i]
  BY DEF InProgress
<1>2. i \in Nat /\ i >= 1 /\ 1 \in DOMAIN s /\ Head(s) = s[1]
  BY <1>1
<1>3. i + 1 \in DOMAIN s
  BY <1>1 DEF Stacked
<1>4. s[i + 1].kind = "resumeNext"
  BY <1>1, <1>3 DEF Stacked
<1>5. i + 1 = 1
  BY <1>2, <1>3, <1>4 DEF Stacked, Alike
<1> QED
  BY <1>2, <1>5

\* What a step of the generator must show.
GeneratorStep ==
  /\ Evolves(eng, eng', comb) /\ \A a \in Activation : Keeps(eng, eng', Resume(a))
  /\ comb' = comb /\ act' = act /\ log' = log /\ ScriptTyped'
  /\ held' \subseteq held \cup Promise
  /\ gen' \in GeneratorData /\ \A i \in DOMAIN gen'.queue : gen'.queue[i].pair \in Made(eng')
  /\ stack' \in Seq(Frame(comb)) /\ Stacked(stack')
  /\ \A f : f.kind \notin {"resumeNext", "generator"} => (f \in InProgress(stack') <=> f \in InProgress(stack))
  /\ Generating'

\* A step of the generator keeps the invariant.
LEMMA GeneratorStepKeeps ==
  ASSUME Base, GeneratorStep
  PROVE  Base' /\ Grows(eng, eng')
<1>1. /\ TypeOK /\ Good(eng, Handler(comb), Val) /\ Referred(Made(eng))
      /\ (\A b \in Activation : Activated(b)) /\ \A f \in InProgress(stack) : Informed(f)
  BY DEF Base
<1>2. /\ Evolves(eng, eng', comb) /\ comb' = comb /\ act' = act
      /\ \A f : f.kind \notin {"resumeNext", "generator"} => (f \in InProgress(stack') <=> f \in InProgress(stack))
  BY DEF GeneratorStep
<1>3. Made(eng) \subseteq Made(eng')
  BY <1>1, <1>2, EvolvesMade
<1>4. TypeOK'
  <2>1. held' \subseteq Promise \cup Pair
    BY <1>1 DEF GeneratorStep, TypeOK
  <2> QED
    BY <1>1, <2>1 DEF GeneratorStep, TypeOK, LogTyped
<1>5. Referred(Made(eng))'
  <2>1. \A f \in InProgress(stack') : f \in InProgress(stack) \/ FrameIn(f, Made(eng'))
    BY <1>2 DEF FrameIn
  <2>2. \A i \in DOMAIN gen'.queue : gen'.queue[i].pair \in Made(eng')
    BY DEF GeneratorStep
  <2>3. comb' # NoCombinator => comb'.cap \in Made(eng')
    BY <1>1, <1>2, <1>3 DEF Referred
  <2>4. held' \subseteq held \cup Promise \cup Made(eng')
    BY DEF GeneratorStep
  <2> QED
    BY <1>1, <1>2, <1>3, <2>1, <2>2, <2>3, <2>4, StillReferred
<1>6. ASSUME NEW a \in Activation PROVE Activated(a)'
  BY <1>1, <1>2, StillActivated DEF GeneratorStep
<1>7. ASSUME NEW f \in InProgress(stack') PROVE Informed(f)'
  <2>1. CASE f.kind = "async"
    BY <1>1, <1>2, <2>1, StillInformed
  <2>2. CASE f.kind # "async"
    BY <2>2 DEF Informed
  <2> QED
    BY <2>1, <2>2
<1> QED
  BY <1>2, <1>4, <1>5, <1>6, <1>7 DEF Base, Evolves, GeneratorStep

\* What the invariant says of the generator.
LEMMA GeneratorKnown ==
  ASSUME Base
  PROVE  /\ gen \in GeneratorData /\ Generating /\ (\A i \in DOMAIN gen.queue : gen.queue[i].pair \in Made(eng))
         /\ stack \in Seq(Frame(comb)) /\ Stacked(stack)
         /\ Good(eng, Handler(comb), Val) /\ ScriptTyped /\ HeldValue \subseteq Value /\ Value \subseteq Val
         /\ Continued \in Control /\ Continued \in Handler(comb) /\ Returned \in Control /\ Returned \in Handler(comb)
         /\ Continued # Returned /\ \A a \in Activation : Resume(a) \in Control \ {Continued, Returned}
         /\ gen.queue # <<>> => Head1.pair \in Made(eng) /\ Head1.value \in Value
<1>1. gen \in GeneratorData /\ (\A i \in DOMAIN gen.queue : gen.queue[i].pair \in Made(eng))
  BY DEF Base, TypeOK, Referred
<1>2. ASSUME gen.queue # <<>> PROVE Head1.pair \in Made(eng) /\ Head1.value \in Value
  <2> DEFINE Request == [type : {"next", "return", "throw"}, value : Value, pair : Pair]
             q == gen.queue
  <2>1. q \in Seq(Request)
    BY <1>1 DEF GeneratorData
  <2> HIDE DEF Request, q
  <2>2. 1 \in DOMAIN q /\ Head(q) = q[1] /\ q[1] \in Request
    BY <1>2, <2>1 DEF q
  <2> QED
    BY <1>1, <2>2 DEF Head1, q, Request
<1>3. /\ Continued \in Control /\ Continued \in Handler(comb) /\ Returned \in Control /\ Returned \in Handler(comb)
      /\ Continued # Returned /\ \A a \in Activation : Resume(a) \in Control \ {Continued, Returned}
  BY DEF Control, Handler, Continued, Returned, Resume
<1> QED
  BY <1>1, <1>2, <1>3, Known DEF Base, TypeOK

\* The first request is answered.
LEMMA AnsweredTyped ==
  ASSUME gen \in GeneratorData, gen.queue # <<>>, NEW S, \A i \in DOMAIN gen.queue : gen.queue[i].pair \in S,
         NEW state \in {"suspendedYield", "completed"}, NEW v \in Val, gen' = Answered(state, v)
  PROVE  /\ gen' \in GeneratorData /\ gen'.state = state
         /\ \A i \in DOMAIN gen'.queue : gen'.queue[i].pair \in S
<1> DEFINE Request == [type : {"next", "return", "throw"}, value : Value, pair : Pair]
           queue == Tail(gen.queue)
           answers == Append(gen.answers, <<Head1.pair, v>>)
<1>1. gen.queue \in Seq(Request) /\ gen.answers \in Seq(Pair \X Val)
  BY DEF GeneratorData
<1>2. queue \in Seq(Request) /\ \A i \in DOMAIN queue : i + 1 \in DOMAIN gen.queue /\ queue[i] = gen.queue[i + 1]
  BY <1>1
<1>3. answers \in Seq(Pair \X Val)
  <2> HIDE DEF Request
  <2>1. Head1 \in Request
    BY <1>1, HeadTailProperties DEF Head1
  <2>2. <<Head1.pair, v>> \in Pair \X Val
    BY <2>1 DEF Request
  <2> QED
    BY <1>1, <2>2
<1>4. gen' = [state |-> state, queue |-> queue, asked |-> gen.asked, answers |-> answers]
  BY DEF Answered, GeneratorData
<1> HIDE DEF queue, answers
<1>5. gen' \in GeneratorData
  BY <1>2, <1>3, <1>4 DEF GeneratorData
<1>6. \A i \in DOMAIN queue : queue[i].pair \in S
  BY <1>2
<1> QED
  BY <1>4, <1>5, <1>6

\* A request is made.
LEMMA CallGeneratorKeeps ==
  ASSUME Base, UNCHANGED comb, NEW type \in {"next", "return", "throw"}, NEW v \in HeldValue, CallGenerator(type, v)
  PROVE  Base' /\ Grows(eng, eng')
<1>1. /\ gen \in GeneratorData /\ Generating /\ (\A i \in DOMAIN gen.queue : gen.queue[i].pair \in Made(eng))
      /\ stack \in Seq(Frame(comb)) /\ Stacked(stack)
      /\ Good(eng, Handler(comb), Val) /\ ScriptTyped /\ v \in Value
      /\ Continued \in Control /\ Returned \in Control /\ \A a \in Activation : Resume(a) \in Control
  BY GeneratorKnown
<1> DEFINE new == Cap(New(eng))
           r == [type |-> type, value |-> v, pair |-> new]
           f == ResumeNext(New(eng))
<1>2. Moves(eng, eng', comb) /\ New(eng) \in Promise /\ new \in Made(eng') /\ new \in Pair /\ Made(eng) \subseteq Made(eng')
  <2>1. Fresh(eng) # {} /\ eng' = Create(eng)
    BY DEF CallGenerator
  <2>2. Moves(eng, eng', comb) /\ New(eng) \in Promise /\ new \in Made(eng')
    BY <1>1, <2>1, CreateMoves
  <2> QED
    BY <1>1, <2>2, EvolvesMade DEF Moves, Made
<1>3. gen' = [gen EXCEPT !.queue = Append(@, r), !.asked = Append(@, new)] /\ ScriptRuns /\ ScriptTyped'
  BY <1>1, DoesTyped DEF CallGenerator, Does
<1> DEFINE queue == Append(gen.queue, r)
<1>4. /\ gen' \in GeneratorData /\ gen'.state = gen.state /\ gen'.queue # <<>>
      /\ \A i \in DOMAIN gen'.queue : gen'.queue[i].pair \in Made(eng')
  <2> DEFINE Request == [type : {"next", "return", "throw"}, value : Value, pair : Pair]
             asked == Append(gen.asked, new)
  <2>1. gen.queue \in Seq(Request) /\ gen.asked \in Seq(Pair) /\ r \in Request /\ r.pair = new
    BY <1>1, <1>2 DEF GeneratorData
  <2> HIDE DEF Request, r, new
  <2>2. queue \in Seq(Request) /\ asked \in Seq(Pair) /\ queue # <<>>
        /\ \A i \in DOMAIN queue : (i \in DOMAIN gen.queue /\ queue[i] = gen.queue[i]) \/ queue[i] = r
    BY <1>2, <2>1
  <2>3. gen' = [state |-> gen.state, queue |-> queue, asked |-> asked, answers |-> gen.answers]
    BY <1>1, <1>3 DEF GeneratorData
  <2> HIDE DEF queue, asked
  <2>4. gen' \in GeneratorData
    BY <1>1, <2>2, <2>3 DEF GeneratorData, Request
  <2>5. \A i \in DOMAIN queue : queue[i].pair \in Made(eng')
    BY <1>1, <1>2, <2>1, <2>2
  <2> QED
    BY <2>2, <2>3, <2>4, <2>5
<1> HIDE DEF queue, r, new
<1>5. f \in Frame(comb) /\ f.kind = "resumeNext"
  BY <1>2 DEF ResumeNext, Frame
<1> HIDE DEF f
<1>6. Keeps(eng, eng', Continued) /\ Keeps(eng, eng', Returned) /\ \A a \in Activation : Keeps(eng, eng', Resume(a))
  BY <1>1, <1>2 DEF Moves
<1>7. CASE gen.state = "executing"
  <2>1. stack' = stack /\ held' = held \cup {New(eng)}
    BY <1>7 DEF CallGenerator, EnterLoop
  <2>2. Generating'
    BY <1>1, <1>4, <1>6, <2>1, StillGenerating
  <2>3. GeneratorStep
    BY <1>1, <1>2, <1>3, <1>4, <1>6, <2>1, <2>2 DEF GeneratorStep, CallGenerator, Moves
  <2> QED
    BY <2>3, GeneratorStepKeeps
<1>8. CASE gen.state # "executing"
  <2>1. stack' = <<f>> \o stack /\ held' = held
    BY <1>8 DEF CallGenerator, EnterLoop, f
  <2>2. \A g \in InProgress(stack) : g.kind # "generator"
    BY <1>1, <1>8 DEF Generating
  <2>3. \A g \in InProgress(stack) : g.kind # "resumeNext"
    BY <1>1, <1>3, <2>2, LoopPlace DEF ScriptRuns, ScriptFrames
  <2>4. stack # <<>> => Head(stack) \in InProgress(stack)
    BY <1>1 DEF InProgress
  <2>5. MayStand(f, stack)
    BY <1>3, <1>5, <2>3, <2>4 DEF MayStand, Alike
  <2>6. stack' \in Seq(Frame(comb)) /\ InProgress(stack') = InProgress(stack) \cup {f}
    BY <1>1, <1>5, <2>1, PushFrame
  <2>7. Stacked(stack')
    BY <1>1, <1>5, <2>1, <2>5, PushStacked
  <2>8. Generating'
    <3>1. Alone(eng', Continued) /\ ~Expects(eng', Continued)
      BY <1>1, <1>6, <1>8 DEF Generating, Keeps
    <3>2. Alone(eng', Returned) /\ (Expects(eng', Returned) <=> gen'.state = "awaitingReturn")
      BY <1>1, <1>4, <1>6 DEF Generating, Keeps
    <3>3. \A g \in InProgress(stack') : g.kind # "generator"
      BY <1>5, <2>2, <2>6
    <3> QED
      BY <1>4, <1>8, <3>1, <3>2, <3>3 DEF Generating
  <2>9. \A g : g.kind \notin {"resumeNext", "generator"} => (g \in InProgress(stack') <=> g \in InProgress(stack))
    BY <1>5, <2>6
  <2>10. GeneratorStep
    BY <1>1, <1>2, <1>3, <1>4, <1>6, <2>1, <2>6, <2>7, <2>8, <2>9 DEF GeneratorStep, CallGenerator, Moves
  <2> QED
    BY <2>10, GeneratorStepKeeps
<1> QED
  BY <1>7, <1>8

\* The loop or the body is the innermost frame.
LEMMA LoopKnown ==
  ASSUME Base, Top("resumeNext")
  PROVE  LET t == Tail(stack) IN
         /\ stack # <<>> /\ SubSeq(stack, 1 + 1, Len(stack)) = t /\ t \in Seq(Frame(comb)) /\ Stacked(t)
         /\ InProgress(stack) = InProgress(t) \cup {Head(stack)} /\ stack[1] = Head(stack)
         /\ Given(Head(stack)) \subseteq Promise /\ Head(stack).kind = "resumeNext"
         /\ \A g \in InProgress(t) : g.kind \notin {"resumeNext", "generator"}
<1>1. stack \in Seq(Frame(comb)) /\ Stacked(stack) /\ stack # <<>> /\ Head(stack).kind = "resumeNext"
  BY DEF Base, TypeOK, Top
<1> DEFINE f == Head(stack)
           t == Tail(stack)
<1>2. SubSeq(stack, 1 + 1, Len(stack)) = t /\ stack[1] = f
  BY <1>1, Rest
<1>3. t \in Seq(Frame(comb)) /\ f \in Frame(comb) /\ InProgress(stack) = InProgress(t) \cup {f}
      /\ Stacked(t) /\ \A g \in InProgress(t) : ~Alike(f, g)
  BY <1>1, Drop
<1>4. \A g \in InProgress(t) : g.kind # "generator"
  BY <1>1, <1>3, NoBody
<1>5. f.kind = "resumeNext"
  BY <1>1
<1> HIDE DEF f
<1>6. Given(f) \subseteq Promise
  BY <1>3, <1>5 DEF Given, Frame, GeneratorBody
<1>7. \A g \in InProgress(t) : g.kind # "resumeNext"
  BY <1>3, <1>5 DEF Alike
<1> QED
  BY <1>1, <1>2, <1>3, <1>4, <1>5, <1>6, <1>7 DEF f

LEMMA BodyTop ==
  ASSUME Base, Top("generator")
  PROVE  LET t == Tail(stack) IN
         /\ stack # <<>> /\ t \in Seq(Frame(comb)) /\ Stacked(t) /\ InProgress(stack) = InProgress(t) \cup {Head(stack)}
         /\ t # <<>> /\ Head(t) \in InProgress(t) /\ Head(t).kind = "resumeNext" /\ Head(stack).kind = "generator"
         /\ \A g \in InProgress(t) : g.kind # "generator"
         /\ SubSeq(stack, 2 + 1, Len(stack)) = Tail(t) /\ stack[2] = Head(t) /\ Given(Head(t)) \subseteq Promise
         /\ Tail(t) \in Seq(Frame(comb)) /\ Stacked(Tail(t)) /\ InProgress(t) = InProgress(Tail(t)) \cup {Head(t)}
         /\ \A g \in InProgress(Tail(t)) : g.kind \notin {"resumeNext", "generator"}
         /\ gen.state = "executing" /\ gen.queue # <<>> /\ ~Expects(eng, Continued)
<1>1. stack \in Seq(Frame(comb)) /\ Stacked(stack) /\ stack # <<>> /\ Head(stack).kind = "generator"
  BY DEF Base, TypeOK, Top
<1> DEFINE t == Tail(stack)
<1>2. /\ t \in Seq(Frame(comb)) /\ InProgress(stack) = InProgress(t) \cup {Head(stack)}
      /\ Stacked(t) /\ t # <<>> /\ Head(t).kind = "resumeNext"
  BY <1>1, Drop
<1>3. SubSeq(stack, 2 + 1, Len(stack)) = Tail(t) /\ stack[2] = Head(t)
  BY SMTT(60), <1>1, <1>2, Rest
<1> HIDE DEF t
<1> DEFINE f == Head(t)
<1>4. /\ Tail(t) \in Seq(Frame(comb)) /\ f \in Frame(comb) /\ InProgress(t) = InProgress(Tail(t)) \cup {f}
      /\ Stacked(Tail(t)) /\ \A g \in InProgress(Tail(t)) : ~Alike(f, g)
  BY <1>2, Drop
<1>5. \A g \in InProgress(t) : g.kind # "generator"
  BY <1>2, NoBody
<1>6. f.kind = "resumeNext"
  BY <1>2
<1> HIDE DEF f
<1>7. Given(f) \subseteq Promise
  BY <1>4, <1>6 DEF Given, Frame, GeneratorBody
<1>8. \A g \in InProgress(Tail(t)) : g.kind \notin {"resumeNext", "generator"}
  BY <1>4, <1>5, <1>6 DEF Alike
<1>9. Generating /\ Head(stack) \in InProgress(stack) /\ f \in InProgress(stack) /\ f \in InProgress(t)
  BY <1>2, <1>4 DEF Base
<1>10. gen.state = "executing" /\ gen.queue # <<>> /\ ~Expects(eng, Continued)
  BY <1>1, <1>6, <1>9 DEF Generating
<1> QED
  BY <1>1, <1>2, <1>3, <1>4, <1>5, <1>6, <1>7, <1>8, <1>9, <1>10 DEF f, t

\* The loop ends, or has nothing to do but enter the body.
LEMMA LoopKeeps ==
  ASSUME Base, UNCHANGED comb, NoRequest \/ EnterBody \/ NeverStarted
  PROVE  Base' /\ Grows(eng, eng')
<1>1. /\ gen \in GeneratorData /\ Generating /\ (\A i \in DOMAIN gen.queue : gen.queue[i].pair \in Made(eng))
      /\ stack \in Seq(Frame(comb)) /\ Stacked(stack)
      /\ Good(eng, Handler(comb), Val) /\ ScriptTyped
  BY GeneratorKnown
<1> DEFINE t == Tail(stack)
<1>2. Top("resumeNext") /\ UNCHANGED <<comb, eng, log, script, act>>
  BY DEF NoRequest, EnterBody, NeverStarted, Looping
<1>3. /\ stack # <<>> /\ SubSeq(stack, 1 + 1, Len(stack)) = t /\ t \in Seq(Frame(comb)) /\ Stacked(t)
      /\ InProgress(stack) = InProgress(t) \cup {Head(stack)} /\ stack[1] = Head(stack)
      /\ Given(Head(stack)) \subseteq Promise /\ Head(stack).kind = "resumeNext"
      /\ \A g \in InProgress(t) : g.kind \notin {"resumeNext", "generator"}
  BY <1>2, LoopKnown
<1> HIDE DEF t
<1>4. Evolves(eng, eng', comb) /\ \A a \in Activation : Keeps(eng, eng', Resume(a))
  BY <1>1, <1>2, GeneratorKnown, MovesTransitive DEF Moves
<1>5. ScriptTyped'
  BY <1>1, <1>2 DEF ScriptTyped
<1>6. Head(stack) \in InProgress(stack)
  BY <1>3
<1>7. ~Expects(eng, Continued) /\ \A g \in InProgress(stack) : g.kind # "generator"
  BY <1>1, <1>3, <1>6 DEF Generating
<1>8. CASE NoRequest
  <2>1. stack' = t /\ held' \subseteq held \cup Promise /\ gen' = gen
    BY <1>3, <1>8 DEF NoRequest, LeaveLoop
  <2>2. gen.state # "executing"
    BY <1>1, <1>8 DEF NoRequest, Generating
  <2>3. Generating'
    BY <1>1, <1>2, <1>3, <1>7, <2>1, <2>2 DEF Generating
  <2>4. GeneratorStep
    BY <1>1, <1>2, <1>3, <1>4, <1>5, <2>1, <2>3 DEF GeneratorStep
  <2> QED
    BY <2>4, GeneratorStepKeeps
<1>9. CASE EnterBody
  <2> DEFINE f == GeneratorBody
  <2>1. f \in Frame(comb) /\ f.kind = "generator"
    BY DEF Frame, GeneratorBody
  <2>2. stack' = <<f>> \o stack /\ held' = held
    BY <1>9 DEF EnterBody
  <2> HIDE DEF f
  <2>3. MayStand(f, stack)
    BY <1>3, <2>1 DEF MayStand, Alike
  <2>4. stack' \in Seq(Frame(comb)) /\ InProgress(stack') = InProgress(stack) \cup {f}
    BY <1>1, <2>1, <2>2, PushFrame
  <2>5. Stacked(stack')
    BY <1>1, <2>1, <2>2, <2>3, PushStacked
  <2>6. gen' = [gen EXCEPT !.state = "executing"] /\ gen.queue # <<>> /\ gen.state # "awaitingReturn"
    BY <1>9 DEF EnterBody, Looping
  <2>7. gen' \in GeneratorData /\ gen'.queue = gen.queue /\ gen'.state = "executing"
    BY <1>1, <2>6 DEF GeneratorData
  <2>8. Generating'
    BY <1>1, <1>2, <1>3, <1>6, <1>7, <2>4, <2>6, <2>7 DEF Generating
  <2>9. \A g : g.kind \notin {"resumeNext", "generator"} => (g \in InProgress(stack') <=> g \in InProgress(stack))
    BY <2>1, <2>4
  <2>10. GeneratorStep
    BY <1>1, <1>2, <1>4, <1>5, <2>2, <2>4, <2>5, <2>7, <2>8, <2>9 DEF GeneratorStep
  <2> QED
    BY <2>10, GeneratorStepKeeps
<1>10. CASE NeverStarted
  <2>1. gen' = [gen EXCEPT !.state = "completed"] /\ gen.state = "suspendedStart" /\ stack' = stack /\ held' = held
    BY <1>10 DEF NeverStarted, Looping
  <2>2. gen' \in GeneratorData /\ gen'.queue = gen.queue /\ gen'.state = "completed"
    BY <1>1, <2>1 DEF GeneratorData
  <2>3. Generating'
    BY <1>1, <1>2, <1>7, <2>1, <2>2 DEF Generating
  <2>4. GeneratorStep
    BY <1>1, <1>2, <1>4, <1>5, <2>1, <2>2, <2>3 DEF GeneratorStep
  <2> QED
    BY <2>4, GeneratorStepKeeps
<1> QED
  BY <1>8, <1>9, <1>10

\* A generator that has ended answers a request, or awaits the value of a return.
LEMMA AnswerCompletedKeeps ==
  ASSUME Base, UNCHANGED comb, AnswerCompleted
  PROVE  Base' /\ Grows(eng, eng')
<1>1. /\ gen \in GeneratorData /\ Generating /\ (\A i \in DOMAIN gen.queue : gen.queue[i].pair \in Made(eng))
      /\ Good(eng, Handler(comb), Val) /\ ScriptTyped /\ Value \subseteq Val
      /\ Continued \in Control /\ Continued \in Handler(comb) /\ Returned \in Control /\ Returned \in Handler(comb)
      /\ Continued # Returned /\ \A a \in Activation : Resume(a) \in Control \ {Continued, Returned}
      /\ gen.queue # <<>> => Head1.pair \in Made(eng) /\ Head1.value \in Value
  BY GeneratorKnown
<1> DEFINE t == Tail(stack)
<1>2. Top("resumeNext") /\ gen.queue # <<>> /\ gen.state = "completed" /\ UNCHANGED <<comb, log, script, act>>
  BY DEF AnswerCompleted, Looping
<1>3. /\ stack # <<>> /\ SubSeq(stack, 1 + 1, Len(stack)) = t /\ t \in Seq(Frame(comb)) /\ Stacked(t)
      /\ InProgress(stack) = InProgress(t) \cup {Head(stack)} /\ stack[1] = Head(stack)
      /\ Given(Head(stack)) \subseteq Promise /\ Head(stack).kind = "resumeNext"
      /\ \A g \in InProgress(t) : g.kind \notin {"resumeNext", "generator"}
  BY <1>2, LoopKnown
<1> HIDE DEF t
<1>4. stack' = t /\ held' \subseteq held \cup Promise /\ ScriptTyped'
  BY <1>1, <1>2, <1>3 DEF AnswerCompleted, LeaveLoop, ScriptTyped
<1>5. ~Expects(eng, Continued) /\ ~Expects(eng, Returned)
  BY <1>1, <1>2 DEF Generating
<1>6. ASSUME NEW how \in How, NEW v \in Val, NEW w \in Val, eng' = Answer(eng, how, v), gen' = Answered("completed", w)
      PROVE  Base' /\ Grows(eng, eng')
  <2>1. Moves(eng, eng', comb)
    BY <1>1, <1>2, <1>6, CallMoves DEF Answer
  <2>2. Made(eng) \subseteq Made(eng')
    BY <1>1, <2>1, EvolvesMade DEF Moves
  <2>3. gen' \in GeneratorData /\ gen'.state = "completed" /\ \A i \in DOMAIN gen'.queue : gen'.queue[i].pair \in Made(eng')
    BY <1>1, <1>2, <1>6, <2>2, AnsweredTyped
  <2>4. Alone(eng', Continued) /\ ~Expects(eng', Continued) /\ Alone(eng', Returned) /\ ~Expects(eng', Returned)
    BY <1>1, <1>5, <2>1 DEF Generating, Moves, Keeps
  <2>5. Generating'
    BY <1>3, <1>4, <2>3, <2>4 DEF Generating
  <2>6. GeneratorStep
    BY <1>1, <1>2, <1>3, <1>4, <2>1, <2>3, <2>5 DEF GeneratorStep, Moves
  <2> QED
    BY <2>6, GeneratorStepKeeps
<1>7. ASSUME CanAwait(Head1.value), eng' = AwaitOn(eng, Head1.value, Continue("returned", None)),
             gen' = [gen EXCEPT !.state = "awaitingReturn"]
      PROVE  Base' /\ Grows(eng, eng')
  <2> DEFINE v == Head1.value
             h == Returned
  <2>1. v \in Val /\ (v \notin Promise => Fresh(eng) # {}) /\ eng' = AwaitOn(eng, v, [how \in How |-> h])
    BY <1>1, <1>2, <1>7 DEF CanAwait, Continue, Returned
  <2>2. h \in Control /\ h \in Handler(comb) /\ Alone(eng, h) /\ ~Expects(eng, h)
    BY <1>1, <1>5 DEF Generating
  <2> HIDE DEF v, h
  <2>3. /\ Evolves(eng, eng', comb) /\ \A g \in Control : g # h => Keeps(eng, eng', g)
        /\ Alone(eng', h) /\ Expects(eng', h)
    BY <1>1, <2>1, <2>2, AwaitMoves
  <2>4. gen' \in GeneratorData /\ gen'.queue = gen.queue /\ gen'.state = "awaitingReturn"
    BY <1>1, <1>7 DEF GeneratorData
  <2>5. Alone(eng', Continued) /\ ~Expects(eng', Continued)
    BY <1>1, <1>5, <2>3 DEF Generating, Keeps, h
  <2>6. Generating'
    BY <1>2, <1>3, <1>4, <2>3, <2>4, <2>5 DEF Generating, h
  <2>7. Made(eng) \subseteq Made(eng')
    BY <1>1, <2>3, EvolvesMade
  <2>8. \A a \in Activation : Keeps(eng, eng', Resume(a))
    BY <1>1, <2>3 DEF h
  <2>9. GeneratorStep
    BY <1>1, <1>2, <1>3, <1>4, <2>3, <2>4, <2>6, <2>7, <2>8 DEF GeneratorStep
  <2> QED
    BY <2>9, GeneratorStepKeeps
<1>8. "fulfilled" \in How /\ "rejected" \in How /\ Done \in Val /\ Error \in Val /\ Head1.value \in Val
  BY <1>1, <1>2 DEF How, Val, Value
<1> QED
  BY <1>6, <1>7, <1>8 DEF AnswerCompleted

\* The body of the generator yields or ends: the first request is answered.
LEMMA BodyAnswersKeeps ==
  ASSUME Base, UNCHANGED comb, Yield \/ \E how \in How, v \in HeldValue : GeneratorEnds(how, v)
  PROVE  Base' /\ Grows(eng, eng')
<1>1. /\ gen \in GeneratorData /\ Generating /\ (\A i \in DOMAIN gen.queue : gen.queue[i].pair \in Made(eng))
      /\ Good(eng, Handler(comb), Val) /\ ScriptTyped /\ HeldValue \subseteq Value /\ Value \subseteq Val
      /\ Continued \in Control /\ Returned \in Control /\ \A a \in Activation : Resume(a) \in Control
      /\ gen.queue # <<>> => Head1.pair \in Made(eng)
  BY GeneratorKnown
<1> DEFINE t == Tail(stack)
<1>2. Top("generator") /\ UNCHANGED <<comb, held, log, act>> /\ stack' = t
  BY DEF Yield, GeneratorEnds, Pop
<1>3. /\ t \in Seq(Frame(comb)) /\ Stacked(t) /\ InProgress(stack) = InProgress(t) \cup {Head(stack)}
      /\ Head(stack).kind = "generator" /\ \A g \in InProgress(t) : g.kind # "generator"
      /\ gen.state = "executing" /\ gen.queue # <<>> /\ ~Expects(eng, Continued)
  BY <1>2, BodyTop
<1> HIDE DEF t
<1>4. ScriptTyped'
  BY <1>1, DoesTyped DEF Yield, GeneratorEnds
<1>5. PICK how \in How, v \in Val, w \in Val, state \in {"suspendedYield", "completed"} :
        eng' = Answer(eng, how, v) /\ gen' = Answered(state, w)
  <2>1. Iterated \in Val /\ Done \in Val /\ Error \in Val /\ "fulfilled" \in How /\ HeldValue \subseteq Val
    BY <1>1 DEF Val, Value, How
  <2>2. CASE Yield
    BY <2>1, <2>2 DEF Yield
  <2>3. ASSUME NEW how \in How, NEW v \in HeldValue, GeneratorEnds(how, v)
        PROVE  \E x \in Val, w \in Val : eng' = Answer(eng, how, x) /\ gen' = Answered("completed", w)
    BY <2>1, <2>3 DEF GeneratorEnds
  <2> QED
    BY <2>2, <2>3
<1>6. Moves(eng, eng', comb)
  BY <1>1, <1>3, <1>5, CallMoves DEF Answer
<1>7. Made(eng) \subseteq Made(eng')
  BY <1>1, <1>6, EvolvesMade DEF Moves
<1>8. gen' \in GeneratorData /\ gen'.state = state /\ \A i \in DOMAIN gen'.queue : gen'.queue[i].pair \in Made(eng')
  BY <1>1, <1>3, <1>5, <1>7, AnsweredTyped
<1>9. Alone(eng', Continued) /\ ~Expects(eng', Continued) /\ Alone(eng', Returned) /\ ~Expects(eng', Returned)
  BY <1>1, <1>3, <1>6 DEF Generating, Moves, Keeps
<1>10. Generating'
  BY <1>2, <1>3, <1>8, <1>9 DEF Generating
<1>11. GeneratorStep
  BY <1>1, <1>2, <1>3, <1>4, <1>6, <1>8, <1>10 DEF GeneratorStep, Moves
<1> QED
  BY <1>11, GeneratorStepKeeps

\* The body of the generator awaits, and the loop is left.
LEMMA GeneratorAwaitsKeeps ==
  ASSUME Base, UNCHANGED comb, NEW v \in HeldValue, GeneratorAwaits(v)
  PROVE  Base' /\ Grows(eng, eng')
<1>1. /\ gen \in GeneratorData /\ Generating /\ (\A i \in DOMAIN gen.queue : gen.queue[i].pair \in Made(eng))
      /\ Good(eng, Handler(comb), Val) /\ ScriptTyped /\ HeldValue \subseteq Value /\ Value \subseteq Val
      /\ Continued \in Control /\ Continued \in Handler(comb) /\ Returned \in Control
      /\ Continued # Returned /\ \A a \in Activation : Resume(a) \in Control \ {Continued, Returned}
  BY GeneratorKnown
<1> DEFINE t == Tail(stack)
           s == Tail(t)
<1>2. Top("generator") /\ UNCHANGED <<comb, log, act, gen>>
  BY DEF GeneratorAwaits
<1>3. /\ InProgress(stack) = InProgress(t) \cup {Head(stack)} /\ Head(stack).kind = "generator"
      /\ Head(t).kind = "resumeNext"
      /\ SubSeq(stack, 2 + 1, Len(stack)) = s /\ stack[2] = Head(t) /\ Given(Head(t)) \subseteq Promise
      /\ s \in Seq(Frame(comb)) /\ Stacked(s) /\ InProgress(t) = InProgress(s) \cup {Head(t)}
      /\ \A g \in InProgress(s) : g.kind \notin {"resumeNext", "generator"}
      /\ gen.state = "executing" /\ gen.queue # <<>> /\ ~Expects(eng, Continued)
  BY <1>2, BodyTop
<1> HIDE DEF s
<1>4. stack' = s /\ held' \subseteq held \cup Promise
  BY <1>3 DEF GeneratorAwaits, LeaveLoop
<1> HIDE DEF t
<1> DEFINE h == Continued
<1>5. v \in Val /\ (v \notin Promise => Fresh(eng) # {}) /\ eng' = AwaitOn(eng, v, [how \in How |-> h]) /\ ScriptTyped'
  BY <1>1, DoesTyped DEF GeneratorAwaits, CanAwait, Continue, Continued
<1>6. h \in Control /\ h \in Handler(comb) /\ Alone(eng, h) /\ ~Expects(eng, h)
  BY <1>1, <1>3 DEF Generating
<1> HIDE DEF h
<1>7. /\ Evolves(eng, eng', comb) /\ \A g \in Control : g # h => Keeps(eng, eng', g)
      /\ Alone(eng', h) /\ Expects(eng', h)
  BY <1>1, <1>5, <1>6, AwaitMoves
<1>8. Alone(eng', Returned) /\ (Expects(eng', Returned) <=> Expects(eng, Returned))
  BY <1>1, <1>7 DEF Generating, Keeps, h
<1>9. Generating'
  BY <1>1, <1>2, <1>3, <1>4, <1>7, <1>8 DEF Generating, h
<1>10. Made(eng) \subseteq Made(eng')
  BY <1>1, <1>7, EvolvesMade
<1>11. \A a \in Activation : Keeps(eng, eng', Resume(a))
  BY <1>1, <1>7 DEF h
<1>12. GeneratorStep
  BY <1>1, <1>2, <1>3, <1>4, <1>5, <1>7, <1>9, <1>10, <1>11 DEF GeneratorStep
<1> QED
  BY <1>12, GeneratorStepKeeps

\* The jobs that continue the generator.
LEMMA GeneratorJobKeeps ==
  ASSUME Base, UNCHANGED comb, RunContinue \/ RunReturned
  PROVE  Base' /\ Grows(eng, eng')
<1>1. /\ gen \in GeneratorData /\ Generating /\ (\A i \in DOMAIN gen.queue : gen.queue[i].pair \in Made(eng))
      /\ stack \in Seq(Frame(comb)) /\ Stacked(stack)
      /\ Good(eng, Handler(comb), Val) /\ ScriptTyped
      /\ Continued \in Control /\ Returned \in Control
      /\ Continued # Returned /\ \A a \in Activation : Resume(a) \in Control \ {Continued, Returned}
      /\ gen.queue # <<>> => Head1.pair \in Made(eng)
  BY GeneratorKnown
<1>2. JobRuns("reaction") /\ stack = <<>> /\ UNCHANGED <<comb, held, log, script, act>>
  BY DEF RunContinue, RunReturned, Reacts, JobRuns
<1>3. /\ Evolves(eng, Popped, comb) /\ Good(Popped, Handler(comb), Val) /\ Job \in ReactionJobs(Handler(comb), Val)
      /\ \A h \in Control : h # Job.handler => Keeps(eng, Popped, h)
  BY <1>2, JobKnown
<1>4. Job.handler \in Handler(comb) /\ Job.how \in How /\ Job.arg \in Val
  BY <1>3 DEF ReactionJobs
<1>5. ScriptTyped' /\ InProgress(stack) = {}
  BY <1>1, <1>2 DEF ScriptTyped, InProgress
<1>6. Made(eng) \subseteq Made(Popped)
  BY <1>1, <1>3, EvolvesMade
<1>7. CASE RunContinue
  <2>1. Job.handler = Continued /\ eng' = Popped /\ gen' = gen
    BY <1>4, <1>7 DEF RunContinue, Reacts, Handler, Undefined, Resume, Returned, Continued
  <2>2. Alone(eng', Continued) /\ ~Expects(eng', Continued) /\ Expects(eng, Continued)
    BY <1>1, <1>2, <2>1, TakeControl
  <2>3. gen.state = "executing"
    BY <1>1, <2>2 DEF Generating
  <2> DEFINE f == ResumeNext(None)
  <2>4. stack' = <<f>> \o stack
    BY <1>2, <1>7, <2>3 DEF RunContinue
  <2>5. f \in Frame(comb) /\ f.kind = "resumeNext"
    BY DEF ResumeNext, Frame
  <2> HIDE DEF f
  <2>6. MayStand(f, stack)
    BY <1>2, <1>5, <2>5 DEF MayStand
  <2>7. stack' \in Seq(Frame(comb)) /\ InProgress(stack') = InProgress(stack) \cup {f}
    BY <1>1, <2>4, <2>5, PushFrame
  <2>8. Stacked(stack')
    BY <1>1, <2>4, <2>5, <2>6, PushStacked
  <2>9. Keeps(eng, eng', Returned) /\ \A a \in Activation : Keeps(eng, eng', Resume(a))
    BY <1>1, <1>3, <2>1
  <2>10. Generating'
    BY <1>1, <1>5, <2>1, <2>2, <2>3, <2>5, <2>7, <2>9 DEF Generating, Keeps
  <2>11. \A g : g.kind \notin {"resumeNext", "generator"} => (g \in InProgress(stack') <=> g \in InProgress(stack))
    BY <2>5, <2>7
  <2>12. GeneratorStep
    BY <1>1, <1>2, <1>3, <1>5, <1>6, <2>1, <2>7, <2>8, <2>9, <2>10, <2>11 DEF GeneratorStep
  <2> QED
    BY <2>12, GeneratorStepKeeps
<1>8. CASE RunReturned
  <2> DEFINE v == IF Job.how = "fulfilled" THEN Done ELSE Job.arg
             w == IF Job.how = "fulfilled" THEN Done ELSE Error
  <2>1. Job.handler = Returned /\ eng' = Answer(Popped, Job.how, v) /\ gen' = Answered("completed", w) /\ stack' = stack
    BY <1>4, <1>8 DEF RunReturned, Reacts, Handler, Undefined, Resume, Returned, Continued
  <2>2. v \in Val /\ w \in Val
    BY <1>4 DEF Val, Value
  <2> HIDE DEF v, w
  <2>3. Alone(Popped, Returned) /\ ~Expects(Popped, Returned) /\ Expects(eng, Returned)
    BY <1>1, <1>2, <2>1, TakeControl
  <2>4. gen.state = "awaitingReturn" /\ gen.queue # <<>>
    BY <1>1, <2>3 DEF Generating
  <2>5. Moves(Popped, eng', comb)
    BY <1>1, <1>3, <1>4, <1>6, <2>1, <2>2, <2>4, CallMoves DEF Answer
  <2>6. Evolves(eng, eng', comb)
    BY <1>1, <1>3, <2>5, MovesTransitive DEF Moves
  <2>7. \A a \in Activation : Keeps(eng, eng', Resume(a))
    BY <1>1, <1>3, <2>1, <2>5 DEF Moves, Keeps
  <2>8. Alone(eng', Returned) /\ ~Expects(eng', Returned)
    BY <1>1, <2>3, <2>5 DEF Moves, Keeps
  <2>9. Alone(eng', Continued) /\ ~Expects(eng', Continued)
    BY <1>1, <1>3, <2>1, <2>4, <2>5 DEF Moves, Keeps, Generating
  <2>10. Made(eng) \subseteq Made(eng')
    BY <1>1, <2>6, EvolvesMade
  <2>11. gen' \in GeneratorData /\ gen'.state = "completed" /\ \A i \in DOMAIN gen'.queue : gen'.queue[i].pair \in Made(eng')
    BY <1>1, <2>1, <2>2, <2>4, <2>10, AnsweredTyped
  <2>12. Generating'
    BY <1>5, <2>1, <2>8, <2>9, <2>11 DEF Generating
  <2>13. GeneratorStep
    BY <1>1, <1>2, <1>5, <2>1, <2>6, <2>7, <2>11, <2>12 DEF GeneratorStep
  <2> QED
    BY <2>13, GeneratorStepKeeps
<1> QED
  BY <1>7, <1>8

\* Coroutines.
LEMMA CoroutinesKeeps ==
  ASSUME Base, CoroutinesNext, UNCHANGED comb
  PROVE  Base' /\ Grows(eng, eng')
<1>1. ASSUME NEW a \in Activation, CallAsync(a) PROVE Base' /\ Grows(eng, eng')
  BY <1>1, CallAsyncKeeps
<1>2. CASE AwaitFails \/ \E how \in How, v \in HeldValue : BodyEnds(how, v)
  BY <1>2, BodyEndsKeeps
<1>3. CASE RunResume
  BY <1>3, RunResumeKeeps
<1>4. ASSUME NEW v \in HeldValue, Await(v) PROVE Base' /\ Grows(eng, eng')
  BY <1>4, AwaitKeeps
<1>5. ASSUME NEW v \in HeldValue, GeneratorAwaits(v) PROVE Base' /\ Grows(eng, eng')
  BY <1>5, GeneratorAwaitsKeeps
<1>6. CASE Yield \/ \E how \in How, v \in HeldValue : GeneratorEnds(how, v)
  BY <1>6, BodyAnswersKeeps
<1>7. ASSUME NEW v \in HeldValue, NEW type \in {"next", "return", "throw"}, CallGenerator(type, v)
      PROVE  Base' /\ Grows(eng, eng')
  BY <1>7, CallGeneratorKeeps
<1>8. CASE NoRequest \/ EnterBody \/ NeverStarted
  BY <1>8, LoopKeeps
<1>9. CASE AnswerCompleted
  BY <1>9, AnswerCompletedKeeps
<1>10. CASE RunContinue \/ RunReturned
  BY <1>10, GeneratorJobKeeps
<1> QED
  BY <1>1, <1>2, <1>3, <1>4, <1>5, <1>6, <1>7, <1>8, <1>9, <1>10 DEF CoroutinesNext

\* Every step keeps the invariant, and takes no promise or outcome back.
LEMMA NextKeeps ==
  ASSUME Base, Next
  PROVE  Base' /\ Grows(eng, eng')
<1>1. CASE PromisesNext /\ UNCHANGED <<comb, cvars>>
  BY <1>1, ScriptKeeps, ScriptEndsKeeps, RunJobKeeps DEF PromisesNext
<1>2. CASE CombinatorNext /\ UNCHANGED cvars
  BY <1>2, CombinatorKeeps
<1>3. CASE CoroutinesNext /\ UNCHANGED comb
  BY <1>3, CoroutinesKeeps
<1> QED
  BY <1>1, <1>2, <1>3 DEF Next

-----------------------------------------------------------------------------
(* The first state, and stuttering.                                       *)

\* Nothing has been made, called or queued.
LEMMA InitKeeps == Init => Base
<1> SUFFICES ASSUME Init PROVE Base
  OBVIOUS
<1>1. /\ eng = [promise |-> [p \in Promise |-> [state |-> "pending", result |-> None, reactions |-> <<>>]],
                pairs |-> [p \in Promise |-> 0], resolved |-> {}, jobs |-> <<>>,
                follows |-> [p \in Promise |-> None]]
      /\ stack = <<>> /\ held = {} /\ script \in Scripts /\ comb = NoCombinator
      /\ log = [registered |-> <<>>, ran |-> <<>>, odd |-> {}]
      /\ act = [a \in Activation |-> [state |-> "none", cap |-> None, on |-> None]]
      /\ gen = [state |-> "suspendedStart", queue |-> <<>>, asked |-> <<>>, answers |-> <<>>]
  BY DEF Init, PromisesInit, CombinatorInit, CoroutinesInit
<1>2. /\ eng.jobs = <<>> /\ eng.resolved = {}
      /\ \A p \in Promise : /\ eng.promise[p].state = "pending" /\ eng.promise[p].reactions = <<>>
                            /\ eng.pairs[p] = 0
  BY <1>1
<1>3. eng \in Engine(Handler(comb), Val)
  <2>1. <<>> \in Seq([on : [How -> Handler(comb)], cap : Capability])
    BY EmptySeq
  <2>2. <<>> \in Seq(ReactionJobs(Handler(comb), Val) \cup ThenableJobs)
    BY EmptySeq
  <2>3. [state |-> "pending", result |-> None, reactions |-> <<>>] \in PromiseState(Handler(comb), Val)
    BY <2>1 DEF PromiseState, Val
  <2> QED
    BY <1>1, <2>2, <2>3 DEF Engine
<1>4. Sound(eng)
  BY <1>2 DEF Sound, PairsIn, Settled, Once
<1>5. ASSUME NEW p \in Promise PROVE Resolver(eng, p)
  BY <1>2, <1>5 DEF Resolver, Last, Waits, Once, Settled
<1>6. ASSUME NEW h PROVE Alone(eng, h) /\ ~Expects(eng, h)
  BY <1>2 DEF Alone, Expects, Registered, Queued
<1>7. TypeOK
  <2>1. stack \in Seq(Frame(comb))
    BY <1>1, EmptySeq
  <2>2. LogTyped
    BY <1>1, EmptySeq DEF LogTyped
  <2>3. ScriptTyped
    BY <1>1, PromisesAssumption DEF ScriptTyped
  <2>4. act \in [Activation -> ActivationData]
    BY <1>1 DEF ActivationData, Capability
  <2>5. gen \in GeneratorData
    BY <1>1, EmptySeq DEF GeneratorData
  <2> QED
    BY <1>1, <2>1, <2>2, <2>3, <2>4, <2>5 DEF TypeOK
<1>8. InProgress(stack) = {}
  BY <1>1 DEF InProgress
<1>9. Referred(Made(eng))
  BY <1>1, <1>8 DEF Referred, CapIn
<1>10. Stacked(stack)
  BY <1>1 DEF Stacked
<1>11. ASSUME NEW a \in Activation PROVE Activated(a)
  BY <1>1, <1>6, <1>8, <1>11 DEF Activated
<1>12. Generating
  BY <1>1, <1>6, <1>8 DEF Generating
<1> QED
  BY <1>3, <1>4, <1>5, <1>7, <1>8, <1>9, <1>10, <1>11, <1>12 DEF Base, Good

\* What the invariant says depends on the variables alone.
LEMMA StutterKeeps ==
  ASSUME Base, UNCHANGED vars
  PROVE  Base'
<1>1. /\ eng' = eng /\ stack' = stack /\ held' = held /\ log' = log /\ script' = script
      /\ comb' = comb /\ act' = act /\ gen' = gen
  BY DEF vars, pvars, cvars
<1>2. TypeOK' /\ InProgress(stack') = InProgress(stack)
  BY <1>1 DEF Base, TypeOK, LogTyped, ScriptTyped
<1>3. Good(eng', Handler(comb'), Val)
  BY <1>1 DEF Base
<1>4. Referred(Made(eng))' /\ Stacked(stack')
  BY <1>1, <1>2 DEF Base, Referred
<1>5. \A a \in Activation : Activated(a)'
  BY <1>1, <1>2 DEF Base, Activated
<1>6. \A f \in InProgress(stack') : Informed(f)'
  BY <1>1, <1>2 DEF Base, Informed
<1>7. Generating'
  BY <1>1, <1>2 DEF Base, Generating
<1> QED
  BY <1>1, <1>2, <1>3, <1>4, <1>5, <1>6, <1>7 DEF Base

-----------------------------------------------------------------------------
(* Resolving functions that native code keeps for itself.                  *)

\* Nobody refers to the pairs of K in this engine, and nobody has called them.
Spared(K, e, c) ==
  /\ Good(e, Handler(c), Val)
  /\ K \subseteq Made(e) /\ K \cap e.resolved = {} /\ PairsIn(e, Made(e) \ K)
Sparing(K, e, d, c) == Spared(K, d, c) /\ Made(e) \subseteq Made(d)

\* What is referred to.
LEMMA PairsMeet ==
  ASSUME NEW e, NEW S, NEW T
  PROVE  /\ PairsIn(e, S) /\ PairsIn(e, T) => PairsIn(e, S \cap T)
         /\ S \subseteq T /\ PairsIn(e, S) => PairsIn(e, T)
<1>1. \A r : /\ ReactionIn(r, S) /\ ReactionIn(r, T) => ReactionIn(r, S \cap T)
             /\ S \subseteq T /\ ReactionIn(r, S) => ReactionIn(r, T)
  BY DEF ReactionIn, CapIn, HandlerIn
<1>2. \A job : /\ JobIn(job, S) /\ JobIn(job, T) => JobIn(job, S \cap T)
               /\ S \subseteq T /\ JobIn(job, S) => JobIn(job, T)
  BY DEF JobIn, CapIn, HandlerIn
<1> QED
  BY <1>1, <1>2 DEF PairsIn

\* A promise is created: its pair is as private as its maker wants.
LEMMA CreateSpares ==
  ASSUME NEW c, NEW K, NEW e, Spared(K, e, c), Fresh(e) # {}
  PROVE  /\ Sparing(K, e, Create(e), c) /\ Spared(K \cup {Cap(New(e))}, Create(e), c)
         /\ New(e) \in Promise /\ Cap(New(e)) \in Made(Create(e)) \ Made(e)
<1> DEFINE d == Create(e)
           new == Cap(New(e))
<1>1. /\ Good(d, Handler(c), Val) /\ New(e) \in Promise /\ new \in Made(d) \ Made(e)
      /\ Made(e) \subseteq Made(d) /\ d.resolved = e.resolved /\ \A S : PairsIn(e, S) => PairsIn(d, S)
  BY CreateGood DEF Spared
<1> HIDE DEF d, new
<1>2. /\ K \subseteq Made(e) /\ K \cap e.resolved = {} /\ PairsIn(d, Made(e) \ K) /\ e.resolved \subseteq Made(e)
  BY <1>1 DEF Spared, Good, Sound
<1>3. PairsIn(d, Made(d) \ K) /\ PairsIn(d, Made(d) \ (K \cup {new}))
  <2>1. Made(e) \ K \subseteq Made(d) \ K /\ Made(e) \ K \subseteq Made(d) \ (K \cup {new})
    BY <1>1
  <2> QED
    BY <1>2, <2>1, PairsMeet
<1> QED
  BY <1>1, <1>2, <1>3 DEF Spared, Sparing, d, new

\* A resolving function is called.
LEMMA CallSpares ==
  ASSUME NEW c, NEW K, NEW e, Spared(K, e, c), NEW pair \in Made(e) \ K, NEW how \in How, NEW v \in Val
  PROVE  Sparing(K, e, ResolvingCall(e, pair, how, v), c) /\ pair \in ResolvingCall(e, pair, how, v).resolved
<1>1. Resolves(e, ResolvingCall(e, pair, how, v), Handler(c), Val, pair)
  BY ResolvingCallGood DEF Spared, Val, Value
<1> QED
  BY <1>1 DEF Resolves, Spared, Sparing

\* A handler ends.
LEMMA FinishSpares ==
  ASSUME NEW c, NEW K, NEW e, Spared(K, e, c), NEW cap, CapIn(cap, Made(e) \ K), NEW how \in How, NEW v \in Val
  PROVE  Sparing(K, e, Finish(e, cap, how, v), c)
<1>1. CASE cap = None
  BY <1>1 DEF Finish, Sparing
<1>2. CASE cap # None
  BY <1>2, CallSpares DEF Finish, CapIn
<1> QED
  BY <1>1, <1>2

\* A reaction is added.
LEMMA ThenSpares ==
  ASSUME NEW c, NEW K, NEW e, Spared(K, e, c), NEW p \in Promise, NEW on \in [How -> Handler(c)],
         NEW cap \in Capability, ReactionIn([on |-> on, cap |-> cap], Made(e) \ K)
  PROVE  Sparing(K, e, Then(e, p, on, cap), c)
<1> DEFINE d == Then(e, p, on, cap)
<1>1. ReactionIn([on |-> on, cap |-> cap], Made(e))
  BY DEF ReactionIn, CapIn, HandlerIn
<1>2. /\ Good(d, Handler(c), Val) /\ Made(d) = Made(e) /\ d.resolved = e.resolved
      /\ \A S : PairsIn(e, S) /\ ReactionIn([on |-> on, cap |-> cap], S) => PairsIn(d, S)
  BY <1>1, ThenGood DEF Spared
<1> HIDE DEF d
<1> QED
  BY <1>2 DEF Spared, Sparing, d

\* A value is made a promise.
LEMMA WrapSpares ==
  ASSUME NEW c, NEW K, NEW e, Spared(K, e, c), NEW v \in Val, v \notin Promise => Fresh(e) # {}
  PROVE  Sparing(K, e, Wrap(e, v), c) /\ Wrapped(e, v) \in Promise
<1>1. CASE v \in Promise
  BY <1>1 DEF Wrap, Wrapped, Sparing
<1>2. CASE v \notin Promise
  <2>1. Sparing(K, e, Create(e), c) /\ New(e) \in Promise /\ Cap(New(e)) \in Made(Create(e)) \ Made(e)
    BY <1>2, CreateSpares
  <2>2. Cap(New(e)) \notin K /\ "fulfilled" \in How
    BY <2>1 DEF Spared, How
  <2>3. Sparing(K, Create(e), Wrap(e, v), c)
    BY <1>2, <2>1, <2>2, CallSpares DEF Wrap, Sparing
  <2> QED
    BY <1>2, <2>1, <2>3 DEF Sparing, Wrapped
<1> QED
  BY <1>1, <1>2

\* Suspended code waits for a value.
LEMMA AwaitSpares ==
  ASSUME NEW c, NEW K, NEW e, Spared(K, e, c), NEW v \in Val, v \notin Promise => Fresh(e) # {},
         NEW h \in Control, h \in Handler(c)
  PROVE  Sparing(K, e, AwaitOn(e, v, [how \in How |-> h]), c)
<1> DEFINE on == [how \in How |-> h]
<1>1. Sparing(K, e, Wrap(e, v), c) /\ Wrapped(e, v) \in Promise
  BY WrapSpares
<1>2. on \in [How -> Handler(c)] /\ (\A how \in How : on[how].fn # "settle") /\ None \in Capability
  BY DEF Control, Resume, Continued, Returned, Capability
<1> HIDE DEF on
<1>3. ReactionIn([on |-> on, cap |-> None], Made(Wrap(e, v)) \ K)
  BY <1>2 DEF ReactionIn, CapIn, HandlerIn
<1>4. Sparing(K, Wrap(e, v), AwaitOn(e, v, on), c)
  BY <1>1, <1>2, <1>3, ThenSpares DEF AwaitOn, Sparing
<1> QED
  BY <1>1, <1>4 DEF Sparing, on

\* The job of a reaction is taken.
LEMMA PopSpares ==
  ASSUME NEW c, NEW K, NEW e, Spared(K, e, c), e.jobs # <<>>, Head(e.jobs).kind = "reaction",
         NEW d, d = [e EXCEPT !.jobs = Tail(@)]
  PROVE  /\ Sparing(K, e, d, c) /\ Head(e.jobs) \in ReactionJobs(Handler(c), Val)
         /\ CapIn(Head(e.jobs).cap, Made(d) \ K) /\ HandlerIn(Head(e.jobs).handler, Made(d) \ K)
<1>1. /\ Good(d, Handler(c), Val) /\ Made(d) = Made(e) /\ d.resolved = e.resolved
      /\ Head(e.jobs) \in ReactionJobs(Handler(c), Val)
      /\ \A S : PairsIn(e, S) => PairsIn(d, S) /\ CapIn(Head(e.jobs).cap, S) /\ HandlerIn(Head(e.jobs).handler, S)
  BY PopReaction DEF Spared
<1> QED
  BY <1>1 DEF Spared, Sparing

\* The job of a thenable is taken.
LEMMA AdoptSpares ==
  ASSUME NEW c, NEW K, NEW e, Spared(K, e, c), e.jobs # <<>>, Head(e.jobs).kind = "thenable",
         NEW d, d = CreateResolvingFunctions([e EXCEPT !.jobs = Tail(@)], Head(e.jobs).promise)
  PROVE  /\ Sparing(K, e, d, c) /\ Head(e.jobs) \in ThenableJobs
         /\ NewPair(e, Head(e.jobs).promise) \in Made(d) \ K
<1>1. /\ Good(d, Handler(c), Val) /\ Head(e.jobs) \in ThenableJobs
      /\ Made(e) \subseteq Made(d) /\ NewPair(e, Head(e.jobs).promise) \in Made(d) \ Made(e)
      /\ d.resolved = e.resolved /\ \A S : PairsIn(e, S) => PairsIn(d, S)
  BY ZenonT(60), PopThenable DEF Spared
<1>2. PairsIn(d, Made(e) \ K) /\ K \subseteq Made(e) /\ K \cap e.resolved = {}
  BY <1>1 DEF Spared
<1>3. Made(e) \ K \subseteq Made(d) \ K
  BY <1>1
<1>4. PairsIn(d, Made(d) \ K)
  BY ZenonT(60), <1>2, <1>3, PairsMeet
<1> QED
  BY <1>1, <1>2, <1>4 DEF Spared, Sparing

\* The frames of a stack that was changed at its top.
LEMMA FramesLeft ==
  ASSUME NEW F, NEW s \in Seq(F)
  PROVE  /\ \A f : InProgress(<<f>> \o s) \subseteq InProgress(s) \cup {f}
         /\ s # <<>> => InProgress(Tail(s)) \subseteq InProgress(s)
         /\ \A n \in Nat : InProgress(SubSeq(s, n + 1, Len(s))) \subseteq InProgress(s)
<1>1. ASSUME NEW f PROVE InProgress(<<f>> \o s) \subseteq InProgress(s) \cup {f}
  <2>1. s \in Seq(F \cup {f}) /\ f \in F \cup {f}
    BY SeqMonotonic
  <2> QED
    BY <2>1, PushFrame
<1>2. ASSUME s # <<>> PROVE InProgress(Tail(s)) \subseteq InProgress(s)
  <2>1. InProgress(s) = InProgress(Tail(s)) \cup {Head(s)}
    BY <1>2, Drop
  <2> QED
    BY <2>1
<1>3. ASSUME NEW n \in Nat PROVE InProgress(SubSeq(s, n + 1, Len(s))) \subseteq InProgress(s)
  <2> DEFINE t == SubSeq(s, n + 1, Len(s))
  <2>1. \A i \in DOMAIN t : \E j \in DOMAIN s : t[i] = s[j]
    <3>1. CASE n + 1 <= Len(s)
      <4>1. Len(t) = Len(s) - n /\ DOMAIN t = 1 .. Len(s) - n /\ Len(s) \in Nat /\ DOMAIN s = 1 .. Len(s)
        BY <3>1
      <4>2. \A i \in 1 .. Len(s) - n : t[i] = s[i + n]
        BY SMTT(60), <3>1
      <4>3. ASSUME NEW i \in 1 .. Len(s) - n PROVE i + n \in DOMAIN s
        <5>1. n \in Nat /\ Len(s) \in Nat /\ i \in 1 .. Len(s) - n
          BY <4>1
        <5>2. i \in Int /\ 1 <= i /\ i <= Len(s) - n
          BY ONLY <5>1
        <5>3. i + n \in 1 .. Len(s)
          BY ONLY <5>1, <5>2
        <5> QED
          BY ZenonT(60), <4>1, <5>3
      <4> QED
        BY <4>1, <4>2, <4>3
    <3>2. CASE ~(n + 1 <= Len(s))
      <4>1. Len(s) \in Nat
        OBVIOUS
      <4>2. DOMAIN t = {}
        BY <3>2, <4>1
      <4> QED
        BY <4>2
    <3> QED
      BY <3>1, <3>2
  <2> QED
    BY <2>1 DEF InProgress
<1> QED
  BY <1>1, <1>2, <1>3

-----------------------------------------------------------------------------
(* Steps that call none of these functions.                                *)

Hidden(K) == K \subseteq Made(eng) /\ Private(K, eng, held, stack, comb)
StaysHidden(K) == Private(K, eng', held', stack', comb')

\* What else there is to refer to.
LEMMA HiddenKnown ==
  ASSUME Base, NEW K, Hidden(K)
  PROVE  /\ Spared(K, eng, comb)
         /\ held \subseteq Promise \cup (Made(eng) \ K)
         /\ \A f \in InProgress(stack) : FrameIn(f, Made(eng) \ K)
         /\ comb # NoCombinator => comb.cap \in Made(eng) \ K
<1>1. /\ Good(eng, Handler(comb), Val) /\ PairsIn(eng, Made(eng)) /\ Referred(Made(eng))
      /\ K \subseteq Made(eng) /\ Private(K, eng, held, stack, comb) /\ Made(eng) \subseteq Pair
  BY DEF Base, Good, Sound, Hidden, Made
<1>2. Made(eng) \cap (Pair \ K) = Made(eng) \ K
  BY <1>1
<1>3. PairsIn(eng, Made(eng) \ K)
  BY <1>1, <1>2, PairsMeet DEF Private
<1>4. ASSUME NEW f \in InProgress(stack) PROVE FrameIn(f, Made(eng) \ K)
  BY <1>1, <1>4 DEF Private, Referred, FrameIn, CapIn
<1> QED
  BY <1>1, <1>3, <1>4 DEF Private, Referred, Spared

\* A step that refers to nothing else.
LEMMA HiddenStep ==
  ASSUME Base, NEW K, Hidden(K), NEW L, NEW c, Spared(L, eng', c), Made(eng) \ K \subseteq Made(eng') \ L,
         held' \subseteq held \cup Promise \cup (Made(eng') \ L),
         \A f \in InProgress(stack') : f \in InProgress(stack) \/ FrameIn(f, Made(eng') \ L),
         comb' # NoCombinator => comb'.cap \in Made(eng') \ L
  PROVE  StaysHidden(L)
<1>1. /\ held \subseteq Promise \cup (Made(eng) \ K)
      /\ \A f \in InProgress(stack) : FrameIn(f, Made(eng) \ K)
  BY HiddenKnown
<1>2. Made(eng') \ L \subseteq Pair \ L
  BY DEF Made
<1>3. \A f \in InProgress(stack') : FrameIn(f, Pair \ L)
  BY <1>1, <1>2 DEF FrameIn, CapIn
<1>4. PairsIn(eng', Pair \ L) /\ L \cap eng'.resolved = {}
  BY <1>2, PairsMeet DEF Spared
<1>5. (held' \ Promise) \cap L = {}
  BY <1>1
<1> QED
  BY <1>3, <1>4, <1>5 DEF StaysHidden, Private

\* A step of the promises.
LEMMA PromiseHides ==
  ASSUME Base, NEW K, Hidden(K), UNCHANGED <<comb, cvars>>, Sparing(K, eng, eng', comb),
         held' \subseteq held \cup Promise \cup (Made(eng') \ K),
         \A f \in InProgress(stack') : f \in InProgress(stack) \/ FrameIn(f, Made(eng') \ K)
  PROVE  StaysHidden(K)
<1>1. Spared(K, eng', comb) /\ Made(eng) \ K \subseteq Made(eng') \ K
  BY DEF Sparing
<1>2. comb' # NoCombinator => comb'.cap \in Made(eng') \ K
  BY <1>1, HiddenKnown
<1> QED
  BY <1>1, <1>2, HiddenStep

\* The operations of scripts.
LEMMA ScriptHides ==
  ASSUME Base, NEW K, Hidden(K), Script, UNCHANGED <<comb, cvars>>
  PROVE  StaysHidden(K)
<1>1. /\ Spared(K, eng, comb) /\ held \subseteq Promise \cup (Made(eng) \ K)
      /\ HeldValue \subseteq Val /\ stack \in Seq(Frame(comb)) /\ LogTyped
  BY HiddenKnown, Known
<1> DEFINE p == New(eng)
           d == Create(eng)
<1>2. Fresh(eng) # {} => /\ Sparing(K, eng, d, comb) /\ p \in Promise
                         /\ Cap(p) \in Made(d) \ K /\ Cap(p) \in Capability
  <2>1. Fresh(eng) # {} => /\ Sparing(K, eng, d, comb) /\ p \in Promise /\ Cap(p) \in Made(d) \ Made(eng)
    BY <1>1, CreateSpares
  <2> QED
    BY <2>1 DEF Hidden, Made, Capability
<1>3. CASE Construct
  <2> DEFINE f == [kind |-> "settler", pair |-> Cap(p)]
  <2>1. Sparing(K, eng, eng', comb) /\ held' \subseteq held \cup Promise \cup (Made(eng') \ K)
    BY <1>2, <1>3 DEF Construct
  <2>2. FrameIn(f, Made(eng') \ K) /\ stack' = <<f>> \o stack
    BY <1>2, <1>3 DEF Construct, FrameIn
  <2> HIDE DEF f
  <2>3. InProgress(stack') \subseteq InProgress(stack) \cup {f}
    BY <1>1, <2>2, FramesLeft
  <2> QED
    BY <2>1, <2>2, <2>3, PromiseHides
<1>4. CASE WithResolvers
  <2>1. Sparing(K, eng, eng', comb) /\ held' \subseteq held \cup Promise \cup (Made(eng') \ K) /\ stack' = stack
    BY <1>2, <1>4 DEF WithResolvers
  <2> QED
    BY <2>1, PromiseHides
<1>5. CASE Try
  <2> DEFINE f == [kind |-> "callback", cap |-> Cap(p)]
  <2>1. Sparing(K, eng, eng', comb) /\ held' \subseteq held \cup Promise \cup (Made(eng') \ K)
    BY <1>2, <1>5 DEF Try
  <2>2. FrameIn(f, Made(eng') \ K) /\ stack' = <<f>> \o stack
    BY <1>2, <1>5 DEF Try, FrameIn, CapIn
  <2> HIDE DEF f
  <2>3. InProgress(stack') \subseteq InProgress(stack) \cup {f}
    BY <1>1, <2>2, FramesLeft
  <2> QED
    BY <2>1, <2>2, <2>3, PromiseHides
<1>6. ASSUME NEW how \in How, NEW v \in HeldValue, MakeSettled(how, v) PROVE StaysHidden(K)
  <2>1. Fresh(eng) # {} /\ eng' = ResolvingCall(d, Cap(p), how, v) /\ v \in Val
        /\ held' = held \cup {p} /\ stack' = stack
    BY <1>1, <1>6 DEF MakeSettled
  <2>2. Sparing(K, d, eng', comb)
    BY <1>2, <2>1, CallSpares DEF Sparing
  <2>3. Sparing(K, eng, eng', comb)
    BY <1>2, <2>1, <2>2 DEF Sparing
  <2> QED
    BY <1>2, <2>1, <2>3, PromiseHides
<1>7. ASSUME NEW pair \in held \ Promise, NEW how \in How, NEW v \in HeldValue, CallResolving(pair, how, v)
      PROVE  StaysHidden(K)
  <2>1. eng' = ResolvingCall(eng, pair, how, v) /\ v \in Val /\ held' = held /\ stack' = stack
    BY <1>1, <1>7 DEF CallResolving
  <2>2. pair \in Made(eng) \ K
    BY <1>1
  <2>3. Sparing(K, eng, eng', comb)
    BY <1>1, <2>1, <2>2, CallSpares
  <2> QED
    BY <2>1, <2>3, PromiseHides
<1>8. ASSUME NEW o \in held \cap Promise, NEW sides \in SUBSET How, NEW fn \in {"callback", "finally"}, Register(o, sides, fn)
      PROVE  StaysHidden(K)
  <2> DEFINE on == [how \in How |-> IF how \in sides THEN Callback(fn, Len(log.registered) + 1) ELSE Undefined]
  <2>1. Fresh(eng) # {} /\ eng' = Then(d, o, on, Cap(p)) /\ held' = held \cup {p} /\ stack' = stack
    BY <1>8 DEF Register
  <2>2. Len(log.registered) + 1 \in Nat
    BY <1>1 DEF LogTyped
  <2>3. Callback(fn, Len(log.registered) + 1) \in Handler(comb) /\ Undefined \in Handler(comb)
        /\ Callback(fn, Len(log.registered) + 1).fn # "settle" /\ Undefined.fn # "settle"
    BY <2>2 DEF Callback, Handler, Undefined
  <2>4. on \in [How -> Handler(comb)] /\ \A how \in How : on[how].fn # "settle"
    BY <2>3
  <2> HIDE DEF on, d, p
  <2>5. ReactionIn([on |-> on, cap |-> Cap(p)], Made(d) \ K)
    BY <1>2, <2>1, <2>4 DEF ReactionIn, CapIn, HandlerIn
  <2>6. Sparing(K, d, eng', comb)
    BY <1>2, <2>1, <2>4, <2>5, ThenSpares DEF Sparing
  <2>7. Sparing(K, eng, eng', comb)
    BY <1>2, <2>1, <2>6 DEF Sparing
  <2> QED
    BY <1>2, <2>1, <2>7, PromiseHides
<1>9. ASSUME NEW o \in held \cap Promise, (\E sides \in SUBSET How : CallThen(o, sides)) \/ CallFinally(o)
      PROVE  StaysHidden(K)
  <2>1. \A sides \in SUBSET How : CallThen(o, sides) => StaysHidden(K)
    BY <1>8 DEF CallThen
  <2>2. CallFinally(o) => StaysHidden(K)
    BY <1>8 DEF CallFinally
  <2> QED
    BY <1>9, <2>1, <2>2
<1> QED
  BY <1>3, <1>4, <1>5, <1>6, <1>7, <1>9 DEF Script

\* The ends of the functions of scripts.
LEMMA ScriptEndsHides ==
  ASSUME Base, NEW K, Hidden(K), ScriptEnds, UNCHANGED <<comb, cvars>>
  PROVE  StaysHidden(K)
<1>1. /\ Spared(K, eng, comb) /\ HeldValue \subseteq Val /\ stack \in Seq(Frame(comb))
      /\ \A f \in InProgress(stack) : FrameIn(f, Made(eng) \ K)
      /\ stack # <<>> => Head(stack) \in InProgress(stack) /\ Head(stack) \in Frame(comb)
  BY HiddenKnown, Known
<1> DEFINE f == Head(stack)
<1>2. ASSUME NEW kind, Top(kind), Pop PROVE InProgress(stack') \subseteq InProgress(stack) /\ FrameIn(f, Made(eng) \ K)
  BY <1>1, <1>2, FramesLeft DEF Top, Pop
<1>3. ASSUME NEW v \in HeldValue, NEW how \in How, CallbackEnds(how, v) PROVE StaysHidden(K)
  <2>1. InProgress(stack') \subseteq InProgress(stack) /\ CapIn(f.cap, Made(eng) \ K) /\ v \in Val /\ held' = held
    BY <1>1, <1>2, <1>3 DEF CallbackEnds, FrameIn, Top
  <2>2. Sparing(K, eng, eng', comb)
    BY <1>1, <1>3, <2>1, FinishSpares DEF CallbackEnds
  <2> QED
    BY <2>1, <2>2, PromiseHides
<1>4. ASSUME NEW v \in HeldValue, NEW how \in How, SettlerEnds(how, v) PROVE StaysHidden(K)
  <2>1. InProgress(stack') \subseteq InProgress(stack) /\ f.pair \in Made(eng) \ K /\ v \in Val /\ held' = held
    BY <1>1, <1>2, <1>4 DEF SettlerEnds, FrameIn, Top
  <2>2. Sparing(K, eng, ResolvingCall(eng, f.pair, "rejected", v), comb) /\ Sparing(K, eng, eng, comb)
    BY <1>1, <2>1, CallSpares DEF How, Sparing
  <2>3. Sparing(K, eng, eng', comb)
    BY <1>4, <2>2 DEF SettlerEnds
  <2> QED
    BY <2>1, <2>3, PromiseHides
<1>5. ASSUME Top("finally") PROVE f.how \in How /\ f.arg \in Val
  <2>1. f \in Frame(comb) /\ f.kind = "finally"
    BY <1>1, <1>5 DEF Top
  <2> HIDE DEF f
  <2>2. f \in [kind : {"callback", "finally"}, id : Nat, cap : Capability, how : How, arg : Val]
    BY <2>1 DEF Frame, GeneratorBody
  <2> QED
    BY <2>2
<1>6. ASSUME NEW v \in HeldValue, FinallyReturns(v) PROVE StaysHidden(K)
  <2> DEFINE d == Wrap(eng, v)
             p == Wrapped(eng, v)
             b == Create(d)
             on == [how \in How |-> IF how = "fulfilled" THEN Thunk(f.how, f.arg) ELSE Undefined]
             c == Then(b, p, on, Cap(New(d)))
  <2>1. /\ InProgress(stack') \subseteq InProgress(stack) /\ CapIn(f.cap, Made(eng) \ K)
        /\ v \in Val /\ held' = held /\ Fresh(d) # {} /\ (v \notin Promise => Fresh(eng) # {})
        /\ f.how \in How /\ f.arg \in Val
    BY <1>1, <1>2, <1>5, <1>6 DEF FinallyReturns, FrameIn, Top
  <2>2. Sparing(K, eng, d, comb) /\ p \in Promise
    BY <1>1, <2>1, WrapSpares
  <2>3. Sparing(K, d, b, comb) /\ New(d) \in Promise /\ Cap(New(d)) \in Made(b) \ Made(d)
    BY <2>1, <2>2, CreateSpares DEF Sparing
  <2>4. Thunk(f.how, f.arg) \in Handler(comb) /\ Undefined \in Handler(comb)
        /\ Thunk(f.how, f.arg).fn # "settle" /\ Undefined.fn # "settle"
    BY <2>1 DEF Thunk, Handler, Undefined
  <2>5. on \in [How -> Handler(comb)] /\ \A how \in How : on[how].fn # "settle"
    BY <2>4
  <2>6. eng' = Finish(c, f.cap, "fulfilled", New(d)) /\ New(d) \in Val /\ "fulfilled" \in How
    BY <1>6, <2>3 DEF FinallyReturns, AfterFinally, Val, Value, How
  <2>7. Cap(New(d)) \in Capability /\ Cap(New(d)) \in Made(b) \ K
    BY <2>2, <2>3 DEF Made, Capability, Sparing, Spared
  <2> HIDE DEF on, b, d, p
  <2>8. ReactionIn([on |-> on, cap |-> Cap(New(d))], Made(b) \ K)
    BY <2>5, <2>7 DEF ReactionIn, CapIn, HandlerIn
  <2>9. Sparing(K, b, c, comb)
    BY <2>2, <2>3, <2>5, <2>7, <2>8, ThenSpares DEF Sparing
  <2> HIDE DEF c
  <2>10. Made(eng) \subseteq Made(c) /\ Spared(K, c, comb)
    BY <2>2, <2>3, <2>9 DEF Sparing
  <2>11. CapIn(f.cap, Made(c) \ K)
    BY <2>1, <2>10 DEF CapIn
  <2>12. Sparing(K, c, eng', comb)
    BY <2>6, <2>10, <2>11, FinishSpares
  <2>13. Sparing(K, eng, eng', comb)
    BY <2>10, <2>12 DEF Sparing
  <2> QED
    BY <2>1, <2>13, PromiseHides
<1>7. ASSUME NEW v \in HeldValue, FinallyThrows(v) PROVE StaysHidden(K)
  <2>1. InProgress(stack') \subseteq InProgress(stack) /\ CapIn(f.cap, Made(eng) \ K) /\ v \in Val /\ held' = held
    BY <1>1, <1>2, <1>7 DEF FinallyThrows, FrameIn, Top
  <2>2. "rejected" \in How
    BY DEF How
  <2>3. Sparing(K, eng, eng', comb)
    BY <1>1, <1>7, <2>1, <2>2, FinishSpares DEF FinallyThrows
  <2> QED
    BY <2>1, <2>3, PromiseHides
<1> QED
  BY <1>3, <1>4, <1>6, <1>7 DEF ScriptEnds

\* The first job, if it is the job of a reaction.
LEMMA JobHides ==
  ASSUME Base, NEW K, Hidden(K), JobRuns("reaction")
  PROVE  /\ Sparing(K, eng, Popped, comb) /\ Job \in ReactionJobs(Handler(comb), Val)
         /\ CapIn(Job.cap, Made(Popped) \ K) /\ HandlerIn(Job.handler, Made(Popped) \ K)
<1>1. Spared(K, eng, comb) /\ eng.jobs # <<>> /\ Head(eng.jobs).kind = "reaction"
  BY HiddenKnown DEF JobRuns, Job
<1> QED
  BY <1>1, PopSpares DEF Popped, Job

\* Jobs.
LEMMA RunJobHides ==
  ASSUME Base, NEW K, Hidden(K), RunJob, UNCHANGED <<comb, cvars>>
  PROVE  StaysHidden(K)
<1>1. Spared(K, eng, comb) /\ stack \in Seq(Frame(comb))
  BY HiddenKnown, Known
<1> DEFINE d == Popped
<1>2. ASSUME NEW fn, Reacts(fn)
      PROVE  /\ Sparing(K, eng, d, comb) /\ stack = <<>>
             /\ CapIn(Job.cap, Made(d) \ K) /\ HandlerIn(Job.handler, Made(d) \ K)
             /\ Job.how \in How /\ Job.arg \in Val /\ Job.handler \in Handler(comb)
             /\ Job.handler.fn = fn
  BY <1>2, JobHides DEF Reacts, JobRuns, ReactionJobs
<1> HIDE DEF d
<1>3. CASE PassOn
  <2>1. Sparing(K, d, eng', comb) /\ Sparing(K, eng, d, comb) /\ stack' = stack /\ held' = held
    BY <1>2, <1>3, FinishSpares DEF PassOn, d, Sparing
  <2>2. Sparing(K, eng, eng', comb)
    BY <2>1 DEF Sparing
  <2> QED
    BY <2>1, <2>2, PromiseHides
<1>4. CASE RunSettler
  <2>1. /\ Sparing(K, eng, d, comb) /\ HandlerIn(Job.handler, Made(d) \ K)
        /\ Job.arg \in Val /\ Job.handler \in Handler(comb) /\ Job.handler.fn = "settle"
        /\ eng' = ResolvingCall(d, Job.handler.pair, Job.handler.how, Job.arg) /\ stack' = stack /\ held' = held
    BY <1>2, <1>4 DEF RunSettler, d
  <2>2. Job.handler.pair \in Made(d) \ K /\ Job.handler.how \in How
    BY <2>1 DEF HandlerIn, Handler, Undefined, Resume, Continued, Returned
  <2>3. Sparing(K, d, eng', comb)
    BY <2>1, <2>2, CallSpares DEF Sparing
  <2>4. Sparing(K, eng, eng', comb)
    BY <2>1, <2>3 DEF Sparing
  <2> QED
    BY <2>1, <2>4, PromiseHides
<1>5. CASE RunThunk
  <2>1. /\ Sparing(K, eng, d, comb) /\ CapIn(Job.cap, Made(d) \ K)
        /\ Job.handler \in Handler(comb) /\ Job.handler.fn = "thunk"
        /\ eng' = Finish(d, Job.cap, Job.handler.how, Job.handler.arg) /\ stack' = stack /\ held' = held
    BY <1>2, <1>5 DEF RunThunk, d
  <2>2. Job.handler.how \in How /\ Job.handler.arg \in Val
    BY <2>1 DEF Handler, Undefined, Resume, Continued, Returned
  <2>3. Sparing(K, d, eng', comb)
    BY <2>1, <2>2, FinishSpares DEF Sparing
  <2>4. Sparing(K, eng, eng', comb)
    BY <2>1, <2>3 DEF Sparing
  <2> QED
    BY <2>1, <2>4, PromiseHides
<1>6. CASE RunCallback
  <2> DEFINE f == [kind |-> Job.handler.fn, id |-> Job.handler.id, cap |-> Job.cap, how |-> Job.how, arg |-> Job.arg]
  <2>1. /\ Sparing(K, eng, eng', comb) /\ CapIn(Job.cap, Made(eng') \ K) /\ stack = <<>> /\ held' = held
        /\ Job.handler.fn \in {"callback", "finally"}
    BY <1>2, <1>6 DEF RunCallback, d
  <2>2. stack' = <<f>> \o stack
    BY <1>6, <2>1 DEF RunCallback
  <2>3. FrameIn(f, Made(eng') \ K)
    BY <2>1 DEF FrameIn
  <2> HIDE DEF f
  <2>4. InProgress(stack') \subseteq InProgress(stack) \cup {f}
    BY <1>1, <2>2, FramesLeft
  <2> QED
    BY <2>1, <2>3, <2>4, PromiseHides
<1>7. CASE RunThenable
  <2> DEFINE pair == NewPair(eng, Job.promise)
             e == CreateResolvingFunctions(Popped, Job.promise)
  <2>1. Sparing(K, eng, e, comb) /\ Job \in ThenableJobs /\ pair \in Made(e) \ K
    BY <1>1, <1>7, AdoptSpares DEF RunThenable, JobRuns, Job, Popped
  <2>2. stack = <<>> /\ pair \in Pair
    BY <1>7, <2>1 DEF RunThenable, JobRuns, Made
  <2>3. CASE Job.thenable \in Promise
    <3> DEFINE on == [how \in How |-> Settler(pair, how)]
    <3>1. eng' = Then(e, Job.thenable, on, None) /\ stack' = stack /\ held' = held
      BY <1>7, <2>3 DEF RunThenable
    <3>2. \A how \in How : Settler(pair, how) \in Handler(comb) /\ Settler(pair, how).pair = pair
      BY <2>2 DEF Settler, Handler
    <3>3. on \in [How -> Handler(comb)] /\ \A how \in How : on[how].pair = pair
      BY <3>2
    <3> HIDE DEF on, e, pair
    <3>4. None \in Capability /\ ReactionIn([on |-> on, cap |-> None], Made(e) \ K)
      BY <2>1, <3>3 DEF Capability, ReactionIn, CapIn, HandlerIn
    <3>5. Sparing(K, e, eng', comb)
      BY <2>1, <2>3, <3>1, <3>3, <3>4, ThenSpares DEF Sparing
    <3>6. Sparing(K, eng, eng', comb)
      BY <2>1, <3>5 DEF Sparing
    <3> QED
      BY <3>1, <3>6, PromiseHides
  <2>4. CASE Job.thenable \notin Promise
    <3> DEFINE f == [kind |-> "settler", pair |-> pair]
    <3>1. eng' = e /\ held' = held \cup {pair} /\ stack' = <<f>> \o stack
      BY <1>7, <2>2, <2>4 DEF RunThenable
    <3>2. FrameIn(f, Made(eng') \ K)
      BY <2>1, <3>1 DEF FrameIn
    <3> HIDE DEF f, e, pair
    <3>3. InProgress(stack') \subseteq InProgress(stack) \cup {f}
      BY <1>1, <3>1, FramesLeft
    <3> QED
      BY <2>1, <3>1, <3>2, <3>3, PromiseHides
  <2> QED
    BY <2>3, <2>4
<1> QED
  BY <1>3, <1>4, <1>5, <1>6, <1>7 DEF RunJob

\* A step of the combinator.
LEMMA CombinatorHides ==
  ASSUME Base, NEW K, Hidden(K), comb # NoCombinator, comb'.cap = comb.cap, Sparing(K, eng, eng', comb),
         held' \subseteq held \cup Promise \cup (Made(eng') \ K),
         \A f \in InProgress(stack') : f \in InProgress(stack) \/ FrameIn(f, Made(eng') \ K)
  PROVE  StaysHidden(K)
<1>1. Spared(K, eng', comb) /\ Made(eng) \ K \subseteq Made(eng') \ K
  BY DEF Sparing
<1>2. comb'.cap \in Made(eng') \ K
  BY <1>1, HiddenKnown
<1> QED
  BY <1>1, <1>2, HiddenStep

\* The end of an item.
LEMMA CompleteHides ==
  ASSUME NEW c \in Combinator, NEW K, NEW e, Spared(K, e, comb), c.cap \in Made(e) \ K
  PROVE  Sparing(K, e, CompleteIfZero(e, c), comb)
<1>1. Error \in Val /\ Array \in Val /\ How = {"fulfilled", "rejected"}
  BY DEF Val, Value, How
<1>2. Sparing(K, e, ResolvingCall(e, c.cap, "rejected", Error), comb)
      /\ Sparing(K, e, ResolvingCall(e, c.cap, "fulfilled", Array), comb)
  BY <1>1, CallSpares
<1>3. Sparing(K, e, e, comb)
  BY DEF Sparing
<1> QED
  BY <1>2, <1>3 DEF CompleteIfZero, Complete

LEMMA CallElementHides ==
  ASSUME comb \in Combinator, NEW K, NEW e, Spared(K, e, comb), comb.cap \in Made(e) \ K,
         NEW i \in Nat, NEW how \in How, NEW v \in Val, CallElement(e, i, how, v)
  PROVE  Sparing(K, e, eng', comb) /\ comb'.cap = comb.cap
<1>1. comb' \in Combinator /\ comb'.cap = comb.cap
  BY CallElementMoves DEF Spared
<1>2. CASE CalledKey(i, how) \in comb.called
  BY <1>1, <1>2 DEF CallElement, Sparing
<1>3. CASE CalledKey(i, how) \notin comb.called
  <2>1. eng' = CompleteIfZero(e, comb')
    BY <1>3 DEF CallElement
  <2> QED
    BY <1>1, <2>1, CompleteHides
<1> QED
  BY <1>2, <1>3

\* A combinator is called.
LEMMA CombineHides ==
  ASSUME Base, NEW K, Hidden(K), UNCHANGED cvars,
         NEW kind \in CombinatorKinds, NEW n \in 0 .. MaxItems, NEW items \in [1 .. n -> CombinatorItems], Combine(kind, items)
  PROVE  StaysHidden(K)
<1> DEFINE f == [kind |-> "combine"]
<1>1. /\ comb = NoCombinator /\ Fresh(eng) # {} /\ eng' = Create(eng) /\ held' = held
      /\ comb'.cap = Cap(New(eng)) /\ stack' = <<f>> \o stack
  BY DEF Combine
<1>2. /\ Spared(K, eng, comb) /\ stack \in Seq(Frame(comb))
  BY HiddenKnown, Known
<1>3. Sparing(K, eng, eng', comb) /\ Cap(New(eng)) \in Made(eng') \ Made(eng)
  BY <1>1, <1>2, CreateSpares
<1>4. Spared(K, eng', comb) /\ Made(eng) \ K \subseteq Made(eng') \ K /\ comb'.cap \in Made(eng') \ K
  BY <1>1, <1>3 DEF Sparing, Hidden
<1>5. FrameIn(f, Made(eng') \ K)
  BY DEF FrameIn
<1> HIDE DEF f
<1>6. InProgress(stack') \subseteq InProgress(stack) \cup {f}
  BY <1>1, <1>2, FramesLeft
<1> QED
  BY <1>1, <1>4, <1>5, <1>6, HiddenStep

\* The loop over the items.
LEMMA NextItemHides ==
  ASSUME Base, NEW K, Hidden(K), UNCHANGED cvars, NextItem
  PROVE  StaysHidden(K)
<1>1. /\ Spared(K, eng, comb) /\ stack \in Seq(Frame(comb)) /\ comb # NoCombinator
      /\ comb \in Combinator /\ comb.cap \in Made(eng) \ K
  BY HiddenKnown, Known, CombinatorKnown DEF NextItem
<1> DEFINE i == comb.index + 1
           item == comb.items[i]
           c == [(IF comb.kind = "race" THEN comb ELSE AddRemaining(comb, 1)) EXCEPT !.index = i]
<1>2. comb'.cap = comb.cap /\ held' = held
  <2>1. AddRemaining(comb, 1) \in Combinator /\ AddRemaining(comb, 1).cap = comb.cap
    BY <1>1, AddRemainingTyped
  <2>2. c.cap = comb.cap /\ [c EXCEPT !.hooked = @ \cup {i}].cap = comb.cap
    BY <1>1, <2>1 DEF Combinator
  <2>3. comb' = c \/ comb' = [c EXCEPT !.hooked = @ \cup {i}]
    BY DEF NextItem
  <2> QED
    BY <2>2, <2>3 DEF NextItem
<1>3. CASE item = Hook
  <2> DEFINE f == [kind |-> "hook"]
  <2>1. stack' = <<f>> \o stack /\ eng' = eng
    BY <1>3 DEF NextItem
  <2>2. FrameIn(f, Made(eng') \ K) /\ Sparing(K, eng, eng', comb)
    BY <1>1, <2>1 DEF FrameIn, Sparing
  <2> HIDE DEF f
  <2>3. InProgress(stack') \subseteq InProgress(stack) \cup {f}
    BY <1>1, <2>1, FramesLeft
  <2> QED
    BY <1>1, <1>2, <2>2, <2>3, CombinatorHides
<1>4. CASE item # Hook
  <2>1. eng' = Then(Wrap(eng, item), Wrapped(eng, item), Handlers(i), None) /\ stack' = stack
        /\ (item \notin Promise => Fresh(eng) # {})
    BY <1>4 DEF NextItem
  <2>2. i \in Nat /\ item \in Val
    <3>1. i \in 1 .. Len(comb.items) /\ comb.items \in Seq(Value \cup {Hook})
      BY <1>1 DEF Combinator, NextItem
    <3> QED
      BY <1>4, <3>1 DEF Val
  <2>3. Sparing(K, eng, Wrap(eng, item), comb) /\ Wrapped(eng, item) \in Promise
    BY <1>1, <2>1, <2>2, WrapSpares
  <2>4. \A how \in How : Element(i, how) \in Handler(comb) /\ Element(i, how).fn # "settle"
    BY <1>1, <2>2 DEF Element, Handler
  <2>5. \A how \in How : Settler(comb.cap, how) \in Handler(comb) /\ Settler(comb.cap, how).pair = comb.cap
    BY <1>1 DEF Settler, Handler, Made
  <2> DEFINE on == Handlers(i)
             d == Wrap(eng, item)
  <2>6. on \in [How -> Handler(comb)] /\ \A how \in How : on[how].fn = "settle" => on[how].pair = comb.cap
    BY <2>4, <2>5 DEF Handlers
  <2>7. comb.cap \in Made(d) \ K
    BY <1>1, <2>3 DEF Sparing
  <2> HIDE DEF on, d, i, item
  <2>8. None \in Capability /\ ReactionIn([on |-> on, cap |-> None], Made(d) \ K)
    BY <2>6, <2>7 DEF Capability, ReactionIn, CapIn, HandlerIn
  <2>9. Sparing(K, d, eng', comb)
    BY <2>1, <2>3, <2>6, <2>8, ThenSpares DEF on, d, Sparing
  <2>10. Sparing(K, eng, eng', comb)
    BY <2>3, <2>9 DEF d, Sparing
  <2> QED
    BY <1>1, <1>2, <2>1, <2>10, CombinatorHides
<1> QED
  BY <1>3, <1>4

\* The other steps.
LEMMA CombinatorNextHides ==
  ASSUME Base, NEW K, Hidden(K), CombinatorNext, UNCHANGED cvars
  PROVE  StaysHidden(K)
<1>1. /\ Spared(K, eng, comb) /\ HeldValue \subseteq Val /\ stack \in Seq(Frame(comb))
      /\ \A n \in Nat : InProgress(SubSeq(stack, n + 1, Len(stack))) \subseteq InProgress(stack)
  BY HiddenKnown, Known, FramesLeft
<1>2. comb # NoCombinator => comb \in Combinator /\ comb.cap \in Made(eng) \ K /\ comb.cap.of \in Promise
  BY HiddenKnown, CombinatorKnown DEF Made, Pair
<1>3. \A kind \in {"combine", "hook"} : Top(kind) => comb # NoCombinator
  BY CombinatorKnown
<1>4. ASSUME NEW n \in Nat, Leave(n), comb # NoCombinator
      PROVE  InProgress(stack') \subseteq InProgress(stack) /\ held' \subseteq held \cup Promise
  BY <1>1, <1>2, <1>4 DEF Leave
<1>5. CASE EndOfItems
  <2> DEFINE c == AddRemaining(comb, -1)
  <2>1. comb # NoCombinator /\ Leave(1)
    BY <1>3, <1>5 DEF EndOfItems
  <2>2. c \in Combinator /\ c.cap = comb.cap
    BY <1>2, <2>1, AddRemainingTyped
  <2>3. comb'.cap = comb.cap /\ Sparing(K, eng, eng', comb)
    <3>1. CASE comb.kind = "race"
      BY <1>1, <1>5, <3>1 DEF EndOfItems, Sparing
    <3>2. CASE comb.kind # "race"
      BY <1>1, <1>2, <1>5, <2>1, <2>2, <3>2, CompleteHides DEF EndOfItems
    <3> QED
      BY <3>1, <3>2
  <2> QED
    BY <1>4, <2>1, <2>3, CombinatorHides
<1>6. ASSUME NEW n \in Nat, Fail(n), comb # NoCombinator PROVE StaysHidden(K)
  <2>1. "rejected" \in How /\ Error \in Val
    BY DEF How, Val, Value
  <2>2. Sparing(K, eng, eng', comb)
    BY <1>1, <1>2, <1>6, <2>1, CallSpares DEF Fail
  <2>3. comb'.cap = comb.cap /\ Leave(n)
    BY <1>2, <1>6 DEF Fail, Combinator
  <2> QED
    BY <1>4, <1>6, <2>2, <2>3, CombinatorHides
<1>7. CASE IteratorThrows \/ HookThrows
  BY <1>3, <1>6, <1>7 DEF IteratorThrows, HookThrows
<1>8. CASE HookReturns
  <2>1. comb # NoCombinator /\ stack # <<>> /\ stack' = Tail(stack) /\ held' = held /\ eng' = eng /\ comb' = comb
    BY <1>3, <1>8 DEF HookReturns, Pop, Top
  <2>2. Sparing(K, eng, eng', comb) /\ InProgress(stack') \subseteq InProgress(stack)
    BY <1>1, <2>1, FramesLeft DEF Sparing
  <2> QED
    BY <2>1, <2>2, CombinatorHides
<1>9. ASSUME comb # NoCombinator, NEW i \in comb.hooked, NEW how \in How, NEW v \in HeldValue, CallHooked(i, how, v)
      PROVE  StaysHidden(K)
  <2>1. i \in Nat /\ v \in Val /\ stack' = stack /\ held' = held
    BY <1>1, <1>2, <1>9 DEF Combinator, CallHooked
  <2>2. Sparing(K, eng, eng', comb) /\ comb'.cap = comb.cap
    <3>1. CASE how \in ElementSides(comb.kind)
      BY <1>1, <1>2, <1>9, <2>1, <3>1, CallElementHides DEF CallHooked
    <3>2. CASE how \notin ElementSides(comb.kind)
      BY <1>1, <1>2, <1>9, <2>1, <3>2, CallSpares DEF CallHooked
    <3> QED
      BY <3>1, <3>2
  <2> QED
    BY <1>9, <2>1, <2>2, CombinatorHides
<1>10. CASE RunElement
  <2>1. JobRuns("reaction") /\ Job.handler.fn = "element" /\ CallElement(Popped, Job.handler.item, Job.how, Job.arg)
        /\ stack' = stack /\ held' = held
    BY <1>10 DEF RunElement, Reacts
  <2>2. Sparing(K, eng, Popped, comb) /\ Job \in ReactionJobs(Handler(comb), Val)
    BY <2>1, JobHides
  <2>3. Job.handler \in Handler(comb) /\ Job.how \in How /\ Job.arg \in Val
    BY <2>2 DEF ReactionJobs
  <2>4. comb # NoCombinator /\ Job.handler.item \in Nat
    BY <2>1, <2>3 DEF Handler, Undefined, Resume, Continued, Returned
  <2>5. comb.cap \in Made(Popped) \ K
    BY <1>2, <2>2, <2>4 DEF Sparing
  <2>6. Sparing(K, Popped, eng', comb) /\ comb'.cap = comb.cap
    BY <1>2, <2>1, <2>2, <2>3, <2>4, <2>5, CallElementHides DEF Sparing
  <2>7. Sparing(K, eng, eng', comb)
    BY <2>2, <2>6 DEF Sparing
  <2> QED
    BY <2>1, <2>4, <2>6, <2>7, CombinatorHides
<1> QED
  BY <1>5, <1>7, <1>8, <1>9, <1>10, CombineHides, NextItemHides DEF CombinatorNext

\* A step that suspends and continues no code calls none of these functions.
LEMMA OthersHide ==
  ASSUME Base, NEW K, Hidden(K),
         (PromisesNext /\ UNCHANGED <<comb, cvars>>) \/ (CombinatorNext /\ UNCHANGED cvars)
  PROVE  StaysHidden(K)
BY ScriptHides, ScriptEndsHides, RunJobHides, CombinatorNextHides DEF PromisesNext

-----------------------------------------------------------------------------
(* Steps of suspended code.                                                *)

\* The owned functions were made.
LEMMA OwnedKnown ==
  ASSUME Base, Owning
  PROVE  /\ Hidden(Owned) /\ \A K \in SUBSET Owned : Hidden(K)
         /\ \A a \in Activation : Active(a) => act[a].cap \in Owned
         /\ \A i \in DOMAIN gen.queue : gen.queue[i].pair \in Owned
<1>1. \A a \in Activation : Active(a) => act[a].cap \in Made(eng)
  BY DEF Base, Activated, Active, Referred, CapIn
<1>2. \A i \in DOMAIN gen.queue : gen.queue[i].pair \in Made(eng)
  BY DEF Base, Referred
<1>3. Owned \subseteq Made(eng) /\ Private(Owned, eng, held, stack, comb)
  BY <1>1, <1>2 DEF Owned, Owning
<1>4. ASSUME NEW K \in SUBSET Owned PROVE Hidden(K)
  <2>1. Pair \ Owned \subseteq Pair \ K
    OBVIOUS
  <2>2. PairsIn(eng, Pair \ K)
    BY <1>3, <2>1, PairsMeet DEF Private
  <2>3. \A f \in InProgress(stack) : FrameIn(f, Pair \ K)
    BY <1>3, <2>1 DEF Private, FrameIn, CapIn
  <2> QED
    BY <1>3, <2>2, <2>3 DEF Private, Hidden
<1> QED
  BY <1>4 DEF Owned

\* What is owned after a step.
LEMMA OwnsStep ==
  ASSUME NEW L, StaysHidden(L), Owned' \subseteq L, Owning, eng.resolved \subseteq eng'.resolved,
         \A a, b \in Activation : Active(a)' /\ Active(b)' /\ act'[a].cap = act'[b].cap => a = b,
         \A i, j \in DOMAIN gen'.queue : gen'.queue[i].pair = gen'.queue[j].pair => i = j,
         \A a \in Activation, i \in DOMAIN gen'.queue : Active(a)' => act'[a].cap # gen'.queue[i].pair,
         \A a \in Activation : act'[a].state = "done" => act'[a] = act[a] \/ act'[a].cap \in eng'.resolved
  PROVE  Owning'
<1>1. Pair \ L \subseteq Pair \ Owned'
  OBVIOUS
<1>2. PairsIn(eng', Pair \ Owned')
  BY <1>1, PairsMeet DEF StaysHidden, Private
<1>3. \A f \in InProgress(stack') : FrameIn(f, Pair \ Owned')
  BY <1>1 DEF StaysHidden, Private, FrameIn, CapIn
<1>4. Private(Owned', eng', held', stack', comb')
  BY <1>2, <1>3 DEF StaysHidden, Private
<1>5. \A a \in Activation : act'[a].state = "done" => act'[a].cap \in eng'.resolved
  BY DEF Owning
<1> QED
  BY <1>4, <1>5 DEF Owning

\* Nothing that is owned changes hands.
LEMMA SameOwned ==
  ASSUME Base, Owning, StaysHidden(Owned), eng.resolved \subseteq eng'.resolved, gen'.queue = gen.queue,
         \A a \in Activation : act'[a].cap = act[a].cap /\ (act'[a] = act[a] \/ (Active(a) /\ Active(a)'))
  PROVE  Owning'
<1>1. \A a \in Activation : Active(a)' <=> Active(a)
  BY DEF Active
<1>2. Owned' = Owned
  BY <1>1 DEF Owned
<1>3. \A a \in Activation : act'[a].state = "done" => act'[a] = act[a]
  BY DEF Active
<1>4. /\ \A a, b \in Activation : Active(a)' /\ Active(b)' /\ act'[a].cap = act'[b].cap => a = b
      /\ \A i, j \in DOMAIN gen'.queue : gen'.queue[i].pair = gen'.queue[j].pair => i = j
      /\ \A a \in Activation, i \in DOMAIN gen'.queue : Active(a)' => act'[a].cap # gen'.queue[i].pair
  BY <1>1 DEF Owning
<1> QED
  BY <1>2, <1>3, <1>4, OwnsStep

\* A step of a coroutine that refers to nothing else.
LEMMA CoroutineHides ==
  ASSUME Base, NEW K, Hidden(K), UNCHANGED comb, NEW L, Spared(L, eng', comb), Made(eng) \ K \subseteq Made(eng') \ L,
         held' \subseteq held \cup Promise,
         \A f \in InProgress(stack') : f \in InProgress(stack) \/ f.kind \in {"async", "resumeNext", "generator"}
  PROVE  StaysHidden(L)
<1>1. \A f : f.kind \in {"async", "resumeNext", "generator"} => FrameIn(f, Made(eng') \ L)
  BY DEF FrameIn
<1>2. comb' # NoCombinator => comb'.cap \in Made(eng') \ L
  BY HiddenKnown
<1> QED
  BY SMTT(60), <1>1, <1>2, HiddenStep

\* An async function is called.
LEMMA CallAsyncOwns ==
  ASSUME Base, Owning, NEW a \in Activation, CallAsync(a), UNCHANGED comb, eng.resolved \subseteq eng'.resolved
  PROVE  Owning'
<1> DEFINE new == Cap(New(eng))
           L == Owned \cup {new}
           f == Body(a, None)
<1>1. /\ Fresh(eng) # {} /\ eng' = Create(eng) /\ held' = held /\ stack' = <<f>> \o stack /\ gen' = gen
      /\ act' = [act EXCEPT ![a] = [state |-> "running", cap |-> new, on |-> None]]
  BY DEF CallAsync
<1>2. /\ Hidden(Owned) /\ Spared(Owned, eng, comb) /\ stack \in Seq(Frame(comb)) /\ act \in [Activation -> ActivationData]
  BY OwnedKnown, HiddenKnown, Known DEF Base, TypeOK
<1>3. Sparing(Owned, eng, eng', comb) /\ Spared(L, eng', comb) /\ new \notin Made(eng) /\ Owned \subseteq Made(eng)
  BY <1>1, <1>2, CreateSpares DEF Hidden
<1>4. f.kind = "async"
  BY DEF Body
<1>5. InProgress(stack') \subseteq InProgress(stack) \cup {f}
  BY <1>1, <1>2, FramesLeft
<1> HIDE DEF f, new
<1>6. StaysHidden(L)
  BY <1>1, <1>2, <1>3, <1>4, <1>5, CoroutineHides DEF Sparing
<1>7. /\ Active(a)' /\ act'[a].cap = new /\ act'[a].state # "done"
      /\ \A b \in Activation : b # a => act'[b] = act[b] /\ (Active(b)' <=> Active(b))
  BY <1>1, <1>2 DEF Active
<1>8. Owned' \subseteq L
  BY <1>1, <1>7 DEF Owned
<1>9. \A b \in Activation : Active(b) => act[b].cap # new
  BY <1>3, OwnedKnown
<1>10. \A i \in DOMAIN gen.queue : gen.queue[i].pair # new
  BY <1>3, OwnedKnown
<1>11. /\ \A b, d \in Activation : Active(b)' /\ Active(d)' /\ act'[b].cap = act'[d].cap => b = d
       /\ \A b \in Activation, i \in DOMAIN gen'.queue : Active(b)' => act'[b].cap # gen'.queue[i].pair
       /\ \A i, j \in DOMAIN gen'.queue : gen'.queue[i].pair = gen'.queue[j].pair => i = j
  BY <1>1, <1>7, <1>9, <1>10 DEF Owning
<1>12. \A b \in Activation : act'[b].state = "done" => act'[b] = act[b]
  BY <1>7
<1> HIDE DEF L
<1> QED
  BY <1>6, <1>8, <1>11, <1>12, OwnsStep

\* An await, or a call that is resumed.
LEMMA SuspensionOwns ==
  ASSUME Base, Owning, UNCHANGED comb, eng.resolved \subseteq eng'.resolved,
         RunResume \/ \E v \in HeldValue : Await(v)
  PROVE  Owning'
<1>1. /\ Hidden(Owned) /\ Spared(Owned, eng, comb) /\ stack \in Seq(Frame(comb)) /\ HeldValue \subseteq Val
      /\ act \in [Activation -> ActivationData]
  BY OwnedKnown, HiddenKnown, Known DEF Base, TypeOK
<1>2. CASE RunResume
  <2> DEFINE a == Job.handler.of
             f == Body(a, <<Job.how, Job.arg>>)
  <2>1. /\ JobRuns("reaction") /\ Job.handler.fn = "resume" /\ stack = <<>>
        /\ eng' = Popped /\ stack' = <<f>> \o stack /\ held' = held /\ gen' = gen
        /\ act' = [act EXCEPT ![a].state = "running"]
    BY <1>2 DEF RunResume, Reacts, JobRuns
  <2>2. Sparing(Owned, eng, eng', comb) /\ Job \in ReactionJobs(Handler(comb), Val)
    BY <1>1, <2>1, JobHides
  <2>3. a \in Activation /\ Job.handler = Resume(a)
    <3>1. Job.handler \in Handler(comb)
      BY <2>2 DEF ReactionJobs
    <3> QED
      BY <2>1, <3>1 DEF Handler, Undefined, Resume, Continued, Returned
  <2>4. Active(a)
    <3>1. Resume(a) \in Control
      BY <2>3 DEF Control
    <3>2. Expects(eng, Resume(a))
      BY <2>1, <2>3, <3>1, TakeControl
    <3> QED
      BY <2>3, <3>2 DEF Base, Activated, Active
  <2>5. f.kind = "async"
    BY DEF Body
  <2> HIDE DEF f
  <2>6. InProgress(stack') \subseteq InProgress(stack) \cup {f}
    BY <1>1, <2>1, FramesLeft
  <2>7. StaysHidden(Owned)
    BY <1>1, <2>1, <2>2, <2>5, <2>6, CoroutineHides DEF Sparing
  <2> HIDE DEF a
  <2>8. \A b \in Activation : act'[b].cap = act[b].cap /\ (act'[b] = act[b] \/ (Active(b) /\ Active(b)'))
    BY <1>1, <2>1, <2>3, <2>4 DEF Active, ActivationData
  <2> QED
    BY <2>1, <2>7, <2>8, SameOwned
<1>3. ASSUME NEW v \in HeldValue, Await(v) PROVE Owning'
  <2> DEFINE a == Me
             h == Resume(a)
  <2>1. /\ Top("async") /\ a = Head(stack).of /\ gen' = gen
        /\ stack' = Tail(stack) /\ held' = held \cup {act[a].cap.of}
        /\ act' = [act EXCEPT ![a].state = "awaiting", ![a].on = Wrapped(eng, v)]
        /\ eng' = AwaitOn(eng, v, [how \in How |-> h]) /\ (v \notin Promise => Fresh(eng) # {})
    BY <1>3 DEF Await, Me, LeaveBody, Pop, Continue, Resume, CanAwait
  <2>2. a \in Activation /\ act[a].state = "running" /\ act[a].cap.of \in Promise /\ stack # <<>>
    BY <2>1, BodyKnown
  <2>3. h \in Control /\ h \in Handler(comb) /\ v \in Val
    BY <1>1, <2>2 DEF Control, Handler
  <2> HIDE DEF h, a
  <2>4. Sparing(Owned, eng, eng', comb)
    BY <1>1, <2>1, <2>3, AwaitSpares
  <2>5. InProgress(stack') \subseteq InProgress(stack)
    BY <1>1, <2>1, <2>2, FramesLeft
  <2>6. StaysHidden(Owned)
    BY SMTT(60), <1>1, <2>1, <2>2, <2>4, <2>5, CoroutineHides DEF Sparing
  <2>7. \A b \in Activation : act'[b].cap = act[b].cap /\ (act'[b] = act[b] \/ (Active(b) /\ Active(b)'))
    BY <1>1, <2>1, <2>2 DEF Active, ActivationData
  <2> QED
    BY <2>1, <2>6, <2>7, SameOwned
<1> QED
  BY <1>2, <1>3

\* A body ends, and its function is called.
LEMMA BodyEndsOwns ==
  ASSUME Base, Owning, UNCHANGED comb, eng.resolved \subseteq eng'.resolved,
         (\E how \in How, v \in HeldValue : BodyEnds(how, v)) \/ AwaitFails
  PROVE  Owning'
<1>1. PICK a \in Activation, x \in Made(eng) :
        /\ x = act[a].cap /\ act[a].state = "running" /\ x.of \in Promise /\ stack # <<>> /\ gen' = gen
        /\ stack' = Tail(stack) /\ held' = held \cup {x.of} /\ act' = [act EXCEPT ![a].state = "done"]
        /\ \E how \in How, v \in Val : eng' = ResolvingCall(eng, x, how, v)
  <2>1. /\ Top("async") /\ gen' = gen
        /\ stack' = Tail(stack) /\ held' = held \cup {act[Me].cap.of} /\ act' = [act EXCEPT ![Me].state = "done"]
    BY DEF BodyEnds, AwaitFails, Me, LeaveBody, Pop
  <2>2. Me \in Activation /\ act[Me].state = "running" /\ act[Me].cap \in Made(eng) /\ act[Me].cap.of \in Promise
        /\ stack # <<>>
    BY <2>1, BodyKnown DEF Me
  <2>3. HeldValue \subseteq Val
    BY Known
  <2>4. \E how \in How, v \in Val : eng' = ResolvingCall(eng, act[Me].cap, how, v)
    BY <2>3 DEF BodyEnds, AwaitFails, Val, Value, How
  <2> QED
    BY <2>1, <2>2, <2>4
<1> DEFINE K == Owned \ {x}
<1>2. stack \in Seq(Frame(comb)) /\ act \in [Activation -> ActivationData]
  BY Known DEF Base, TypeOK
<1>3. K \in SUBSET Owned /\ Hidden(K) /\ Spared(K, eng, comb) /\ x \notin K
  <2>1. K \in SUBSET Owned /\ x \notin K
    OBVIOUS
  <2> HIDE DEF K
  <2> QED
    BY <2>1, OwnedKnown, HiddenKnown
<1>4. Sparing(K, eng, eng', comb) /\ x \in eng'.resolved
  BY <1>1, <1>3, CallSpares
<1>5. InProgress(stack') \subseteq InProgress(stack)
  BY <1>1, <1>2, FramesLeft
<1>6. StaysHidden(K)
  BY <1>1, <1>3, <1>4, <1>5, CoroutineHides DEF Sparing
<1>7. \A b \in Activation : b # a => act'[b] = act[b]
  BY <1>1, <1>2
<1>8. act'[a].state = "done" /\ act'[a].cap = x
  BY <1>1, <1>2 DEF ActivationData
<1>9. ~Active(a)' /\ Active(a) /\ \A b \in Activation : b # a => (Active(b)' <=> Active(b))
  BY <1>1, <1>7, <1>8 DEF Active
<1>10. \A b \in Activation : b # a /\ Active(b) => act[b].cap \in K
  BY <1>1, <1>9, OwnedKnown DEF Owning
<1>11. \A i \in DOMAIN gen.queue : gen.queue[i].pair \in K
  BY <1>1, <1>9, OwnedKnown DEF Owning
<1>12. Owned' \subseteq K
  <2>1. Owned' = {act'[b].cap : b \in {d \in Activation : Active(d)'}} \cup {gen'.queue[i].pair : i \in DOMAIN gen'.queue}
    BY DEF Owned
  <2> HIDE DEF K
  <2>2. \A b \in Activation : Active(b)' => act'[b].cap \in K
    BY <1>7, <1>9, <1>10
  <2>3. gen' = gen
    BY <1>1
  <2> QED
    BY <1>11, <2>1, <2>2, <2>3
<1>13. /\ \A b, d \in Activation : Active(b)' /\ Active(d)' /\ act'[b].cap = act'[d].cap => b = d
       /\ \A b \in Activation, i \in DOMAIN gen'.queue : Active(b)' => act'[b].cap # gen'.queue[i].pair
       /\ \A i, j \in DOMAIN gen'.queue : gen'.queue[i].pair = gen'.queue[j].pair => i = j
  BY <1>1, <1>7, <1>9 DEF Owning
<1>14. \A b \in Activation : act'[b].state = "done" => act'[b] = act[b] \/ act'[b].cap \in eng'.resolved
  BY <1>4, <1>7, <1>8
<1> HIDE DEF K
<1> QED
  BY <1>6, <1>12, <1>13, <1>14, OwnsStep

\* A step of the generator that changes no request.
LEMMA KeptOwned ==
  ASSUME Base, Owning, UNCHANGED <<comb, act>>, gen'.queue = gen.queue, eng.resolved \subseteq eng'.resolved,
         Sparing(Owned, eng, eng', comb), held' \subseteq held \cup Promise,
         \A f \in InProgress(stack') : f \in InProgress(stack) \/ f.kind \in {"async", "resumeNext", "generator"}
  PROVE  Owning'
<1>1. Hidden(Owned)
  BY OwnedKnown
<1>2. Spared(Owned, eng', comb) /\ Made(eng) \ Owned \subseteq Made(eng') \ Owned
  BY DEF Sparing
<1>3. StaysHidden(Owned)
  BY <1>1, <1>2, CoroutineHides
<1>4. \A a \in Activation : act'[a].cap = act[a].cap /\ act'[a] = act[a]
  OBVIOUS
<1> QED
  BY <1>3, <1>4, SameOwned

LEMMA RoundOwns ==
  ASSUME Base, Owning, UNCHANGED comb, eng.resolved \subseteq eng'.resolved,
         NoRequest \/ EnterBody \/ NeverStarted \/ RunContinue \/ \E v \in HeldValue : GeneratorAwaits(v)
  PROVE  Owning'
<1>1. /\ Hidden(Owned) /\ Spared(Owned, eng, comb) /\ stack \in Seq(Frame(comb)) /\ HeldValue \subseteq Val
      /\ Continued \in Control /\ Continued \in Handler(comb)
  BY OwnedKnown, HiddenKnown, Known, GeneratorKnown
<1>2. Sparing(Owned, eng, eng, comb)
  BY <1>1 DEF Sparing
<1>3. CASE NoRequest
  <2>1. UNCHANGED <<eng, act, gen>> /\ Top("resumeNext") /\ LeaveLoop(1)
    BY <1>3 DEF NoRequest
  <2>2. InProgress(stack') \subseteq InProgress(stack) /\ held' \subseteq held \cup Promise
    BY <1>1, <2>1, LoopKnown, FramesLeft DEF LeaveLoop
  <2> QED
    BY <1>2, <2>1, <2>2, KeptOwned
<1>4. CASE EnterBody
  <2>1. UNCHANGED <<eng, held, act>> /\ stack' = <<GeneratorBody>> \o stack /\ gen' = [gen EXCEPT !.state = "executing"]
    BY <1>4 DEF EnterBody
  <2>2. gen'.queue = gen.queue /\ GeneratorBody.kind = "generator"
    BY <2>1, GeneratorKnown DEF GeneratorBody, GeneratorData
  <2>3. InProgress(stack') \subseteq InProgress(stack) \cup {GeneratorBody}
    BY <1>1, <2>1, FramesLeft
  <2> QED
    BY <1>2, <2>1, <2>2, <2>3, KeptOwned
<1>5. CASE NeverStarted
  <2>1. UNCHANGED <<eng, stack, held, act>> /\ gen' = [gen EXCEPT !.state = "completed"]
    BY <1>5 DEF NeverStarted
  <2>2. gen'.queue = gen.queue
    BY <2>1, GeneratorKnown DEF GeneratorData
  <2> QED
    BY <1>2, <2>1, <2>2, KeptOwned
<1>6. CASE RunContinue
  <2> DEFINE f == ResumeNext(None)
  <2>1. UNCHANGED <<held, act, gen>> /\ JobRuns("reaction") /\ eng' = Popped /\ stack = <<>>
        /\ (stack' = stack \/ stack' = <<f>> \o stack) /\ f.kind = "resumeNext"
    BY <1>6 DEF RunContinue, Reacts, JobRuns, ResumeNext
  <2> HIDE DEF f
  <2>2. Sparing(Owned, eng, eng', comb)
    BY <1>1, <2>1, JobHides
  <2>3. InProgress(stack') \subseteq InProgress(stack) \cup {f}
    BY <1>1, <2>1, FramesLeft
  <2> QED
    BY <2>1, <2>2, <2>3, KeptOwned
<1>7. ASSUME NEW v \in HeldValue, GeneratorAwaits(v) PROVE Owning'
  <2>1. /\ UNCHANGED <<act, gen>> /\ Top("generator") /\ LeaveLoop(2) /\ (v \notin Promise => Fresh(eng) # {})
        /\ eng' = AwaitOn(eng, v, [how \in How |-> Continued])
    BY <1>7 DEF GeneratorAwaits, CanAwait, Continue, Continued
  <2>2. Sparing(Owned, eng, eng', comb)
    BY <1>1, <2>1, AwaitSpares
  <2>3. InProgress(stack') \subseteq InProgress(stack) /\ held' \subseteq held \cup Promise
    BY <1>1, <2>1, BodyTop, FramesLeft DEF LeaveLoop
  <2> QED
    BY <2>1, <2>2, <2>3, KeptOwned
<1> QED
  BY <1>3, <1>4, <1>5, <1>6, <1>7

\* A request is made.
LEMMA CallGeneratorOwns ==
  ASSUME Base, Owning, UNCHANGED comb, eng.resolved \subseteq eng'.resolved,
         NEW type \in {"next", "return", "throw"}, NEW v \in HeldValue, CallGenerator(type, v)
  PROVE  Owning'
<1>1. PICK new, f : new \in Promise /\ new = New(eng) /\ f = ResumeNext(New(eng))
  <2>1. Fresh(eng) # {} /\ Spared(Owned, eng, comb)
    BY OwnedKnown, HiddenKnown DEF CallGenerator
  <2> QED
    BY <2>1, CreateSpares
<1>2. PICK x, r : x = Cap(new) /\ r = [type |-> type, value |-> v, pair |-> x]
  OBVIOUS
<1>3. /\ Fresh(eng) # {} /\ eng' = Create(eng) /\ act' = act
      /\ gen'.queue = Append(gen.queue, r) /\ f.kind = "resumeNext"
      /\ held' \subseteq held \cup Promise /\ (stack' = stack \/ stack' = <<f>> \o stack)
  BY <1>1, <1>2, GeneratorKnown DEF CallGenerator, ResumeNext, GeneratorData
<1> DEFINE L == Owned \cup {x}
<1>4. Hidden(Owned) /\ Spared(Owned, eng, comb) /\ stack \in Seq(Frame(comb)) /\ Owned \subseteq Made(eng)
  BY OwnedKnown, HiddenKnown, Known DEF Hidden
<1>5. Sparing(Owned, eng, eng', comb) /\ Spared(L, eng', comb) /\ x \notin Made(eng)
  BY <1>1, <1>2, <1>3, <1>4, CreateSpares
<1>6. InProgress(stack') \subseteq InProgress(stack) \cup {f}
  BY <1>3, <1>4, FramesLeft
<1>7. Made(eng) \ Owned \subseteq Made(eng') \ L
  BY <1>5 DEF Sparing
<1> HIDE DEF L
<1>8. StaysHidden(L)
  BY <1>3, <1>4, <1>5, <1>6, <1>7, CoroutineHides
<1>9. /\ \A i \in DOMAIN gen'.queue : \/ (i \in DOMAIN gen.queue /\ gen'.queue[i] = gen.queue[i])
                                      \/ (i = Len(gen.queue) + 1 /\ gen'.queue[i] = r)
      /\ \A i \in DOMAIN gen'.queue : gen'.queue[i].pair = x => i = Len(gen.queue) + 1
  <2> DEFINE q == gen.queue
             s == gen'.queue
             Request == [type : {"next", "return", "throw"}, value : Value, pair : Pair]
  <2>1. q \in Seq(Request) /\ s = Append(q, r)
    BY <1>3, GeneratorKnown DEF GeneratorData
  <2>2. \A i \in DOMAIN q : q[i].pair # x
    BY <1>4, <1>5, OwnedKnown
  <2> HIDE DEF q, s, Request
  <2>3. \A i \in DOMAIN s : (i \in DOMAIN q /\ s[i] = q[i]) \/ (i = Len(q) + 1 /\ s[i] = r)
    BY <2>1
  <2>4. \A i \in DOMAIN s : s[i].pair = x => i = Len(q) + 1
    BY <2>2, <2>3
  <2> QED
    BY <2>3, <2>4 DEF q, s
<1>10. r.pair = x
  BY <1>2
<1>11. \A a \in Activation : Active(a)' <=> Active(a)
  BY <1>3 DEF Active
<1>12. Owned' \subseteq L
  <2>1. Owned' = {act'[b].cap : b \in {d \in Activation : Active(d)'}} \cup {gen'.queue[i].pair : i \in DOMAIN gen'.queue}
    BY DEF Owned
  <2>2. \A b \in Activation : Active(b)' => act'[b].cap \in Owned
    BY <1>3, <1>11, OwnedKnown
  <2>3. \A i \in DOMAIN gen'.queue : gen'.queue[i].pair \in Owned \cup {x}
    BY <1>9, <1>10, OwnedKnown
  <2> QED
    BY <2>1, <2>2, <2>3 DEF L
<1>13. \A i, j \in DOMAIN gen'.queue : gen'.queue[i].pair = gen'.queue[j].pair => i = j
  BY <1>9, <1>10 DEF Owning
<1>14. \A a, b \in Activation : Active(a)' /\ Active(b)' /\ act'[a].cap = act'[b].cap => a = b
  BY <1>3, <1>11 DEF Owning
<1>15. \A a \in Activation, i \in DOMAIN gen'.queue : Active(a)' => act'[a].cap # gen'.queue[i].pair
  <2>1. \A a \in Activation : Active(a) => act[a].cap # x
    BY <1>4, <1>5, OwnedKnown
  <2> QED
    BY <1>3, <1>9, <1>10, <1>11, <2>1 DEF Owning
<1>16. \A a \in Activation : act'[a].state = "done" => act'[a] = act[a]
  BY <1>3
<1> QED
  BY <1>8, <1>12, <1>13, <1>14, <1>15, <1>16, OwnsStep

\* A request is answered.
AnswerStep(e, how, u, state, v) ==
  /\ gen.queue # <<>> /\ Head1.pair \in Owned
  /\ eng' = Answer(e, how, u) /\ gen' = Answered(state, v) /\ act' = act
  /\ e = eng \/ (JobRuns("reaction") /\ e = Popped)
  /\ held' \subseteq held \cup Promise /\ InProgress(stack') \subseteq InProgress(stack)
  /\ v = Iterated <=> state = "suspendedYield"
  /\ v = Iterated => gen.state \notin {"completed", "awaitingReturn"}
Answering ==
  \E e : \E how \in How, u \in Val, state \in {"suspendedYield", "completed"}, v \in Val :
    AnswerStep(e, how, u, state, v)

LEMMA FirstOwned ==
  ASSUME Base, Owning, gen.queue # <<>>
  PROVE  /\ Head1.pair \in Owned /\ Head1.pair \in Made(eng)
         /\ \A i \in DOMAIN Tail(gen.queue) : i + 1 \in DOMAIN gen.queue /\ Tail(gen.queue)[i] = gen.queue[i + 1]
         /\ 1 \in DOMAIN gen.queue /\ Head1 = gen.queue[1]
         /\ \A i \in DOMAIN Tail(gen.queue) : i \in Nat /\ i # 0
<1> DEFINE q == gen.queue
           Request == [type : {"next", "return", "throw"}, value : Value, pair : Pair]
<1>1. q \in Seq(Request) /\ q # <<>> /\ Head1 = Head(q)
  BY GeneratorKnown DEF GeneratorData, Head1
<1>2. \A i \in DOMAIN q : q[i].pair \in Owned /\ q[i].pair \in Made(eng)
  BY OwnedKnown, GeneratorKnown
<1> HIDE DEF q, Request
<1>3. /\ 1 \in DOMAIN q /\ Head(q) = q[1]
      /\ \A i \in DOMAIN Tail(q) : i + 1 \in DOMAIN q /\ Tail(q)[i] = q[i + 1]
      /\ \A i \in DOMAIN Tail(q) : i \in Nat /\ i # 0
  BY <1>1
<1> QED
  BY <1>1, <1>2, <1>3 DEF q

LEMMA AnswersAre ==
  ASSUME Base, Owning,
         \/ Yield \/ RunReturned \/ (AnswerCompleted /\ Head1.type # "return")
         \/ \E how \in How, v \in HeldValue : GeneratorEnds(how, v)
  PROVE  Answering
<1>1. /\ HeldValue \subseteq Val /\ stack \in Seq(Frame(comb)) /\ gen \in GeneratorData
      /\ {Iterated, Done, Error} \subseteq Val /\ How = {"fulfilled", "rejected"} /\ Iterated # Done /\ Iterated # Error
      /\ gen.queue # <<>> => Head1.pair \in Owned /\ Head1.value \in Val
  BY Known, GeneratorKnown, FirstOwned, CoroutinesAssumption DEF Val, Value, How
<1>2. ASSUME Top("generator"), Pop, UNCHANGED <<held, act>>,
             NEW how \in How, NEW u \in Val, NEW state \in {"suspendedYield", "completed"}, NEW v \in Val,
             eng' = Answer(eng, how, u), gen' = Answered(state, v), v = Iterated <=> state = "suspendedYield"
      PROVE  Answering
  <2>1. gen.state = "executing" /\ gen.queue # <<>> /\ stack # <<>> /\ stack' = Tail(stack)
    BY <1>2, BodyTop DEF Pop
  <2>2. InProgress(stack') \subseteq InProgress(stack)
    BY <1>1, <2>1, FramesLeft
  <2>3. AnswerStep(eng, how, u, state, v)
    BY <1>1, <1>2, <2>1, <2>2 DEF AnswerStep
  <2> QED
    BY <2>3 DEF Answering
<1>3. CASE Yield
  <2>1. "fulfilled" \in How /\ Iterated \in Val /\ "suspendedYield" \in {"suspendedYield", "completed"}
    BY <1>1
  <2>2. /\ Top("generator") /\ Pop /\ UNCHANGED <<held, act>>
        /\ eng' = Answer(eng, "fulfilled", Iterated) /\ gen' = Answered("suspendedYield", Iterated)
    BY <1>3 DEF Yield
  <2> QED
    BY <1>2, <2>1, <2>2
<1>4. ASSUME NEW how \in How, NEW v \in HeldValue, GeneratorEnds(how, v) PROVE Answering
  <2>1. PICK u \in Val, w \in {Done, Error} : eng' = Answer(eng, how, u) /\ gen' = Answered("completed", w)
    BY <1>1, <1>4 DEF GeneratorEnds
  <2>2. w \in Val /\ ~(w = Iterated) /\ "completed" \in {"suspendedYield", "completed"}
    BY <1>1
  <2>3. Top("generator") /\ Pop /\ UNCHANGED <<held, act>>
    BY <1>4 DEF GeneratorEnds
  <2>4. w = Iterated <=> "completed" = "suspendedYield"
    BY <2>2
  <2> QED
    BY <1>2, <2>1, <2>2, <2>3, <2>4
<1>5. CASE AnswerCompleted /\ Head1.type # "return"
  <2>1. Top("resumeNext") /\ LeaveLoop(1) /\ act' = act /\ gen.queue # <<>>
    BY <1>5 DEF AnswerCompleted, Looping
  <2>2. InProgress(stack') \subseteq InProgress(stack) /\ held' \subseteq held \cup Promise
    BY <1>1, <2>1, LoopKnown, FramesLeft DEF LeaveLoop
  <2>3. PICK how \in How, u \in Val, w \in {Done, Error} : eng' = Answer(eng, how, u) /\ gen' = Answered("completed", w)
    BY <1>1, <1>5, <2>1 DEF AnswerCompleted
  <2>4. w \in Val /\ ~(w = Iterated)
    BY <1>1
  <2>5. AnswerStep(eng, how, u, "completed", w)
    BY <1>1, <2>1, <2>2, <2>3, <2>4 DEF AnswerStep
  <2> QED
    BY <2>4, <2>5 DEF Answering
<1>6. CASE RunReturned
  <2>1. /\ JobRuns("reaction") /\ Job.handler.fn = "returned"
        /\ UNCHANGED <<stack, held, act>>
    BY <1>6 DEF RunReturned, Reacts, JobRuns
  <2>2. Job \in ReactionJobs(Handler(comb), Val)
    BY <2>1, JobKnown
  <2>3. Job.handler \in Handler(comb) /\ Job.how \in How /\ Job.arg \in Val
    BY <2>2 DEF ReactionJobs
  <2>4. Job.handler = Returned
    BY <2>1, <2>3 DEF Handler, Undefined, Resume, Returned, Continued
  <2>5. Expects(eng, Returned)
    BY <2>1, <2>4, GeneratorKnown, TakeControl
  <2>6. gen.state = "awaitingReturn" /\ gen.queue # <<>>
    BY <2>5, GeneratorKnown DEF Generating
  <2>7. PICK u \in Val, w \in {Done, Error} : eng' = Answer(Popped, Job.how, u) /\ gen' = Answered("completed", w)
    BY <1>1, <1>6, <2>3 DEF RunReturned
  <2>8. w \in Val /\ ~(w = Iterated)
    BY <1>1
  <2>9. AnswerStep(Popped, Job.how, u, "completed", w)
    BY <1>1, <2>1, <2>6, <2>7, <2>8 DEF AnswerStep
  <2> QED
    BY <2>3, <2>8, <2>9 DEF Answering
<1> QED
  BY <1>3, <1>4, <1>5, <1>6

LEMMA AnsweringOwns ==
  ASSUME Base, Owning, UNCHANGED comb, eng.resolved \subseteq eng'.resolved, Answering
  PROVE  Owning' /\ Head1.pair \in eng'.resolved
<1>0. PICK e : \E how \in How, u \in Val, state \in {"suspendedYield", "completed"}, v \in Val :
                 AnswerStep(e, how, u, state, v)
  BY DEF Answering
<1>1. PICK how \in How, u \in Val, state \in {"suspendedYield", "completed"}, v \in Val :
        AnswerStep(e, how, u, state, v)
  BY <1>0
<1>2. PICK x : x = Head1.pair
  OBVIOUS
<1> DEFINE K == Owned \ {x}
<1>3. /\ gen.queue # <<>> /\ eng' = ResolvingCall(e, x, how, u) /\ gen'.queue = Tail(gen.queue) /\ act' = act
      /\ e = eng \/ (JobRuns("reaction") /\ e = Popped)
      /\ held' \subseteq held \cup Promise /\ InProgress(stack') \subseteq InProgress(stack)
  BY <1>1, <1>2, GeneratorKnown DEF AnswerStep, Answer, Answered, GeneratorData
<1>4. K \in SUBSET Owned /\ Hidden(K) /\ Spared(K, eng, comb) /\ x \notin K
  <2>1. K \in SUBSET Owned /\ x \notin K
    OBVIOUS
  <2> HIDE DEF K
  <2> QED
    BY <2>1, OwnedKnown, HiddenKnown
<1>5. /\ x \in Made(eng) /\ 1 \in DOMAIN gen.queue /\ gen.queue[1].pair = x
      /\ \A i \in DOMAIN gen'.queue : i + 1 \in DOMAIN gen.queue /\ gen'.queue[i] = gen.queue[i + 1]
      /\ \A i \in DOMAIN gen'.queue : i \in Nat /\ i # 0
  BY <1>2, <1>3, FirstOwned
<1> HIDE DEF K
<1>6. Sparing(K, eng, e, comb)
  <2>1. Sparing(K, eng, eng, comb)
    BY <1>4 DEF Sparing
  <2> QED
    BY <1>3, <1>4, <2>1, JobHides
<1>7. Sparing(K, e, eng', comb) /\ x \in eng'.resolved
  BY <1>3, <1>4, <1>5, <1>6, CallSpares DEF Sparing
<1>8. Spared(K, eng', comb) /\ Made(eng) \ K \subseteq Made(eng') \ K
  BY <1>6, <1>7 DEF Sparing
<1>9. StaysHidden(K)
  BY <1>3, <1>4, <1>8, CoroutineHides
<1>10. \A a \in Activation : act'[a] = act[a] /\ (Active(a)' <=> Active(a))
  BY <1>3 DEF Active
<1>11. \A a \in Activation : Active(a) => act[a].cap \in K
  BY <1>5, OwnedKnown DEF Owning, K
<1>12. \A i \in DOMAIN gen.queue : i # 1 => gen.queue[i].pair \in K
  BY <1>5, OwnedKnown DEF Owning, K
<1>13. \A i \in DOMAIN gen'.queue : i + 1 # 1
  BY <1>5
<1>14. Owned' \subseteq K
  <2>1. Owned' = {act'[b].cap : b \in {d \in Activation : Active(d)'}} \cup {gen'.queue[i].pair : i \in DOMAIN gen'.queue}
    BY DEF Owned
  <2>2. \A b \in Activation : Active(b)' => act'[b].cap \in K
    BY <1>10, <1>11
  <2>3. \A i \in DOMAIN gen'.queue : gen'.queue[i].pair \in K
    BY <1>5, <1>12, <1>13
  <2> QED
    BY <2>1, <2>2, <2>3
<1>15. \A i, j \in DOMAIN gen'.queue : gen'.queue[i].pair = gen'.queue[j].pair => i = j
  <2> TAKE i, j \in DOMAIN gen'.queue
  <2> HAVE gen'.queue[i].pair = gen'.queue[j].pair
  <2>1. i + 1 = j + 1
    BY <1>5 DEF Owning
  <2> QED
    BY <1>5, <2>1
<1>16. \A a, b \in Activation : Active(a)' /\ Active(b)' /\ act'[a].cap = act'[b].cap => a = b
  BY <1>10 DEF Owning
<1>17. \A a \in Activation, i \in DOMAIN gen'.queue : Active(a)' => act'[a].cap # gen'.queue[i].pair
  BY <1>5, <1>10 DEF Owning
<1>18. \A a \in Activation : act'[a].state = "done" => act'[a] = act[a]
  BY <1>10
<1> QED
  BY <1>2, <1>7, <1>9, <1>14, <1>15, <1>16, <1>17, <1>18, OwnsStep

\* A return request to a generator that has ended waits.
LEMMA ReturnOwns ==
  ASSUME Base, Owning, UNCHANGED comb, eng.resolved \subseteq eng'.resolved, AnswerCompleted, Head1.type = "return"
  PROVE  /\ Owning' /\ gen.queue # <<>>
         /\ gen' = [gen EXCEPT !.state = "awaitingReturn"] /\ gen.state = "completed"
<1>1. /\ Spared(Owned, eng, comb) /\ stack \in Seq(Frame(comb))
      /\ Returned \in Control /\ Returned \in Handler(comb)
      /\ gen.queue # <<>> => Head1.value \in Val
  BY OwnedKnown, HiddenKnown, Known, GeneratorKnown
<1>2. /\ Top("resumeNext") /\ LeaveLoop(1) /\ act' = act /\ gen.queue # <<>> /\ gen.state = "completed"
      /\ gen' = [gen EXCEPT !.state = "awaitingReturn"]
      /\ eng' = AwaitOn(eng, Head1.value, [how \in How |-> Returned])
      /\ (Head1.value \notin Promise => Fresh(eng) # {})
  BY DEF AnswerCompleted, Looping, CanAwait, Continue, Returned
<1>3. InProgress(stack') \subseteq InProgress(stack) /\ held' \subseteq held \cup Promise
  BY <1>1, <1>2, LoopKnown, FramesLeft DEF LeaveLoop
<1>4. Sparing(Owned, eng, eng', comb)
  BY <1>1, <1>2, AwaitSpares
<1>5. gen'.queue = gen.queue
  BY <1>2, GeneratorKnown DEF GeneratorData
<1> QED
  BY <1>2, <1>3, <1>4, <1>5, KeptOwned

\* Every step keeps what native code owns to it.
LEMMA NextOwns ==
  ASSUME Base, Owning, Next
  PROVE  Owning'
<1>1. eng.resolved \subseteq eng'.resolved
  BY NextKeeps DEF Grows
<1>2. CASE (PromisesNext /\ UNCHANGED <<comb, cvars>>) \/ (CombinatorNext /\ UNCHANGED cvars)
  <2>1. StaysHidden(Owned) /\ act' = act /\ gen' = gen
    BY <1>2, OwnedKnown, OthersHide DEF cvars
  <2> QED
    BY <1>1, <2>1, SameOwned
<1>3. CASE CoroutinesNext /\ UNCHANGED comb
  <2>1. ASSUME NEW a \in Activation, CallAsync(a) PROVE Owning'
    BY <1>1, <1>3, <2>1, CallAsyncOwns
  <2>2. CASE AwaitFails \/ \E how \in How, v \in HeldValue : BodyEnds(how, v)
    BY <1>1, <1>3, <2>2, BodyEndsOwns
  <2>3. CASE RunResume \/ \E v \in HeldValue : Await(v)
    BY <1>1, <1>3, <2>3, SuspensionOwns
  <2>4. ASSUME NEW v \in HeldValue, NEW type \in {"next", "return", "throw"}, CallGenerator(type, v) PROVE Owning'
    BY <1>1, <1>3, <2>4, CallGeneratorOwns
  <2>5. CASE NoRequest \/ EnterBody \/ NeverStarted \/ RunContinue \/ \E v \in HeldValue : GeneratorAwaits(v)
    BY <1>1, <1>3, <2>5, RoundOwns
  <2>6. CASE \/ Yield \/ RunReturned \/ (AnswerCompleted /\ Head1.type # "return")
             \/ \E how \in How, v \in HeldValue : GeneratorEnds(how, v)
    BY <1>1, <1>3, <2>6, AnswersAre, AnsweringOwns
  <2>7. CASE AnswerCompleted /\ Head1.type = "return"
    BY <1>1, <1>3, <2>7, ReturnOwns
  <2> QED
    BY <1>3, <2>1, <2>2, <2>3, <2>4, <2>5, <2>6, <2>7 DEF CoroutinesNext
<1> QED
  BY <1>2, <1>3 DEF Next

LEMMA InitOwns ==
  ASSUME Init
  PROVE  Owning
<1>1. /\ \A a \in Activation : ~Active(a) /\ act[a].state # "done"
      /\ DOMAIN gen.queue = {}
  BY DEF Init, CoroutinesInit, Active
<1>2. Owned = {}
  BY <1>1 DEF Owned
<1>3. /\ eng.jobs = <<>> /\ (\A p \in Promise : eng.promise[p].reactions = <<>>)
      /\ held = {} /\ stack = <<>> /\ comb = NoCombinator
  BY DEF Init, PromisesInit, CombinatorInit
<1>4. PairsIn(eng, Pair) /\ InProgress(stack) = {}
  BY <1>3 DEF PairsIn, InProgress
<1> QED
  BY <1>1, <1>2, <1>3, <1>4 DEF Owning, Private

-----------------------------------------------------------------------------
(* The requests of the generator.                                          *)

\* Answers, then queue, are what was asked.
Ordered(asked, answers, queue) ==
  /\ Len(asked) = Len(answers) + Len(queue)
  /\ \A i \in 1 .. Len(answers) : asked[i] = answers[i][1]
  /\ \A i \in 1 .. Len(queue) : asked[Len(answers) + i] = queue[i].pair
Firsts(s) == [i \in DOMAIN s |-> s[i][1]]
PairsOf(s) == [i \in DOMAIN s |-> s[i].pair]

LEMMA OrderIs ==
  ASSUME NEW X, NEW Y, NEW Z, NEW asked \in Seq(X), NEW answers \in Seq(Y), NEW queue \in Seq(Z)
  PROVE  asked = Firsts(answers) \o PairsOf(queue) <=> Ordered(asked, answers, queue)
<1> DEFINE A == Firsts(answers)
           Q == PairsOf(queue)
           m == Len(answers)
           n == Len(queue)
<1>1. m \in Nat /\ n \in Nat /\ DOMAIN answers = 1 .. m /\ DOMAIN queue = 1 .. n
  OBVIOUS
<1>2. A \in Seq({answers[i][1] : i \in 1 .. m}) /\ Len(A) = m /\ \A i \in 1 .. m : A[i] = answers[i][1]
  BY <1>1, SeqDef DEF Firsts
<1>3. Q \in Seq({queue[i].pair : i \in 1 .. n}) /\ Len(Q) = n /\ \A i \in 1 .. n : Q[i] = queue[i].pair
  BY <1>1, SeqDef DEF PairsOf
<1> HIDE DEF A, Q, m, n
<1> DEFINE S == {answers[i][1] : i \in 1 .. m} \cup {queue[i].pair : i \in 1 .. n}
<1>4. A \in Seq(S) /\ Q \in Seq(S)
  BY <1>2, <1>3, SeqMonotonic
<1> HIDE DEF S
<1> DEFINE T == A \o Q
<1>5. /\ T \in Seq(S) /\ Len(T) = m + n
      /\ \A i \in 1 .. m + n : T[i] = IF i <= m THEN A[i] ELSE Q[i - m]
  <2>1. /\ T \in Seq(S) /\ Len(T) = Len(A) + Len(Q)
        /\ \A i \in 1 .. Len(A) + Len(Q) : T[i] = IF i <= Len(A) THEN A[i] ELSE Q[i - Len(A)]
    BY <1>4, ConcatProperties
  <2>2. Len(A) = m /\ Len(Q) = n
    BY <1>2, <1>3
  <2> HIDE DEF T
  <2> QED
    BY <2>1, <2>2
<1> HIDE DEF T
<1>6. asked \in Seq(X \cup S) /\ T \in Seq(X \cup S)
  BY <1>5, SeqMonotonic
<1>7. asked = T <=> Len(asked) = m + n /\ \A i \in 1 .. m + n : asked[i] = T[i]
  BY <1>1, <1>5, <1>6, SeqEqual
<1>8. (\A i \in 1 .. m + n : asked[i] = T[i]) <=>
        (\A i \in 1 .. m : asked[i] = A[i]) /\ (\A i \in 1 .. n : asked[m + i] = Q[i])
  <2>1. \A i \in 1 .. m : i \in 1 .. m + n /\ T[i] = A[i]
    BY <1>1, <1>5
  <2>2. \A i \in 1 .. n : m + i \in 1 .. m + n /\ T[m + i] = Q[i]
    <3> TAKE i \in 1 .. n
    <3>1. m + i \in 1 .. m + n /\ ~(m + i <= m) /\ (m + i) - m = i
      BY <1>1
    <3> QED
      BY <1>5, <3>1
  <2>3. \A i \in 1 .. m + n : i \in 1 .. m \/ \E j \in 1 .. n : i = m + j
    <3> TAKE i \in 1 .. m + n
    <3>1. i \in 1 .. m \/ (i - m \in 1 .. n /\ i = m + (i - m))
      BY <1>1
    <3> QED
      BY <3>1
  <2>4. ASSUME \A i \in 1 .. m + n : asked[i] = T[i]
        PROVE  (\A i \in 1 .. m : asked[i] = A[i]) /\ (\A i \in 1 .. n : asked[m + i] = Q[i])
    BY <2>1, <2>2, <2>4
  <2>5. ASSUME \A i \in 1 .. m : asked[i] = A[i], \A i \in 1 .. n : asked[m + i] = Q[i], NEW i \in 1 .. m + n
        PROVE  asked[i] = T[i]
    <3>1. CASE i \in 1 .. m
      BY <2>1, <2>5, <3>1
    <3>2. ASSUME NEW j \in 1 .. n, i = m + j PROVE asked[i] = T[i]
      BY <2>2, <2>5, <3>2
    <3> QED
      BY <2>3, <3>1, <3>2
  <2> QED
    BY <2>4, <2>5
<1>9. asked = T <=> Ordered(asked, answers, queue)
  BY <1>2, <1>3, <1>7, <1>8 DEF Ordered, m, n
<1> QED
  BY <1>9 DEF T, A, Q

LEMMA OrderKept ==
  ASSUME NEW X, NEW Y, NEW Z, NEW asked \in Seq(X), NEW answers \in Seq(Y), NEW queue \in Seq(Z),
         Ordered(asked, answers, queue)
  PROVE  /\ \A x \in X, r \in Z : r.pair = x => Ordered(Append(asked, x), answers, Append(queue, r))
         /\ \A y \in Y : queue # <<>> /\ y[1] = Head(queue).pair => Ordered(asked, Append(answers, y), Tail(queue))
<1> DEFINE m == Len(answers)
           n == Len(queue)
<1>1. /\ m \in Nat /\ n \in Nat /\ Len(asked) = m + n
      /\ \A i \in 1 .. m : asked[i] = answers[i][1]
      /\ \A i \in 1 .. n : asked[m + i] = queue[i].pair
  BY DEF Ordered
<1>2. ASSUME NEW x \in X, NEW r \in Z, r.pair = x PROVE Ordered(Append(asked, x), answers, Append(queue, r))
  <2> DEFINE a == Append(asked, x)
             q == Append(queue, r)
  <2>1. Len(a) = (m + n) + 1 /\ (\A i \in 1 .. m + n : a[i] = asked[i]) /\ a[(m + n) + 1] = x
    BY <1>1
  <2>2. Len(q) = n + 1 /\ (\A i \in 1 .. n : q[i] = queue[i]) /\ q[n + 1] = r
    BY <1>1
  <2> HIDE DEF a, q, m, n
  <2>3. \A i \in 1 .. m : i \in 1 .. m + n
    BY <1>1
  <2>4. \A i \in 1 .. n : m + i \in 1 .. m + n
    BY <1>1
  <2>5. m + (n + 1) = (m + n) + 1 /\ \A i \in 1 .. n + 1 : i \in 1 .. n \/ i = n + 1
    BY <1>1
  <2>6. \A i \in 1 .. m : a[i] = answers[i][1]
    BY <1>1, <2>1, <2>3
  <2>7. \A i \in 1 .. n + 1 : a[m + i] = q[i].pair
    <3>1. \A i \in 1 .. n : a[m + i] = q[i].pair
      BY <1>1, <2>1, <2>2, <2>4
    <3>2. a[m + (n + 1)] = q[n + 1].pair
      BY <1>2, <2>1, <2>2, <2>5
    <3> QED
      BY <2>5, <3>1, <3>2
  <2>8. Len(a) = m + Len(q)
    BY <1>1, <2>1, <2>2
  <2> QED
    BY <2>2, <2>6, <2>7, <2>8 DEF Ordered, m, a, q
<1>3. ASSUME NEW y \in Y, queue # <<>>, y[1] = Head(queue).pair PROVE Ordered(asked, Append(answers, y), Tail(queue))
  <2> DEFINE b == Append(answers, y)
             q == Tail(queue)
  <2>1. Len(b) = m + 1 /\ (\A i \in 1 .. m : b[i] = answers[i]) /\ b[m + 1] = y
    BY <1>1
  <2>2. n >= 1 /\ Len(q) = n - 1 /\ (\A i \in 1 .. n - 1 : q[i] = queue[i + 1]) /\ Head(queue) = queue[1]
    BY <1>1, <1>3, HeadTailProperties
  <2> HIDE DEF b, q, m, n
  <2>3. \A i \in 1 .. m + 1 : i \in 1 .. m \/ i = m + 1
    BY <1>1
  <2>4. \A i \in 1 .. n - 1 : i + 1 \in 1 .. n /\ (m + 1) + i = m + (i + 1)
    BY <1>1
  <2>5. asked[m + 1] = b[m + 1][1]
    BY <1>1, <1>3, <2>1, <2>2
  <2>6. \A i \in 1 .. m + 1 : asked[i] = b[i][1]
    BY <1>1, <2>1, <2>3, <2>5
  <2>7. \A i \in 1 .. n - 1 : asked[(m + 1) + i] = q[i].pair
    BY <1>1, <2>2, <2>4
  <2>8. Len(asked) = (m + 1) + (n - 1)
    BY <1>1
  <2> QED
    BY <2>1, <2>2, <2>6, <2>7, <2>8 DEF Ordered, b, q
<1> QED
  BY <1>2, <1>3

\* No request changes.
LEMMA ServesSame ==
  ASSUME GeneratorServes, Iterating, Owning', eng.resolved \subseteq eng'.resolved,
         gen'.asked = gen.asked, gen'.answers = gen.answers, gen'.queue = gen.queue,
         gen'.state = "awaitingReturn" => gen.state = "awaitingReturn" \/ (gen.queue # <<>> /\ Head1.type = "return"),
         gen.state \in {"completed", "awaitingReturn"} => gen'.state \in {"completed", "awaitingReturn"}
  PROVE  GeneratorServes' /\ Iterating'
<1>1. \A i \in DOMAIN gen'.queue : gen'.queue[i].pair \notin eng'.resolved
  BY DEF Owning, Owned, Private
<1>2. \A i \in DOMAIN gen'.answers : gen'.answers[i][1] \in eng'.resolved
  BY DEF GeneratorServes
<1>3. gen'.state = "awaitingReturn" => gen'.queue # <<>> /\ Head1'.type = "return"
  BY DEF GeneratorServes, Head1
<1>4. \A i \in DOMAIN gen'.answers : \A j \in 1 .. i - 1 :
        gen'.answers[i][2] = Iterated => gen'.answers[j][2] = Iterated
  BY DEF GeneratorServes
<1>5. gen'.asked = [i \in DOMAIN gen'.answers |-> gen'.answers[i][1]] \o [i \in DOMAIN gen'.queue |-> gen'.queue[i].pair]
  BY DEF GeneratorServes
<1>6. Iterating'
  BY DEF Iterating
<1> QED
  BY <1>1, <1>2, <1>3, <1>4, <1>5, <1>6 DEF GeneratorServes

\* A request is added.
LEMMA ServesCall ==
  ASSUME Base, Owning, GeneratorServes, Iterating, Owning', eng.resolved \subseteq eng'.resolved,
         NEW type \in {"next", "return", "throw"}, NEW v \in HeldValue, CallGenerator(type, v)
  PROVE  GeneratorServes' /\ Iterating'
<1> DEFINE Request == [type : {"next", "return", "throw"}, value : Value, pair : Pair]
<1>1. /\ gen.queue \in Seq(Request) /\ gen.asked \in Seq(Pair) /\ gen.answers \in Seq(Pair \X Val) /\ v \in Value
      /\ Fresh(eng) # {} /\ Spared(Owned, eng, comb)
  BY GeneratorKnown, OwnedKnown, HiddenKnown DEF GeneratorData, CallGenerator
<1>2. PICK x \in Pair, r \in Request : x = Cap(New(eng)) /\ r = [type |-> type, value |-> v, pair |-> x]
  <2>1. Cap(New(eng)) \in Pair
    BY <1>1, CreateSpares DEF Made
  <2> QED
    BY <1>1, <2>1
<1>3. /\ gen'.queue = Append(gen.queue, r) /\ gen'.asked = Append(gen.asked, x)
      /\ gen'.answers = gen.answers /\ gen'.state = gen.state /\ r.pair = x
  BY <1>2, GeneratorKnown DEF CallGenerator, GeneratorData
<1> HIDE DEF Request
<1>4. gen'.queue \in Seq(Request) /\ gen'.asked \in Seq(Pair) /\ gen'.answers \in Seq(Pair \X Val)
  BY <1>1, <1>2, <1>3
<1>5. Ordered(gen.asked, gen.answers, gen.queue)
  <2>1. gen.asked = Firsts(gen.answers) \o PairsOf(gen.queue)
    BY DEF GeneratorServes, Firsts, PairsOf
  <2> QED
    BY <1>1, <2>1, OrderIs
<1>6. Ordered(gen'.asked, gen'.answers, gen'.queue)
  BY <1>1, <1>2, <1>3, <1>5, OrderKept
<1>7. gen'.asked = [i \in DOMAIN gen'.answers |-> gen'.answers[i][1]] \o [i \in DOMAIN gen'.queue |-> gen'.queue[i].pair]
  <2>1. PICK asked \in Seq(Pair), answers \in Seq(Pair \X Val), queue \in Seq(Request) :
          asked = gen'.asked /\ answers = gen'.answers /\ queue = gen'.queue
    BY <1>4
  <2>2. Ordered(asked, answers, queue)
    BY <1>6, <2>1
  <2>3. asked = Firsts(answers) \o PairsOf(queue)
    BY <2>2, OrderIs
  <2> QED
    BY <2>1, <2>3 DEF Firsts, PairsOf
<1>8. \A i \in DOMAIN gen'.queue : gen'.queue[i].pair \notin eng'.resolved
  BY DEF Owning, Owned, Private
<1>9. gen'.state = "awaitingReturn" => gen'.queue # <<>> /\ Head1'.type = "return"
  <2>1. gen'.state = "awaitingReturn" => gen.queue # <<>> /\ Head(gen.queue).type = "return"
    BY <1>3 DEF GeneratorServes, Head1
  <2>2. gen.queue # <<>> => gen'.queue # <<>> /\ Head(gen'.queue) = Head(gen.queue)
    BY SMTT(60), <1>1, <1>2, <1>3
  <2> QED
    BY <2>1, <2>2 DEF Head1
<1>10. /\ \A i \in DOMAIN gen'.answers : gen'.answers[i][1] \in eng'.resolved
       /\ \A i \in DOMAIN gen'.answers : \A j \in 1 .. i - 1 :
            gen'.answers[i][2] = Iterated => gen'.answers[j][2] = Iterated
  BY <1>3 DEF GeneratorServes
<1>11. Iterating'
  BY <1>3 DEF Iterating
<1> QED
  BY <1>7, <1>8, <1>9, <1>10, <1>11 DEF GeneratorServes

\* The first request is answered.
LEMMA ServesAnswer ==
  ASSUME Base, Owning, GeneratorServes, Iterating, Owning', eng.resolved \subseteq eng'.resolved,
         Answering, Head1.pair \in eng'.resolved
  PROVE  GeneratorServes' /\ Iterating'
<1> DEFINE Request == [type : {"next", "return", "throw"}, value : Value, pair : Pair]
<1>1. gen.queue \in Seq(Request) /\ gen.asked \in Seq(Pair) /\ gen.answers \in Seq(Pair \X Val) /\ gen \in GeneratorData
  BY GeneratorKnown DEF GeneratorData
<1>2. PICK v \in Val, state \in {"suspendedYield", "completed"} :
        /\ gen' = Answered(state, v) /\ gen.queue # <<>>
        /\ v = Iterated <=> state = "suspendedYield"
        /\ v = Iterated => gen.state \notin {"completed", "awaitingReturn"}
  BY DEF Answering, AnswerStep
<1>3. PICK y \in Pair \X Val : y = <<Head1.pair, v>>
  BY <1>1, <1>2, GeneratorKnown DEF Made
<1>4. /\ gen'.queue = Tail(gen.queue) /\ gen'.asked = gen.asked
      /\ gen'.answers = Append(gen.answers, y) /\ gen'.state = state
  BY <1>1, <1>2, <1>3 DEF Answered, GeneratorData
<1>5. y[1] = Head1.pair /\ y[2] = v
  BY <1>3
<1> HIDE DEF Request
<1>6. gen'.queue \in Seq(Request) /\ gen'.asked \in Seq(Pair) /\ gen'.answers \in Seq(Pair \X Val)
  BY <1>1, <1>2, <1>4
<1>7. Ordered(gen.asked, gen.answers, gen.queue)
  <2>1. gen.asked = Firsts(gen.answers) \o PairsOf(gen.queue)
    BY DEF GeneratorServes, Firsts, PairsOf
  <2> QED
    BY <1>1, <2>1, OrderIs
<1>8. Ordered(gen'.asked, gen'.answers, gen'.queue)
  <2>1. PICK asked \in Seq(Pair), answers \in Seq(Pair \X Val), queue \in Seq(Request) :
          asked = gen.asked /\ answers = gen.answers /\ queue = gen.queue
    BY <1>1
  <2>2. Ordered(asked, answers, queue) /\ queue # <<>> /\ y[1] = Head(queue).pair
    BY <1>2, <1>5, <1>7, <2>1 DEF Head1
  <2>3. Ordered(asked, Append(answers, y), Tail(queue))
    BY <2>2, OrderKept
  <2> QED
    BY <1>4, <2>1, <2>3
<1>9. gen'.asked = [i \in DOMAIN gen'.answers |-> gen'.answers[i][1]] \o [i \in DOMAIN gen'.queue |-> gen'.queue[i].pair]
  <2>1. PICK asked \in Seq(Pair), answers \in Seq(Pair \X Val), queue \in Seq(Request) :
          asked = gen'.asked /\ answers = gen'.answers /\ queue = gen'.queue
    BY <1>6
  <2>2. Ordered(asked, answers, queue)
    BY <1>8, <2>1
  <2>3. asked = Firsts(answers) \o PairsOf(queue)
    BY <2>2, OrderIs
  <2> QED
    BY <2>1, <2>3 DEF Firsts, PairsOf
<1>10. \A i \in DOMAIN gen'.queue : gen'.queue[i].pair \notin eng'.resolved
  BY DEF Owning, Owned, Private
<1>11. gen'.state # "awaitingReturn"
  BY <1>2, <1>4
<1>12. /\ \A i \in DOMAIN gen'.answers : i \in Nat
       /\ \A i \in DOMAIN gen'.answers : (i \in DOMAIN gen.answers /\ gen'.answers[i] = gen.answers[i])
                                         \/ (i = Len(gen.answers) + 1 /\ gen'.answers[i] = y)
       /\ \A i \in DOMAIN gen'.answers : \A j \in 1 .. i - 1 : j \in DOMAIN gen.answers /\ gen'.answers[j] = gen.answers[j]
  <2> DEFINE s == gen.answers
             t == gen'.answers
  <2>1. s \in Seq(Pair \X Val) /\ t = Append(s, y)
    BY <1>1, <1>4
  <2> HIDE DEF s, t
  <2>2. /\ Len(s) \in Nat /\ DOMAIN s = 1 .. Len(s) /\ DOMAIN t = 1 .. Len(s) + 1
        /\ (\A i \in 1 .. Len(s) : t[i] = s[i]) /\ t[Len(s) + 1] = y
    BY <2>1
  <2>3. \A i \in 1 .. Len(s) + 1 : i \in Nat /\ (i \in 1 .. Len(s) \/ i = Len(s) + 1) /\ \A j \in 1 .. i - 1 : j \in 1 .. Len(s)
    BY <2>2
  <2>4. /\ \A i \in DOMAIN t : i \in Nat
        /\ \A i \in DOMAIN t : (i \in DOMAIN s /\ t[i] = s[i]) \/ (i = Len(s) + 1 /\ t[i] = y)
        /\ \A i \in DOMAIN t : \A j \in 1 .. i - 1 : j \in DOMAIN s /\ t[j] = s[j]
    BY <2>2, <2>3
  <2> QED
    BY <2>4 DEF s, t
<1>13. \A i \in DOMAIN gen'.answers : gen'.answers[i][1] \in eng'.resolved
  BY <1>5, <1>12 DEF GeneratorServes
<1>14. \A i \in DOMAIN gen'.answers : \A j \in 1 .. i - 1 :
         gen'.answers[i][2] = Iterated => gen'.answers[j][2] = Iterated
  <2> TAKE i \in DOMAIN gen'.answers
  <2> TAKE j \in 1 .. i - 1
  <2> HAVE gen'.answers[i][2] = Iterated
  <2>1. j \in DOMAIN gen.answers /\ gen'.answers[j] = gen.answers[j]
    BY <1>12
  <2>2. CASE i \in DOMAIN gen.answers /\ gen'.answers[i] = gen.answers[i]
    BY <2>1, <2>2 DEF GeneratorServes
  <2>3. CASE gen'.answers[i] = y
    BY <1>2, <1>5, <2>1, <2>3 DEF Iterating
  <2> QED
    BY <1>12, <2>2, <2>3
<1>15. Iterating'
  BY <1>2, <1>4, <1>5, <1>12 DEF Iterating
<1> QED
  BY <1>9, <1>10, <1>11, <1>13, <1>14, <1>15 DEF GeneratorServes

\* Every step serves.
LEMMA NextServes ==
  ASSUME Base, Owning, GeneratorServes, Iterating, Next
  PROVE  GeneratorServes' /\ Iterating'
<1>1. eng.resolved \subseteq eng'.resolved /\ Owning' /\ gen \in GeneratorData
  BY NextKeeps, NextOwns, GeneratorKnown DEF Grows
<1>2. CASE gen' = gen
  BY <1>1, <1>2, ServesSame
<1>3. CASE CoroutinesNext /\ UNCHANGED comb
  <2>1. CASE \/ \E a \in Activation : CallAsync(a)
             \/ AwaitFails \/ RunResume \/ NoRequest \/ RunContinue
             \/ \E v \in HeldValue : Await(v) \/ GeneratorAwaits(v) \/ \E how \in How : BodyEnds(how, v)
    <3>1. gen' = gen
      BY <2>1 DEF CallAsync, AwaitFails, RunResume, NoRequest, RunContinue, Await, GeneratorAwaits, BodyEnds
    <3> QED
      BY <1>2, <3>1
  <2>2. ASSUME NEW v \in HeldValue, NEW type \in {"next", "return", "throw"}, CallGenerator(type, v)
        PROVE  GeneratorServes' /\ Iterating'
    BY <1>1, <2>2, ServesCall
  <2>3. CASE EnterBody \/ NeverStarted
    <3>1. PICK state \in {"executing", "completed"} : gen' = [gen EXCEPT !.state = state]
      BY <2>3 DEF EnterBody, NeverStarted
    <3>2. gen'.asked = gen.asked /\ gen'.answers = gen.answers /\ gen'.queue = gen.queue /\ gen'.state = state
      BY <1>1, <3>1 DEF GeneratorData
    <3>3. gen.state \notin {"completed", "awaitingReturn"}
      BY <2>3 DEF EnterBody, NeverStarted, Looping
    <3> QED
      BY <1>1, <3>2, <3>3, ServesSame
  <2>4. CASE \/ Yield \/ RunReturned \/ (AnswerCompleted /\ Head1.type # "return")
             \/ \E how \in How, v \in HeldValue : GeneratorEnds(how, v)
    <3>1. Answering
      BY <2>4, AnswersAre
    <3>2. Head1.pair \in eng'.resolved
      BY <1>1, <1>3, <3>1, AnsweringOwns
    <3> QED
      BY <1>1, <3>1, <3>2, ServesAnswer
  <2>5. CASE AnswerCompleted /\ Head1.type = "return"
    <3>1. gen.queue # <<>> /\ gen' = [gen EXCEPT !.state = "awaitingReturn"]
      BY <1>1, <1>3, <2>5, ReturnOwns
    <3>2. gen'.asked = gen.asked /\ gen'.answers = gen.answers /\ gen'.queue = gen.queue /\ gen'.state = "awaitingReturn"
      BY <1>1, <3>1 DEF GeneratorData
    <3> QED
      BY <1>1, <2>5, <3>1, <3>2, ServesSame
  <2> QED
    BY <1>3, <2>1, <2>2, <2>3, <2>4, <2>5 DEF CoroutinesNext
<1>4. (PromisesNext /\ UNCHANGED <<comb, cvars>>) \/ (CombinatorNext /\ UNCHANGED cvars) => gen' = gen
  BY DEF cvars
<1> QED
  BY <1>2, <1>3, <1>4 DEF Next

LEMMA InitServes ==
  ASSUME Init
  PROVE  GeneratorServes /\ Iterating
<1>1. gen = [state |-> "suspendedStart", queue |-> <<>>, asked |-> <<>>, answers |-> <<>>]
  BY DEF Init, CoroutinesInit
<1>2. <<>> \in Seq(Pair) /\ <<>> \in Seq(Pair \X Val) /\ Len(<<>>) = 0 /\ DOMAIN gen.queue = {} /\ DOMAIN gen.answers = {}
  BY <1>1, EmptySeq
<1>3. Ordered(gen.asked, gen.answers, gen.queue)
  BY <1>1, <1>2 DEF Ordered
<1>4. gen.asked = [i \in DOMAIN gen.answers |-> gen.answers[i][1]] \o [i \in DOMAIN gen.queue |-> gen.queue[i].pair]
  <2>1. gen.asked \in Seq(Pair) /\ gen.answers \in Seq(Pair \X Val) /\ gen.queue \in Seq(Pair)
    BY <1>1, <1>2
  <2>2. gen.asked = Firsts(gen.answers) \o PairsOf(gen.queue)
    BY <1>3, <2>1, OrderIs
  <2> QED
    BY <2>2 DEF Firsts, PairsOf
<1> QED
  BY <1>1, <1>2, <1>4 DEF GeneratorServes, Iterating

LEMMA StutterOwns ==
  ASSUME Owning, GeneratorServes, Iterating, UNCHANGED vars
  PROVE  Owning' /\ GeneratorServes' /\ Iterating'
<1>1. eng' = eng /\ stack' = stack /\ held' = held /\ comb' = comb /\ act' = act /\ gen' = gen
  BY DEF vars, pvars, cvars
<1>2. Owned' = Owned /\ \A a \in Activation : Active(a)' <=> Active(a)
  BY <1>1 DEF Owned, Active
<1>3. Owning'
  BY <1>1, <1>2 DEF Owning
<1>4. GeneratorServes' /\ Iterating'
  BY <1>1 DEF GeneratorServes, Iterating, Head1
<1> QED
  BY <1>3, <1>4

-----------------------------------------------------------------------------
(* How often suspended code is continued.                                  *)

LEMMA AtMostOne ==
  ASSUME NEW S, \A x, y \in S : x = y
  PROVE  /\ S = {} => Cardinality(S) = 0
         /\ S # {} => Cardinality(S) = 1
<1>1. S # {} => \E x : S = {x}
  OBVIOUS
<1> QED
  BY <1>1, FS_EmptySet, FS_Singleton

\* What is counted is what the invariant speaks of.
LEMMA Counted ==
  ASSUME Base, NEW fn, NEW of, NEW h \in Control, h.fn = fn, h.of = of
  PROVE  Cardinality(Continuations(fn, of)) = IF Expects(eng, h) THEN 1 ELSE 0
<1> DEFINE On(p) == {j \in DOMAIN eng.promise[p].reactions : Is(eng.promise[p].reactions[j].on["fulfilled"], fn, of)}
           R == UNION {{<<p, i>> : i \in On(p)} : p \in Promise}
           J == {i \in DOMAIN eng.jobs : eng.jobs[i].kind = "reaction" /\ Is(eng.jobs[i].handler, fn, of)}
<1>1. Alone(eng, h) /\ eng \in Engine(Handler(comb), Val) /\ fn \in {"resume", "continue", "returned"} /\ "fulfilled" \in How
  BY DEF Base, Good, Activated, Generating, Control, Resume, Continued, Returned, How
<1>2. \A g \in Handler(comb) : Is(g, fn, of) <=> g = h
  <2>1. \A g \in Handler(comb) : g.fn = fn => g \in Control
    BY <1>1 DEF Handler, Undefined, Control, Resume, Continued, Returned
  <2>2. \A g \in Control : g.fn = fn /\ g.of = of => g = h
    BY DEF Control, Resume, Continued, Returned
  <2> QED
    BY <2>1, <2>2 DEF Is
<1>3. ASSUME NEW p \in Promise, NEW i \in DOMAIN eng.promise[p].reactions
      PROVE  eng.promise[p].reactions[i].on \in [How -> Handler(comb)]
  <2> DEFINE Entries == [on : [How -> Handler(comb)], cap : Capability]
  <2>1. eng.promise[p].reactions \in Seq(Entries)
    BY <1>1 DEF Engine, PromiseState
  <2> HIDE DEF Entries
  <2>2. eng.promise[p].reactions[i] \in Entries
    BY <1>3, <2>1
  <2> QED
    BY <2>2 DEF Entries
<1>4. ASSUME NEW p \in Promise, NEW i \in DOMAIN eng.promise[p].reactions
      PROVE  i \in On(p) <=> Calls(eng.promise[p].reactions[i], h)
  <2>1. eng.promise[p].reactions[i].on["fulfilled"] \in Handler(comb)
    BY <1>1, <1>3
  <2>2. i \in On(p) <=> eng.promise[p].reactions[i].on["fulfilled"] = h
    BY <1>2, <2>1
  <2>3. Calls(eng.promise[p].reactions[i], h) => eng.promise[p].reactions[i].on["fulfilled"] = h
    BY <1>1 DEF Alone
  <2> QED
    BY <1>1, <2>2, <2>3 DEF Calls
<1>5. ASSUME NEW i \in DOMAIN eng.jobs PROVE i \in J <=> Runs(eng.jobs[i], h)
  <2>1. eng.jobs[i] \in ReactionJobs(Handler(comb), Val) \cup ThenableJobs
    BY <1>1 DEF Engine
  <2>2. eng.jobs[i].kind = "reaction" => eng.jobs[i].handler \in Handler(comb)
    BY <2>1 DEF ReactionJobs, ThenableJobs
  <2> QED
    BY <1>2, <2>2 DEF Runs
<1>6. Continuations(fn, of) = R \cup J
  BY DEF Continuations
<1> HIDE DEF On
<1>7. \A x \in R : \E p \in Promise : \E i \in DOMAIN eng.promise[p].reactions :
        x = <<p, i>> /\ Calls(eng.promise[p].reactions[i], h)
  <2>1. \A p \in Promise : On(p) \subseteq DOMAIN eng.promise[p].reactions
    BY DEF On
  <2> QED
    BY <1>4, <2>1
<1>8. \A p \in Promise : \A i \in DOMAIN eng.promise[p].reactions :
        Calls(eng.promise[p].reactions[i], h) => <<p, i>> \in R
  BY <1>4
<1>9. (R # {} <=> Registered(eng, h)) /\ (J # {} <=> Queued(eng, h))
  <2>1. R # {} <=> Registered(eng, h)
    BY <1>7, <1>8 DEF Registered
  <2>2. J # {} <=> Queued(eng, h)
    BY <1>5 DEF Queued
  <2> QED
    BY <2>1, <2>2
<1>10. \A x, y \in R : x = y
  BY <1>1, <1>7 DEF Alone
<1>11. \A x, y \in J : x = y
  BY <1>1, <1>5 DEF Alone
<1> HIDE DEF R, J
<1>12. R = {} \/ J = {}
  BY <1>1, <1>9 DEF Alone
<1>13. \A x, y \in R \cup J : x = y
  BY <1>10, <1>11, <1>12
<1>14. Expects(eng, h) <=> R \cup J # {}
  BY <1>9 DEF Expects
<1> QED
  BY <1>6, <1>13, <1>14, AtMostOne

\* One frame, and one continuation.
LEMMA ContinuesOnce ==
  ASSUME Base, Owning
  PROVE  OneContinuation
<1>1. /\ stack \in Seq(Frame(comb)) /\ Stacked(stack) /\ Generating
      /\ \A a \in Activation : Activated(a) /\ Resume(a) \in Control /\ act[a] \in ActivationData
      /\ \A f \in InProgress(stack) : Informed(f)
      /\ Continued \in Control /\ Returned \in Control
  BY GeneratorKnown DEF Base, TypeOK
<1>2. /\ DOMAIN stack \subseteq Nat
      /\ \A i \in DOMAIN stack : stack[i] \in InProgress(stack)
      /\ \A f \in InProgress(stack) : \E i \in DOMAIN stack : f = stack[i]
  BY <1>1 DEF InProgress
<1>3. ASSUME NEW a \in Activation
      PROVE  Cardinality(Continuations("resume", a)) = IF act[a].state = "awaiting" THEN 1 ELSE 0
  <2>1. Cardinality(Continuations("resume", a)) = IF Expects(eng, Resume(a)) THEN 1 ELSE 0
    BY <1>1, Counted DEF Resume
  <2> QED
    BY <1>1, <2>1 DEF Activated
<1>4. ASSUME NEW a \in Activation
      PROVE  Cardinality({i \in Frames("async") : stack[i].of = a}) = IF act[a].state = "running" THEN 1 ELSE 0
  <2> DEFINE S == {i \in Frames("async") : stack[i].of = a}
  <2>1. \A i, j \in S : i = j
    BY <1>1 DEF Frames, Stacked, Alike
  <2>2. S # {} <=> \E f \in InProgress(stack) : f.kind = "async" /\ f.of = a
    BY <1>2 DEF Frames
  <2>3. S # {} <=> act[a].state = "running"
    BY <1>1, <2>2 DEF Activated
  <2> HIDE DEF S
  <2>4. Cardinality(S) = IF act[a].state = "running" THEN 1 ELSE 0
    BY <2>1, <2>3, AtMostOne
  <2> QED
    BY <2>4 DEF S
<1>5. ASSUME NEW a \in Activation, act[a].cap # None PROVE act[a].state = "done" <=> act[a].cap \in eng.resolved
  <2>1. act[a].state \in {"running", "awaiting", "done"}
    BY <1>1, <1>5 DEF Activated, ActivationData
  <2>2. Active(a) => act[a].cap \in Owned
    BY OwnedKnown
  <2> QED
    BY <2>1, <2>2 DEF Active, Owning, Private
<1>6. ASSUME NEW i \in Frames("async"), stack[i].got # None PROVE stack[i].got = Outcome(eng, act[stack[i].of].on)
  BY <1>1, <1>2, <1>6 DEF Frames, Informed
<1>7. Cardinality(Continuations("returned", None)) = IF gen.state = "awaitingReturn" THEN 1 ELSE 0
  <2>1. Cardinality(Continuations("returned", None)) = IF Expects(eng, Returned) THEN 1 ELSE 0
    BY <1>1, Counted DEF Returned
  <2> QED
    BY <1>1, <2>1 DEF Generating
<1> DEFINE awaits == Cardinality(Continuations("continue", None))
           bodies == Cardinality(Frames("generator"))
           loops == Cardinality(Frames("resumeNext"))
<1>8. awaits = IF Expects(eng, Continued) THEN 1 ELSE 0
  BY <1>1, Counted DEF Continued
<1>9. (Frames("generator") = {} => bodies = 0) /\ (Frames("generator") # {} => bodies = 1)
  <2> DEFINE S == Frames("generator")
  <2>1. ASSUME NEW i \in S, NEW j \in S PROVE i = j
    <3>1. i \in Nat /\ j \in Nat /\ i + 1 \in DOMAIN stack /\ j + 1 \in DOMAIN stack
      BY <1>1, <1>2 DEF Frames, Stacked
    <3>2. stack[i + 1].kind = "resumeNext" /\ stack[j + 1].kind = "resumeNext"
      BY <1>1, <3>1 DEF Frames, Stacked
    <3>3. i + 1 = j + 1
      BY <1>1, <3>1, <3>2 DEF Stacked, Alike
    <3> QED
      BY ONLY <3>1, <3>3
  <2> HIDE DEF S
  <2>2. (S = {} => Cardinality(S) = 0) /\ (S # {} => Cardinality(S) = 1)
    BY <2>1, AtMostOne
  <2> QED
    BY <2>2 DEF S
<1>10. (Frames("resumeNext") = {} => loops = 0) /\ (Frames("resumeNext") # {} => loops = 1)
  <2> DEFINE S == Frames("resumeNext")
  <2>1. \A i, j \in S : i = j
    BY <1>1 DEF Frames, Stacked, Alike
  <2> HIDE DEF S
  <2>2. (S = {} => Cardinality(S) = 0) /\ (S # {} => Cardinality(S) = 1)
    BY <2>1, AtMostOne
  <2> QED
    BY <2>2 DEF S
<1>11. /\ Frames("generator") # {} <=> \E f \in InProgress(stack) : f.kind = "generator"
       /\ Frames("resumeNext") # {} <=> \E f \in InProgress(stack) : f.kind = "resumeNext"
  BY <1>2 DEF Frames
<1>12. Frames("generator") # {} => Frames("resumeNext") # {}
  BY <1>1 DEF Frames, Stacked
<1> HIDE DEF awaits, bodies, loops
<1>13. IF gen.state = "executing"
       THEN gen.queue # <<>> /\ bodies <= 1 /\ (IF awaits = 0 THEN loops >= 1 ELSE awaits = 1 /\ bodies = 0)
       ELSE awaits = 0 /\ bodies = 0
  <2>1. Expects(eng, Continued) <=> gen.state = "executing" /\ Frames("resumeNext") = {}
    BY <1>1, <1>11 DEF Generating
  <2>2. Frames("generator") # {} => gen.state = "executing"
    BY <1>1, <1>11 DEF Generating
  <2>3. gen.state = "executing" => gen.queue # <<>>
    BY <1>1 DEF Generating
  <2> QED
    BY <1>8, <1>9, <1>10, <1>12, <2>1, <2>2, <2>3
<1> QED
  BY <1>3, <1>4, <1>5, <1>6, <1>7, <1>13 DEF OneContinuation, awaits, bodies, loops

-----------------------------------------------------------------------------
(* The theorems.                                                           *)

\* In every state native code refers only to resolving functions that exist, a
\* promise has one resolver, and suspended code one continuation (perform_promise_then,
\* js_async_function_resume, js_async_generator_resume_next).
THEOREM Invariance == Spec => []Base
<1>1. Base /\ [Next]_vars => Base'
  BY NextKeeps, StutterKeeps
<1> QED
  BY InitKeeps, <1>1, PTL DEF Spec

\* Jobs, reactions, calls and requests keep the shape the C code gives them.
THEOREM TypeCorrect == Spec => []TypeOK
<1>1. Base => TypeOK
  BY DEF Base
<1> QED
  BY Invariance, <1>1, PTL

\* Whatever scripts do with the resolving functions they hold, only the last pair
\* made for a promise can still settle it: fulfill_or_reject_promise never finds it
\* settled.
THEOREM OneResolverAtATime == Spec => []OneResolver
<1>1. Base => OneResolver
  BY DEF Base, Good, OneResolver
<1> QED
  BY Invariance, <1>1, PTL

\* No script, job, combinator, await or yield changes a settled promise, or leaves
\* a reaction on it that would wait for ever.
THEOREM SettledForGood == Spec => SettledOnce
<1>1. Base /\ Base' /\ [Next]_vars =>
        [\A p \in Promise : Settled(eng, p) =>
           Outcome(eng', p) = Outcome(eng, p) /\ eng'.promise[p].reactions = <<>>]_eng
  <2> SUFFICES ASSUME Base, Base', Next, NEW p \in Promise, Settled(eng, p)
               PROVE  Outcome(eng', p) = Outcome(eng, p) /\ eng'.promise[p].reactions = <<>>
    BY DEF vars, pvars
  <2>1. Outcome(eng', p) = Outcome(eng, p)
    BY NextKeeps DEF Grows
  <2>2. Settled(eng', p)
    BY <2>1 DEF Settled, Outcome
  <2>3. Sound(eng')
    BY DEF Base, Good
  <2> QED
    BY <2>1, <2>2, <2>3 DEF Sound
<1> QED
  BY Invariance, <1>1, PTL DEF Spec, SettledOnce

\* An awaiting call of an async function is resumed by one reaction or job, with the
\* outcome of the promise it awaits, and by nothing once it runs or has ended; the
\* body of a generator and its return request likewise (js_async_function_resolve_call,
\* js_async_generator_resolve_function).
THEOREM ContinuedOnce ==
  Spec => []((\A a \in Activation : Activated(a)) /\ (\A f \in InProgress(stack) : Informed(f)) /\ Generating)
<1>1. Base => (\A a \in Activation : Activated(a)) /\ (\A f \in InProgress(stack) : Informed(f)) /\ Generating
  BY DEF Base
<1> QED
  BY Invariance, <1>1, PTL

=============================================================================
