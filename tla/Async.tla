-------------------------------- MODULE Async -------------------------------
(***************************************************************************)
(* The asynchronous half of the engine as one system: promises, their      *)
(* combinators, async functions and an async generator share the engine,   *)
(* the stack and the queue of jobs.                                        *)
(***************************************************************************)
EXTENDS Combinators, Coroutines

vars == <<pvars, comb, cvars>>

Init == PromisesInit /\ CombinatorInit /\ CoroutinesInit

Next ==
  \/ PromisesNext /\ UNCHANGED <<comb, cvars>>
  \/ CombinatorNext /\ UNCHANGED cvars
  \/ CoroutinesNext /\ UNCHANGED comb

Spec == Init /\ [][Next]_vars

-----------------------------------------------------------------------------
(* What every state of this system is like: the invariant that proves the  *)
(* properties of the engine.                                               *)

ASSUME AsyncAssumption == None \notin How \X (Value \cup {None, Array, Iterated, Done})

Val == Value \cup {None, Array, Iterated, Done}
Completion == {None} \cup (How \X Val)

Resume(a) == [fn |-> "resume", of |-> a]
Continued == [fn |-> "continue", of |-> None]
Returned == [fn |-> "returned", of |-> None]
Handler(c) ==
  {Undefined} \cup [fn : {"settle"}, pair : Pair, how : How] \cup [fn : {"callback", "finally"}, id : Nat]
  \cup [fn : {"thunk"}, how : How, arg : Val]
  \cup {Resume(a) : a \in Activation} \cup {Continued, Returned}
  \cup (IF c = NoCombinator THEN {} ELSE [fn : {"element"}, item : Nat, how : How])

Frame(c) ==
  [kind : {"settler"}, pair : Pair] \cup [kind : {"callback"}, cap : Pair]
  \cup [kind : {"callback", "finally"}, id : Nat, cap : Capability, how : How, arg : Val]
  \cup [kind : {"async"}, of : Activation, got : Completion]
  \cup [kind : {"resumeNext"}, gives : Promise \cup {None}] \cup {GeneratorBody}
  \cup (IF c = NoCombinator THEN {} ELSE [kind : {"combine", "hook"}])
Combinator ==
  [kind : CombinatorKinds, items : Seq(Value \cup {Hook}), index : Nat, count : Int, cap : Pair,
   values : Seq(Completion), called : SUBSET (Nat \X (How \cup {"either"})), hooked : SUBSET Nat,
   failed : BOOLEAN]

ActivationData == [state : {"none", "running", "awaiting", "done"}, cap : Capability, on : Promise \cup {None}]
GeneratorData ==
  [state : {"suspendedStart", "suspendedYield", "executing", "awaitingReturn", "completed"},
   queue : Seq([type : {"next", "return", "throw"}, value : Value, pair : Pair]),
   asked : Seq(Pair), answers : Seq(Pair \X Val)]

LogTyped ==
  log \in [registered : Seq([on : Promise, sides : SUBSET How, derived : Promise, fn : {"callback", "finally"}]),
           ran : Seq([id : Nat, how : How, arg : Val]),
           odd : SUBSET Nat]
ScriptTyped == DOMAIN script = {"left", "values"} /\ script.values \subseteq Plain \cup Thenable \cup Poisoned
TypeOK ==
  /\ stack \in Seq(Frame(comb))
  /\ held \subseteq Promise \cup Pair
  /\ LogTyped
  /\ ScriptTyped
  /\ comb \in {NoCombinator} \cup Combinator
  /\ act \in [Activation -> ActivationData]
  /\ gen \in GeneratorData

InProgress(s) == {s[i] : i \in DOMAIN s}

(* Native code refers to resolving functions that were made.               *)
FrameIn(f, S) ==
  /\ f.kind = "settler" => f.pair \in S
  /\ f.kind \in {"callback", "finally"} => CapIn(f.cap, S)
Referred(S) ==
  /\ held \ Promise \subseteq S
  /\ \A f \in InProgress(stack) : FrameIn(f, S)
  /\ \A a \in Activation : CapIn(act[a].cap, S)
  /\ \A i \in DOMAIN gen.queue : gen.queue[i].pair \in S
  /\ comb # NoCombinator => comb.cap \in S

(* The body of the generator stands on the loop that entered it, a then    *)
(* method on the combinator that called it; the loops, and the body of an  *)
(* activation, have one frame.                                             *)
Alike(f, g) == f.kind = g.kind /\ (f.kind \in {"resumeNext", "combine"} \/ (f.kind = "async" /\ f.of = g.of))
Stacked(s) ==
  /\ \A i, j \in DOMAIN s : Alike(s[i], s[j]) => i = j
  /\ \A i \in DOMAIN s : s[i].kind \in {"generator", "hook"} => i + 1 \in DOMAIN s
  /\ \A i \in DOMAIN s : i + 1 \in DOMAIN s =>
       /\ s[i].kind = "generator" <=> s[i + 1].kind = "resumeNext"
       /\ s[i].kind = "hook" => s[i + 1].kind = "combine"

(* A suspended activation is resumed once, with the outcome it awaits.     *)
Activated(a) ==
  /\ Alone(eng, Resume(a)) /\ (Expects(eng, Resume(a)) <=> act[a].state = "awaiting")
  /\ act[a].cap = None <=> act[a].state = "none"
  /\ act[a].state = "awaiting" => act[a].on \in Promise /\ CalledFor(eng, Resume(a), act[a].on)
  /\ (\E f \in InProgress(stack) : f.kind = "async" /\ f.of = a) <=> act[a].state = "running"
Informed(f) ==
  f.kind = "async" /\ f.got # None =>
    LET p == act[f.of].on IN p \in Promise /\ Settled(eng, p) /\ f.got = Outcome(eng, p)

(* So is the generator, and it has a request while it runs.                *)
Generating ==
  /\ Alone(eng, Continued) /\ Alone(eng, Returned)
  /\ gen.state \in {"executing", "awaitingReturn"} => gen.queue # <<>>
  /\ Expects(eng, Returned) <=> gen.state = "awaitingReturn"
  /\ Expects(eng, Continued) <=> gen.state = "executing" /\ \A f \in InProgress(stack) : f.kind # "resumeNext"
  /\ (\E f \in InProgress(stack) : f.kind = "generator") => gen.state = "executing"

Base ==
  /\ TypeOK
  /\ Good(eng, Handler(comb), Val)
  /\ Referred(Made(eng))
  /\ Stacked(stack)
  /\ \A a \in Activation : Activated(a)
  /\ \A f \in InProgress(stack) : Informed(f)
  /\ Generating

(* The functions that native code keeps for itself: those of the promise of *)
(* a call whose body has not ended, and those of the requests in the queue. *)
(* Nobody else refers to them, and they have not been called.               *)
Active(a) == act[a].state \in {"running", "awaiting"}
Owned == {act[a].cap : a \in {b \in Activation : Active(b)}} \cup {gen.queue[i].pair : i \in DOMAIN gen.queue}
Private(K, e, h, s, c) ==
  /\ K \cap e.resolved = {} /\ PairsIn(e, Pair \ K)
  /\ (h \ Promise) \cap K = {}
  /\ \A f \in InProgress(s) : FrameIn(f, Pair \ K)
  /\ c # NoCombinator => c.cap \notin K
Owning ==
  /\ Private(Owned, eng, held, stack, comb)
  /\ \A a, b \in Activation : Active(a) /\ Active(b) /\ act[a].cap = act[b].cap => a = b
  /\ \A i, j \in DOMAIN gen.queue : gen.queue[i].pair = gen.queue[j].pair => i = j
  /\ \A a \in Activation, i \in DOMAIN gen.queue : Active(a) => act[a].cap # gen.queue[i].pair
  /\ \A a \in Activation : act[a].state = "done" => act[a].cap \in eng.resolved

(* Until it has ended a generator has only been iterated.                   *)
Iterating ==
  gen.state \notin {"completed", "awaitingReturn"} =>
    \A i \in DOMAIN gen.answers : gen.answers[i][2] = Iterated

(* The pairs of reactions that only their reactions may call: what then     *)
(* returned, what restores the outcome after finally, and what follows      *)
(* another promise.  A callback that runs serves its registration.          *)
Restorer(k) == eng.follows[log.registered[k].derived]
Pledged ==
  {Cap(log.registered[k].derived) : k \in DOMAIN log.registered}
  \cup {Cap(Restorer(k)) : k \in {l \in DOMAIN log.registered : Quiet(l)}}
Kept == Pledged \cup Chained(eng)
Serving(f) ==
  /\ f.kind \in {"callback", "finally"} /\ "id" \in DOMAIN f /\ f.id \in DOMAIN log.registered
  /\ LET g == log.registered[f.id] IN
     /\ f.kind = g.fn /\ f.cap = Cap(g.derived)
     /\ Settled(eng, g.on) /\ <<f.how, f.arg>> = Outcome(eng, g.on) /\ f.how \in g.sides
Apart(K) ==
  /\ (held \ Promise) \cap K = {}
  /\ \A f \in InProgress(stack) : FrameIn(f, Pair \ K) \/ Serving(f)
  /\ \A a \in Activation : act[a].cap \notin K
  /\ \A i \in DOMAIN gen.queue : gen.queue[i].pair \notin K
  /\ comb # NoCombinator => comb.cap \notin K
Distinct ==
  /\ \A k \in DOMAIN log.registered : log.registered[k].fn = "finally" => log.registered[k].sides = How
  /\ \A k, l \in DOMAIN log.registered :
       /\ log.registered[k].derived = log.registered[l].derived => k = l
       /\ Quiet(k) => Restorer(k) # log.registered[l].derived
Reacting ==
  /\ Straight(eng)
  /\ Sequenced(eng, log.registered, log.ran)
  /\ Apart(Kept)
  /\ Distinct
  /\ \A k \in DOMAIN log.registered : Derived(k)

(* The combinator keeps the functions of its result for itself, its loop,   *)
(* and the reactions and the then methods it gives them to.                 *)
Secluded ==
  /\ comb.cap \notin held \ Promise
  /\ \A f \in InProgress(stack) : FrameIn(f, Pair \ {comb.cap})

(* Its count is that of the items that have not reported, and one more      *)
(* until the loop is through; an item reports once.                         *)
Reported == {i \in Items : comb.values[i] # None}
InLoop == \E f \in InProgress(stack) : f.kind = "combine"
Countable == comb.kind \in {"all", "any"} \/ (comb.kind = "allSettled" /\ comb.hooked = {})
Counting ==
  /\ DOMAIN comb.values = Items
  /\ comb.index \in 0 .. Len(comb.items)
  /\ comb.hooked = {i \in 1 .. comb.index : ~Native(i)}
  /\ Reported \subseteq 1 .. comb.index
  /\ \A i \in Items : (\E how \in How : CalledKey(i, how) \in comb.called) <=> i \in Reported
  /\ \A i \in Reported : /\ comb.values[i][1] \in ElementSides(comb.kind)
                         /\ CalledKey(i, comb.values[i][1]) \in comb.called
  /\ comb.failed => comb.cap \in eng.resolved
  /\ InLoop => ~comb.failed
  /\ comb.failed \/ InLoop \/ comb.index = Len(comb.items)
  /\ Countable =>
       /\ comb.count = comb.index - Cardinality(Reported) + (IF comb.failed \/ InLoop THEN 1 ELSE 0)
       /\ comb.count = 0 => comb.cap \in eng.resolved

(* w has the promise each item was made.  Its reaction is due, or has       *)
(* called the function of the item, unless the result was resolved without  *)
(* it; and there are no other reactions that call these functions.          *)
Attached == {i \in 1 .. comb.index : Native(i)}
ItemReaction(i) == [on |-> Handlers(i), cap |-> None]
Becomes(i, p) ==
  /\ Item(i) \in Promise => p = Item(i)
  /\ Item(i) \in Poisoned => eng.promise[p].state = "rejected"
  /\ Item(i) \notin Promise \cup Thenable \cup Poisoned => eng.promise[p].state = "fulfilled"
Gathering(w) ==
  /\ Gathers(eng, comb.cap, {<<w[i], ItemReaction(i)>> : i \in Attached})
  /\ \A i \in Attached :
       /\ Becomes(i, w[i])
       /\ i \in Reported => comb.values[i] = Outcome(eng, w[i])
       /\ comb.cap \in eng.resolved \/ i \in Reported \/ Due(eng, w[i], ItemReaction(i))

(* Native code resolves the result with what settles it.                    *)
Decided ==
  /\ comb.cap \in eng.resolved => Settled(eng, comb.cap.of) \/ (comb.kind \in {"any", "race"} /\ comb.hooked # {})
  /\ ResultFits

Combining ==
  comb # NoCombinator =>
    Secluded /\ Counting /\ (\E w \in [Items -> Promise] : Gathering(w)) /\ Decided

IInv ==
  /\ Base
  /\ Owning
  /\ GeneratorServes
  /\ Iterating
  /\ Reacting
  /\ Combining

=============================================================================
