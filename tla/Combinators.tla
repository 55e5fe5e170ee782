---------------------------- MODULE Combinators ----------------------------
(***************************************************************************)
(* Promise.all, allSettled, any and race.  The loop over the iterable is   *)
(* native code that calls scripts: the iterator, and the then method of an *)
(* item that has its own (Hook), which is given the element functions and  *)
(* may call them at once, later, and more than once.                       *)
(***************************************************************************)
EXTENDS Promises

CONSTANTS
  Hook,  \* a promise whose then method the script has replaced
  Array, \* the array all and allSettled resolve with
  MaxItems  \* bound: the items of one iterable

ASSUME CombinatorsAssumption ==
  /\ Hook \notin Value /\ Array \notin Promise \cup Thenable \cup Poisoned
  /\ MaxItems \in Nat

VARIABLE comb  \* the combinator of this run, or NoCombinator

NoCombinator == [kind |-> "none"]
CombinatorKinds == {"all", "allSettled", "any", "race"}

(* The sides on which an item is given an element function; on the other    *)
(* side it is given the function of the result.                             *)
ElementSides(kind) ==
  CASE kind = "all" -> {"fulfilled"}
    [] kind = "any" -> {"rejected"}
    [] kind = "allSettled" -> How
    [] kind = "race" -> {}

Element(i, how) == [fn |-> "element", item |-> i, how |-> how]
Handlers(i) ==
  [how \in How |-> IF how \in ElementSides(comb.kind) THEN Element(i, how) ELSE Settler(comb.cap, how)]

(* alreadyCalled is in the data of each function: allSettled makes two.     *)
CalledKey(i, how) == IF comb.kind = "allSettled" THEN <<i, how>> ELSE <<i, "either">>

(* Promise.all and Promise.allSettled are fulfilled, Promise.any is         *)
(* rejected when the count reaches zero.                                    *)
Complete(e, c) ==
  IF c.kind = "any" THEN ResolvingCall(e, c.cap, "rejected", Error)
  ELSE ResolvingCall(e, c.cap, "fulfilled", Array)
AddRemaining(c, n) == [c EXCEPT !.count = @ + n]
CompleteIfZero(e, c) == IF c.count = 0 THEN Complete(e, c) ELSE e

\* Mutant: an element function does not look whether it was called before.
CallElementAgain(e, i, how, v) ==
  LET c == AddRemaining([comb EXCEPT !.called = @ \cup {CalledKey(i, how)}, !.values[i] = <<how, v>>], -1)
  IN comb' = c /\ eng' = CompleteIfZero(e, c)

(* js_promise_all_resolve_element: item i has ended.                        *)
CallElement(e, i, how, v) ==
  IF CalledKey(i, how) \in comb.called
  THEN comb' = comb /\ eng' = e
  ELSE LET c == AddRemaining([comb EXCEPT !.called = @ \cup {CalledKey(i, how)}, !.values[i] = <<how, v>>], -1)
       IN comb' = c /\ eng' = CompleteIfZero(e, c)

-----------------------------------------------------------------------------
(* A script calls one of the four with an iterable of these items.          *)
Combine(kind, items) ==
  /\ Does(kind)
  /\ comb = NoCombinator
  /\ Fresh(eng) # {}
  /\ eng' = Create(eng)
  /\ comb' = [kind |-> kind, items |-> items, index |-> 0, count |-> 1, cap |-> Cap(New(eng)),
              values |-> [i \in DOMAIN items |-> None], called |-> {}, hooked |-> {}, failed |-> FALSE]
  /\ stack' = <<[kind |-> "combine"]>> \o stack
  /\ UNCHANGED <<held, log>>

(* One round of the loop.                                                   *)
NextItem ==
  /\ Top("combine")
  /\ comb.index < Len(comb.items)
  /\ LET i == comb.index + 1
         item == comb.items[i]
         c == [(IF comb.kind = "race" THEN comb ELSE AddRemaining(comb, 1)) EXCEPT !.index = i]
     IN IF item = Hook
        THEN /\ comb' = [c EXCEPT !.hooked = @ \cup {i}]
             /\ stack' = <<[kind |-> "hook"]>> \o stack
             /\ UNCHANGED eng
        ELSE /\ item \notin Promise => Fresh(eng) # {}
             /\ eng' = Then(Wrap(eng, item), Wrapped(eng, item), Handlers(i), None)
             /\ comb' = c
             /\ UNCHANGED stack
  /\ UNCHANGED <<held, log, script>>

Leave(n) ==
  /\ stack' = SubSeq(stack, n + 1, Len(stack))
  /\ held' = held \cup {comb.cap.of}

(* The iterable is exhausted: the count loses the one it started with.      *)
EndOfItems ==
  /\ Top("combine")
  /\ comb.index = Len(comb.items)
  /\ IF comb.kind = "race"
     THEN UNCHANGED <<eng, comb>>
     ELSE LET c == AddRemaining(comb, -1) IN comb' = c /\ eng' = CompleteIfZero(eng, c)
  /\ Leave(1)
  /\ UNCHANGED <<log, script>>

Fail(n) ==
  /\ eng' = ResolvingCall(eng, comb.cap, "rejected", Error)
  /\ comb' = [comb EXCEPT !.failed = TRUE]
  /\ Leave(n)
  /\ UNCHANGED <<log, script>>

(* The iterator throws: the result is rejected, the items that were given   *)
(* functions keep them.                                                     *)
IteratorThrows == Top("combine") /\ "iterator" \in DOMAIN script.left /\ Fail(1)

(* The script's own then method returns or throws.                          *)
HookReturns ==
  /\ Top("hook")
  /\ Pop
  /\ UNCHANGED <<eng, held, log, script, comb>>

HookThrows == Top("hook") /\ Fail(2)

(* A script calls a function its then method was given.                     *)
CallHooked(i, how, v) ==
  /\ Does("element")
  /\ i \in comb.hooked
  /\ IF how \in ElementSides(comb.kind)
     THEN CallElement(eng, i, how, v)
     ELSE eng' = ResolvingCall(eng, comb.cap, how, v) /\ comb' = comb
  /\ UNCHANGED <<stack, held, log>>

(* The job of an item that is a promise.                                    *)
RunElement ==
  /\ Reacts("element")
  /\ CallElement(Popped, Job.handler.item, Job.how, Job.arg)
  /\ UNCHANGED <<stack, held, log, script>>

CombinatorItems == (held \cap Promise) \cup script.values \cup {Hook}

CombinatorNext ==
  \/ \E kind \in CombinatorKinds, n \in 0 .. MaxItems : \E items \in [1 .. n -> CombinatorItems] : Combine(kind, items)
  \/ NextItem
  \/ EndOfItems
  \/ IteratorThrows
  \/ HookReturns
  \/ HookThrows
  \/ comb # NoCombinator /\ \E i \in comb.hooked, how \in How, v \in HeldValue : CallHooked(i, how, v)
  \/ RunElement

CombinatorInit == comb = NoCombinator

-----------------------------------------------------------------------------
Item(i) == comb.items[i]
Native(i) == Item(i) # Hook
(* May item i have ended in this way?  Anything that is not a promise is    *)
(* made one by Promise.resolve.                                             *)
Ended(i, how) ==
  /\ Item(i) \in Promise => eng.promise[Item(i)].state = how
  /\ Item(i) = Hook => i \in comb.hooked
  /\ Item(i) \in Plain => how = "fulfilled"
  /\ Item(i) \in Poisoned => how = "rejected"

Result == eng.promise[comb.cap.of]
Items == DOMAIN comb.items
AllNative == \A i \in Items : Native(i)
EnoughSettled ==
  LET settled == {i \in Items : Item(i) \notin Thenable /\ (Item(i) \in Promise => Settled(eng, Item(i)))}
  IN IF comb.kind = "race" THEN settled # {} ELSE settled = Items

(* What a combinator answers is what its items did: all is fulfilled only   *)
(* when every item was and every value is in its place, any is rejected     *)
(* only when every item was, allSettled waits for every item, and a race is *)
(* decided by one of its items; and when no job is left it has answered if  *)
(* enough items have ended.  (An own then method that calls both its        *)
(* functions is counted twice by allSettled, and is left out here.)         *)
ResultFits ==
  /\ comb.kind = "all" =>
       /\ Result.state = "fulfilled" => \A i \in Items : comb.values[i] # None /\ Ended(i, "fulfilled")
       /\ Result.state = "rejected" /\ ~comb.failed => \E i \in Items : Ended(i, "rejected")
  /\ comb.kind = "any" =>
       /\ Result.state = "rejected" /\ ~comb.failed /\ AllNative =>
            \A i \in Items : comb.values[i] # None /\ Ended(i, "rejected")
       /\ Result.state = "fulfilled" => \E i \in Items : Ended(i, "fulfilled")
  /\ comb.kind = "allSettled" /\ AllNative /\ Result.state = "fulfilled" =>
       \A i \in Items : comb.values[i] # None
  /\ comb.kind = "race" /\ ~comb.failed /\ AllNative /\ Result.state # "pending" =>
       \E i \in Items : Ended(i, Result.state)
CombinatorSound ==
  comb # NoCombinator =>
    /\ \A i \in Items : Item(i) \in Promise /\ comb.values[i] # None => comb.values[i] = Outcome(eng, Item(i))
    /\ ResultFits
    /\ Quiescent /\ AllNative /\ EnoughSettled => Result.state # "pending"

=============================================================================
