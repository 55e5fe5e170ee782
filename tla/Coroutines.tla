----------------------------- MODULE Coroutines -----------------------------
(***************************************************************************)
(* Async functions and async generators: code that native code suspends    *)
(* at an await or a yield and continues from a job.                        *)
(***************************************************************************)
EXTENDS Promises, FiniteSets

CONSTANTS
  Activation,  \* calls of async functions
  Iterated,    \* the iterator result of a yield: done is false
  Done         \* the iterator result of a return: done is true

ASSUME CoroutinesAssumption == Iterated \notin {Done, Error}

VARIABLES
  act,  \* the activations: JSAsyncFunctionData
  gen   \* one async generator: JSAsyncGeneratorData, and history

cvars == <<act, gen>>

(* The handlers are the same on both sides: the job knows which it is.      *)
Continue(fn, of) == [how \in How |-> [fn |-> fn, of |-> of]]

(* js_promise_resolve, then perform_promise_then without a capability.      *)
AwaitOn(e, v, on) == Then(Wrap(e, v), Wrapped(e, v), on, None)
CanAwait(v) == v \in Promise \/ Fresh(eng) # {}

-----------------------------------------------------------------------------
(* Async functions.                                                         *)

Body(a, got) == [kind |-> "async", of |-> a, got |-> got]
Me == Head(stack).of

(* The caller gets the promise when the body is first suspended or ends.    *)
LeaveBody == Pop /\ held' = held \cup {act[Me].cap.of}

CallAsync(a) ==
  /\ Does("async")
  /\ act[a].state = "none"
  /\ Fresh(eng) # {}
  /\ eng' = Create(eng)
  /\ act' = [act EXCEPT ![a] = [state |-> "running", cap |-> Cap(New(eng)), on |-> None]]
  /\ stack' = <<Body(a, None)>> \o stack
  /\ UNCHANGED <<held, log, gen>>

Await(v) ==
  /\ Top("async")
  /\ Does("await")
  /\ CanAwait(v)
  /\ eng' = AwaitOn(eng, v, Continue("resume", Me))
  /\ act' = [act EXCEPT ![Me].state = "awaiting", ![Me].on = Wrapped(eng, v)]
  /\ LeaveBody
  /\ UNCHANGED <<log, gen>>

(* The body returns or throws v.                                            *)
BodyEnds(how, v) ==
  /\ Top("async")
  /\ eng' = ResolvingCall(eng, act[Me].cap, how, v)
  /\ act' = [act EXCEPT ![Me].state = "done"]
  /\ LeaveBody
  /\ UNCHANGED <<log, script, gen>>

(* await of a promise whose constructor getter throws: the call ends at     *)
(* once, whatever handlers its body has.                                    *)
AwaitFails ==
  /\ Top("async")
  /\ Does("await")
  /\ held \cap Promise # {}
  /\ eng' = ResolvingCall(eng, act[Me].cap, "rejected", Error)
  /\ act' = [act EXCEPT ![Me].state = "done"]
  /\ LeaveBody
  /\ UNCHANGED <<log, gen>>

(* js_async_function_resolve_call: the awaited promise has settled.         *)
RunResume ==
  /\ Reacts("resume")
  /\ eng' = Popped
  /\ stack' = <<Body(Job.handler.of, <<Job.how, Job.arg>>)>>
  /\ act' = [act EXCEPT ![Job.handler.of].state = "running"]
  /\ UNCHANGED <<held, log, script, gen>>

-----------------------------------------------------------------------------
(* Async generators.  js_async_generator_resume_next is a loop: each of its *)
(* rounds is a step, with the frame "resumeNext" on the stack; the promise  *)
(* that next, return or throw gives back is in the frame until it leaves.   *)

Head1 == Head(gen.queue)
ResumeNext(p) == [kind |-> "resumeNext", gives |-> p]
GeneratorBody == [kind |-> "generator"]

(* js_async_generator_resolve_or_reject: the first request is answered.     *)
Answer(e, how, v) == ResolvingCall(e, Head1.pair, how, v)
Answered(state, v) ==
  [gen EXCEPT !.state = state, !.queue = Tail(@), !.answers = Append(@, <<Head1.pair, v>>)]

Given(frame) == IF frame.gives = None THEN {} ELSE {frame.gives}
LeaveLoop(n) ==
  /\ stack' = SubSeq(stack, n + 1, Len(stack))
  /\ held' = held \cup Given(stack[n])

\* Mutant: the loop is entered also while the body runs or awaits.
EnterLoopAlways == TRUE
EnterLoop == gen.state # "executing"

(* g.next(v), g.return(v), g.throw(v).                                      *)
CallGenerator(type, v) ==
  /\ Does(type)
  /\ Fresh(eng) # {}
  /\ eng' = Create(eng)
  /\ gen' = [gen EXCEPT !.queue = Append(@, [type |-> type, value |-> v, pair |-> Cap(New(eng))]),
                        !.asked = Append(@, Cap(New(eng)))]
  /\ IF EnterLoop
     THEN stack' = <<ResumeNext(New(eng))>> \o stack /\ held' = held
     ELSE stack' = stack /\ held' = held \cup {New(eng)}
  /\ UNCHANGED <<log, act>>

Looping(state) == Top("resumeNext") /\ gen.queue # <<>> /\ gen.state = state

NoRequest ==
  /\ Top("resumeNext")
  /\ gen.queue = <<>> \/ gen.state = "awaitingReturn"
  /\ LeaveLoop(1)
  /\ UNCHANGED <<eng, log, script, act, gen>>

(* The body starts, or continues after a yield or an await.                 *)
EnterBody ==
  /\ \/ Looping("suspendedStart") /\ Head1.type = "next"
     \/ Looping("suspendedYield")
     \/ Looping("executing")
  /\ gen' = [gen EXCEPT !.state = "executing"]
  /\ stack' = <<GeneratorBody>> \o stack
  /\ UNCHANGED <<eng, held, log, script, act>>

NeverStarted ==
  /\ Looping("suspendedStart")
  /\ Head1.type # "next"
  /\ gen' = [gen EXCEPT !.state = "completed"]
  /\ UNCHANGED <<eng, stack, held, log, script, act>>

(* A request to a generator that has ended; the loop is left after one.     *)
AnswerCompleted ==
  /\ Looping("completed")
  /\ \/ /\ Head1.type = "next"
        /\ eng' = Answer(eng, "fulfilled", Done)
        /\ gen' = Answered("completed", Done)
     \/ /\ Head1.type = "throw"
        /\ eng' = Answer(eng, "rejected", Head1.value)
        /\ gen' = Answered("completed", Error)
     \/ /\ Head1.type = "return"
        /\ CanAwait(Head1.value)
        /\ eng' = AwaitOn(eng, Head1.value, Continue("returned", None))
        /\ gen' = [gen EXCEPT !.state = "awaitingReturn"]
  /\ LeaveLoop(1)
  /\ UNCHANGED <<log, script, act>>

(* The body of the generator.                                               *)
Yield ==
  /\ Top("generator")
  /\ Does("yield")
  /\ eng' = Answer(eng, "fulfilled", Iterated)
  /\ gen' = Answered("suspendedYield", Iterated)
  /\ Pop
  /\ UNCHANGED <<held, log, act>>

GeneratorAwaits(v) ==
  /\ Top("generator")
  /\ Does("await")
  /\ CanAwait(v)
  /\ eng' = AwaitOn(eng, v, Continue("continue", None))
  /\ LeaveLoop(2)
  /\ UNCHANGED <<log, act, gen>>

\* Mutant: js_async_generator_complete is forgotten, and the body can be entered again.
GeneratorEndsOpen(how, v) ==
  /\ Top("generator")
  /\ eng' = Answer(eng, how, IF how = "fulfilled" THEN Done ELSE v)
  /\ gen' = Answered("suspendedYield", IF how = "fulfilled" THEN Done ELSE Error)
  /\ Pop
  /\ UNCHANGED <<held, log, script, act>>

GeneratorEnds(how, v) ==
  /\ Top("generator")
  /\ eng' = Answer(eng, how, IF how = "fulfilled" THEN Done ELSE v)
  /\ gen' = Answered("completed", IF how = "fulfilled" THEN Done ELSE Error)
  /\ Pop
  /\ UNCHANGED <<held, log, script, act>>

(* js_async_generator_resolve_function, after an await of the body.         *)
RunContinue ==
  /\ Reacts("continue")
  /\ eng' = Popped
  /\ stack' = IF gen.state = "executing" THEN <<ResumeNext(None)>> ELSE stack
  /\ UNCHANGED <<held, log, script, act, gen>>

(* The same function, after the await of a return request.                  *)
RunReturned ==
  /\ Reacts("returned")
  /\ eng' = Answer(Popped, Job.how, IF Job.how = "fulfilled" THEN Done ELSE Job.arg)
  /\ gen' = Answered("completed", IF Job.how = "fulfilled" THEN Done ELSE Error)
  /\ UNCHANGED <<stack, held, log, script, act>>

-----------------------------------------------------------------------------
CoroutinesInit ==
  /\ act = [a \in Activation |-> [state |-> "none", cap |-> None, on |-> None]]
  /\ gen = [state |-> "suspendedStart", queue |-> <<>>, asked |-> <<>>, answers |-> <<>>]

CoroutinesNext ==
  \/ \E a \in Activation : CallAsync(a)
  \/ AwaitFails \/ RunResume
  \/ \E v \in HeldValue :
       \/ Await(v) \/ GeneratorAwaits(v)
       \/ \E how \in How : BodyEnds(how, v) \/ GeneratorEnds(how, v)
       \/ \E type \in {"next", "return", "throw"} : CallGenerator(type, v)
  \/ NoRequest \/ EnterBody \/ NeverStarted \/ AnswerCompleted \/ Yield
  \/ RunContinue \/ RunReturned

-----------------------------------------------------------------------------
Is(handler, fn, of) == handler.fn = fn /\ handler.of = of
(* The jobs and the reactions that will call this handler.                  *)
Continuations(fn, of) ==
  (UNION {{<<p, i>> : i \in {j \in DOMAIN eng.promise[p].reactions :
                             Is(eng.promise[p].reactions[j].on["fulfilled"], fn, of)}} : p \in Promise})
  \cup {i \in DOMAIN eng.jobs : eng.jobs[i].kind = "reaction" /\ Is(eng.jobs[i].handler, fn, of)}
Frames(kind) == {i \in DOMAIN stack : stack[i].kind = kind}

(* Suspended code is continued exactly once: an awaiting call has one       *)
(* reaction or job that resumes it, with the outcome of what it awaits; a   *)
(* running one has one frame; the promise of a call that ended is resolved. *)
(* So it is for the body of a generator, and for its return requests.       *)
OneContinuation ==
  /\ \A a \in Activation :
       /\ Cardinality(Continuations("resume", a)) = IF act[a].state = "awaiting" THEN 1 ELSE 0
       /\ Cardinality({i \in Frames("async") : stack[i].of = a}) = IF act[a].state = "running" THEN 1 ELSE 0
       /\ act[a].cap # None => (act[a].state = "done" <=> act[a].cap \in eng.resolved)
  /\ \A i \in Frames("async") : stack[i].got # None => stack[i].got = Outcome(eng, act[stack[i].of].on)
  /\ LET bodies == Cardinality(Frames("generator"))
         awaits == Cardinality(Continuations("continue", None))
         loops == Cardinality(Frames("resumeNext"))
     IN IF gen.state = "executing"
        THEN gen.queue # <<>> /\ bodies <= 1 /\ (IF awaits = 0 THEN loops >= 1 ELSE awaits = 1 /\ bodies = 0)
        ELSE awaits = 0 /\ bodies = 0
  /\ Cardinality(Continuations("returned", None)) = IF gen.state = "awaitingReturn" THEN 1 ELSE 0

(* Requests are answered in the order they were made, each once; a queued   *)
(* one is unanswered; after done, or an exception, nothing more is          *)
(* iterated.                                                                *)
GeneratorServes ==
  /\ gen.asked = [i \in DOMAIN gen.answers |-> gen.answers[i][1]] \o [i \in DOMAIN gen.queue |-> gen.queue[i].pair]
  /\ \A i \in DOMAIN gen.queue : gen.queue[i].pair \notin eng.resolved
  /\ \A i \in DOMAIN gen.answers : gen.answers[i][1] \in eng.resolved
  /\ \A i \in DOMAIN gen.answers : \A j \in 1 .. i - 1 :
       gen.answers[i][2] = Iterated => gen.answers[j][2] = Iterated
  /\ gen.state = "awaitingReturn" => gen.queue # <<>> /\ Head1.type = "return"

(* README.md promises ES2023, whose AsyncGeneratorDrainQueue answers every  *)
(* request of a generator that has ended.  The loop of this engine leaves   *)
(* after one, and the end of a return request does not enter it.            *)
RequestsAnswered == Quiescent /\ gen.state = "completed" => gen.queue = <<>>

=============================================================================
