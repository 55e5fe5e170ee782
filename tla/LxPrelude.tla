----------------------------- MODULE LxPrelude ------------------------------
(***************************************************************************)
(* The asynchronous half of src/js/lx_prelude.js: lx.request, which turns  *)
(* a fetch into a call of a callback, and lx._dispatch, which answers the  *)
(* Go side with what an event handler returned; over the queue of promise  *)
(* jobs of the engine.                                                     *)
(*                                                                         *)
(* All of it runs on one thread.  A chain of promises is represented by    *)
(* the job it waits for and by its outcome so far: every reaction whose    *)
(* promise settles is queued (quickjs.c, fulfill_or_reject_promise), jobs  *)
(* run in order, each to its end, and settle the next promise.  Between    *)
(* jobs the event loop runs other scripts, and a callback is itself a      *)
(* script: both may start requests, cancel them, and settle the promises   *)
(* handlers have returned.  A request without a callback shows nothing.    *)
(***************************************************************************)
EXTENDS Integers, Sequences

CONSTANTS
  Request,     \* the calls of lx.request
  Dispatch     \* the ids given to lx._dispatch

VARIABLES
  jobs,        \* the engine's queue of <<kind, request or dispatch>>
  pc,          \* <<kind, r>> while that job of r runs the callback, or << >>
  fetch,       \* fetch[r]: the promise of fetch(url, fetchOptions)
  chain,       \* chain[r]: the outcome that travels down the chain of r
  aborted,     \* aborted[r]
  calls,       \* calls[r]: what the callback was called with, in order
  threw,       \* threw[r]: the callback threw when given the response
  handler,     \* handler[d]: what the handler of d returned, or became
  replies,     \* replies[d]: what was sent for d, in order
  lost         \* the dispatches whose error could not be made a string

reqVars  == <<pc, fetch, chain, aborted, calls, threw>>
dispVars == <<handler, replies, lost>>
vars     == <<jobs, reqVars, dispVars>>

RequestJob  == {"respond", "body", "adopt", "adopted", "catch"}
DispatchJob == {"settled", "after"}

TypeOK ==
  /\ jobs \in Seq((RequestJob \X Request) \cup (DispatchJob \X Dispatch))
  /\ pc \in {<< >>} \cup ({"body", "catch"} \X Request)
  /\ fetch \in [Request -> {"none", "pending", "response", "error"}]
  /\ chain \in [Request -> {"fulfilled", "rejected"}]
  /\ aborted \in [Request -> BOOLEAN]
  /\ calls \in [Request -> Seq({"response", "error"})]
  /\ threw \in [Request -> BOOLEAN]
  /\ handler \in [Dispatch -> {"none", "missing", "thrown", "value", "promise",
                               "thenable", "fulfilled", "rejected", "called"}]
  /\ replies \in [Dispatch -> Seq({"result", "error"})]
  /\ lost \subseteq Dispatch

Init ==
  /\ jobs    = << >>
  /\ pc      = << >>
  /\ fetch   = [r \in Request |-> "none"]
  /\ chain   = [r \in Request |-> "fulfilled"]
  /\ aborted = [r \in Request |-> FALSE]
  /\ calls   = [r \in Request |-> << >>]
  /\ threw   = [r \in Request |-> FALSE]
  /\ handler = [d \in Dispatch |-> "none"]
  /\ replies = [d \in Dispatch |-> << >>]
  /\ lost    = {}

\* JS_EnqueueJob.
Enqueue(job) == jobs' = Append(jobs, job)

\* JS_ExecutePendingJob, called by the event loop: the first job is taken off
\* and run; it queues what follows from it.
NextJob(kind, x, more) ==
  /\ pc = << >>
  /\ jobs # << >> /\ Head(jobs) = <<kind, x>>
  /\ jobs' = Tail(jobs) \o more
-----------------------------------------------------------------------------
(* lx.request.  A definition marked "mutant" is the code with a likely     *)
(* slip, kept to show which property notices it; the specification uses    *)
(* none of them.                                                           *)

CallRequest(r) ==
  /\ fetch[r] = "none"
  /\ fetch' = [fetch EXCEPT ![r] = "pending"]
  /\ UNCHANGED <<jobs, pc, chain, aborted, calls, threw, dispVars>>

\* The function lx.request returned.
Cancel(r) ==
  /\ fetch[r] # "none" /\ ~aborted[r]
  /\ aborted' = [aborted EXCEPT ![r] = TRUE]
  /\ UNCHANGED <<jobs, pc, fetch, chain, calls, threw, dispVars>>

\* FetchManager.ProcessPending settles the promise of fetch.
FetchSettles(r, outcome) ==
  /\ pc = << >>
  /\ fetch[r] = "pending"
  /\ fetch' = [fetch EXCEPT ![r] = outcome]
  /\ Enqueue(<<"respond", r>>)
  /\ UNCHANGED <<pc, chain, aborted, calls, threw, dispVars>>

RespondDropsError(r) ==              \* mutant: a then without a catch
  /\ \/ /\ fetch[r] = "response" /\ ~aborted[r]
        /\ NextJob("respond", r, << <<"body", r>>, <<"adopt", r>> >>)
     \/ /\ fetch[r] = "error" \/ aborted[r]
        /\ NextJob("respond", r, << >>)
  /\ UNCHANGED <<reqVars, dispVars>>

\* The first then.  An error passes through to the catch; a response gives a
\* second promise, whose reaction is queued at once because text() returns a
\* settled one, and which the outer promise is then made to follow.
Respond(r) ==
  /\ \/ /\ fetch[r] = "response" /\ ~aborted[r]
        /\ NextJob("respond", r, << <<"body", r>>, <<"adopt", r>> >>)
        /\ UNCHANGED chain
     \/ /\ fetch[r] = "response" /\ aborted[r]
        /\ NextJob("respond", r, << <<"catch", r>> >>)
        /\ UNCHANGED chain
     \/ /\ fetch[r] = "error"
        /\ NextJob("respond", r, << <<"catch", r>> >>)
        /\ chain' = [chain EXCEPT ![r] = "rejected"]
  /\ UNCHANGED <<pc, fetch, aborted, calls, threw, dispVars>>

BodyUnchecked(r) ==                  \* mutant: without the second check of aborted
  /\ NextJob("body", r, << >>)
  /\ pc' = <<"body", r>>
  /\ calls' = [calls EXCEPT ![r] = Append(@, "response")]
  /\ UNCHANGED <<fetch, chain, aborted, threw, dispVars>>

\* The inner then: the callback starts.
Body(r) ==
  /\ NextJob("body", r, << >>)
  /\ IF aborted[r]
     THEN UNCHANGED <<pc, calls>>
     ELSE /\ pc' = <<"body", r>>
          /\ calls' = [calls EXCEPT ![r] = Append(@, "response")]
  /\ UNCHANGED <<fetch, chain, aborted, threw, dispVars>>

\* The callback returns or throws.  What it throws rejects the inner promise
\* of the chain, or is the end of it after the catch.
CallbackEnds(r, throws) ==
  /\ \/ /\ pc = <<"body", r>>
        /\ threw' = [threw EXCEPT ![r] = throws]
        /\ chain' = [chain EXCEPT ![r] = IF throws THEN "rejected" ELSE @]
     \/ /\ pc = <<"catch", r>>
        /\ UNCHANGED <<threw, chain>>
  /\ pc' = << >>
  /\ UNCHANGED <<jobs, fetch, aborted, calls, dispVars>>

\* The outer promise calls then of the inner one, which has settled.
Adopt(r) ==
  /\ NextJob("adopt", r, << <<"adopted", r>> >>)
  /\ UNCHANGED <<reqVars, dispVars>>

AdoptedTwice(r) ==                   \* mutant: queues the reaction twice
  /\ NextJob("adopted", r, << <<"catch", r>>, <<"catch", r>> >>)
  /\ UNCHANGED <<reqVars, dispVars>>

\* The inner promise's reaction settles the outer one.
Adopted(r) ==
  /\ NextJob("adopted", r, << <<"catch", r>> >>)
  /\ UNCHANGED <<reqVars, dispVars>>

CatchAlways(r) ==                    \* mutant: as a finally
  /\ NextJob("catch", r, << >>)
  /\ IF ~aborted[r]
     THEN /\ pc' = <<"catch", r>>
          /\ calls' = [calls EXCEPT ![r] = Append(@, "error")]
     ELSE UNCHANGED <<pc, calls>>
  /\ UNCHANGED <<fetch, chain, aborted, threw, dispVars>>

\* The catch.  An error that comes from the callback need not convert to a
\* string; then the callback is not called.
Catch(r) ==
  /\ NextJob("catch", r, << >>)
  /\ \/ /\ chain[r] = "rejected" /\ ~aborted[r]
        /\ pc' = <<"catch", r>>
        /\ calls' = [calls EXCEPT ![r] = Append(@, "error")]
     \/ /\ chain[r] = "fulfilled" \/ aborted[r] \/ threw[r]
        /\ UNCHANGED <<pc, calls>>
  /\ UNCHANGED <<fetch, chain, aborted, threw, dispVars>>
-----------------------------------------------------------------------------
(* lx._dispatch.                                                           *)

Send(d, reply) == replies' = [replies EXCEPT ![d] = Append(@, reply)]

\* A dispatch's error handler: the answer, unless converting the error throws.
SendError(d) ==
  \/ Send(d, "error") /\ UNCHANGED lost
  \/ lost' = lost \cup {d} /\ UNCHANGED replies

\* No handler is registered, or it throws, or it returns something that is
\* not thenable, which JSON.stringify may refuse: all are answered at once.
DispatchAtOnce(d) ==
  /\ handler[d] = "none"
  /\ \/ /\ handler' = [handler EXCEPT ![d] = "missing"]
        /\ Send(d, "error") /\ UNCHANGED lost
     \/ /\ handler' = [handler EXCEPT ![d] = "thrown"]
        /\ SendError(d)
     \/ /\ handler' = [handler EXCEPT ![d] = "value"]
        /\ Send(d, "result") /\ UNCHANGED lost
  /\ UNCHANGED <<jobs, reqVars>>

\* The handler returns a promise of the engine, settled or not.
DispatchPromise(d, outcome) ==
  /\ handler[d] = "none"
  /\ handler' = [handler EXCEPT ![d] = outcome]
  /\ IF outcome = "promise" THEN UNCHANGED jobs ELSE Enqueue(<<"settled", d>>)
  /\ UNCHANGED <<reqVars, replies, lost>>

\* It returns an object whose then keeps the callback, or calls it, and
\* returns nothing: reading catch of that throws a TypeError, which the try
\* answers.
DispatchThenable(d) ==
  /\ handler[d] = "none"
  /\ \/ /\ handler' = [handler EXCEPT ![d] = "thenable"]
        /\ Send(d, "error")
     \/ /\ handler' = [handler EXCEPT ![d] = "called"]
        /\ replies' = [replies EXCEPT ![d] = @ \o <<"result", "error">>]
  /\ UNCHANGED <<jobs, reqVars, lost>>

\* A script settles the promise a handler returned.
HandlerSettles(d, outcome) ==
  /\ handler[d] = "promise"
  /\ handler' = [handler EXCEPT ![d] = outcome]
  /\ Enqueue(<<"settled", d>>)
  /\ UNCHANGED <<reqVars, replies, lost>>

\* A script calls the function it was given by then; a value that
\* JSON.stringify refuses makes it throw.
ThenableCalls(d) ==
  /\ handler[d] = "thenable"
  /\ handler' = [handler EXCEPT ![d] = "called"]
  /\ Send(d, "result") \/ UNCHANGED replies
  /\ UNCHANGED <<jobs, reqVars, lost>>

SettledSendsFirst(d) ==              \* mutant: answers before the conversion may throw
  /\ NextJob("settled", d, << <<"after", d>> >>)
  /\ \/ /\ handler[d] = "fulfilled"
        /\ Send(d, "result")
        /\ handler' \in {handler, [handler EXCEPT ![d] = "rejected"]}
     \/ /\ handler[d] = "rejected"
        /\ UNCHANGED <<handler, replies>>
  /\ UNCHANGED <<reqVars, lost>>

\* The reaction of the handler's promise: the value is sent, or does not
\* convert, which rejects the promise that then returned; an error passes
\* through to it.
Settled(d) ==
  /\ NextJob("settled", d, << <<"after", d>> >>)
  /\ \/ /\ handler[d] = "fulfilled"
        /\ Send(d, "result")
        /\ UNCHANGED handler
     \/ /\ handler' = [handler EXCEPT ![d] = "rejected"]
        /\ UNCHANGED replies
  /\ UNCHANGED <<reqVars, lost>>

AfterSilent(d) ==                    \* mutant: no catch
  /\ NextJob("after", d, << >>)
  /\ UNCHANGED <<reqVars, dispVars>>

After(d) ==
  /\ NextJob("after", d, << >>)
  /\ IF handler[d] = "rejected" THEN SendError(d) ELSE UNCHANGED <<replies, lost>>
  /\ UNCHANGED <<reqVars, handler>>
-----------------------------------------------------------------------------
RequestStep(r) ==
  \/ CallRequest(r)
  \/ Cancel(r)
  \/ \E outcome \in {"response", "error"} : FetchSettles(r, outcome)
  \/ Respond(r)
  \/ Body(r)
  \/ Adopt(r)
  \/ Adopted(r)
  \/ Catch(r)
  \/ \E throws \in BOOLEAN : CallbackEnds(r, throws)

DispatchStep(d) ==
  \/ DispatchAtOnce(d)
  \/ \E outcome \in {"promise", "fulfilled", "rejected"} : DispatchPromise(d, outcome)
  \/ DispatchThenable(d)
  \/ \E outcome \in {"fulfilled", "rejected"} : HandlerSettles(d, outcome)
  \/ ThenableCalls(d)
  \/ Settled(d)
  \/ After(d)

\* Nothing to run: the event loop waits.
Idle ==
  /\ pc = << >> /\ jobs = << >>
  /\ UNCHANGED vars

Next ==
  \/ Idle
  \/ \E r \in Request : RequestStep(r)
  \/ \E d \in Dispatch : DispatchStep(d)

RunJob ==
  \/ \E r \in Request : Respond(r) \/ Body(r) \/ Adopt(r) \/ Adopted(r) \/ Catch(r)
  \/ \E d \in Dispatch : Settled(d) \/ After(d)

\* The loop runs the jobs there are, every fetch ends and every callback does.
Fairness ==
  /\ WF_vars(RunJob)
  /\ \A r \in Request :
       /\ WF_vars(\E outcome \in {"response", "error"} : FetchSettles(r, outcome))
       /\ WF_vars(\E throws \in BOOLEAN : CallbackEnds(r, throws))

Spec == Init /\ [][Next]_vars /\ Fairness
-----------------------------------------------------------------------------
(* Properties.                                                             *)

\* The callback of a request is called with the response at most once and
\* with an error at most once, for what really happened; it is called twice
\* only when it threw the first time, and then with its own error
\* (lx_prelude.js:130-160).
CallbackDiscipline ==
  \A r \in Request :
    /\ calls[r] \in {<< >>, <<"response">>, <<"error">>, <<"response", "error">>}
    /\ calls[r] = <<"error">> => fetch[r] = "error"
    /\ calls[r] = <<"response">> => fetch[r] = "response"
    /\ calls[r] = <<"response", "error">> => fetch[r] = "response" /\ threw[r]

\* Once cancelled, between its jobs or from its own callback, a request
\* calls nobody any more (lx_prelude.js:131, 133, 155).
CancelledIsSilent ==
  [][\A r \in Request : aborted[r] => UNCHANGED calls[r]]_vars

\* Except for thenables that are not promises, a dispatch is answered at most
\* once, with a result exactly when its handler came to one that converts;
\* no answer is sent for an error that does not (lx_prelude.js:188-239).
AnswersFit ==
  \A d \in Dispatch :
    \/ handler[d] \in {"thenable", "called"}
    \/ /\ replies[d] \in {<< >>, <<"result">>, <<"error">>}
       /\ replies[d] = <<"result">> => handler[d] \in {"value", "fulfilled"}
       /\ replies[d] = <<"error">> => handler[d] \in {"missing", "thrown", "rejected"}
       /\ d \in lost => replies[d] = << >>

\* Every request that is not cancelled comes to its callback, through however
\* many jobs of other requests (lx_prelude.js:130).
EveryRequestCalls ==
  \A r \in Request : fetch[r] = "pending" ~> calls[r] # << >> \/ aborted[r]

\* Every promise of a handler that settles is answered, unless its error does
\* not convert (lx_prelude.js:205-220).
EveryPromiseAnswered ==
  \A d \in Dispatch :
    handler[d] \in {"fulfilled", "rejected"} ~> replies[d] # << >> \/ d \in lost

\* One answer for each dispatch, as README.md:110 tells it: when the promise
\* the handler returned resolves or rejects, the result goes back to the
\* caller.  False for a thenable whose then returns nothing.
OneAnswer == \A d \in Dispatch : Len(replies[d]) <= 1
-----------------------------------------------------------------------------
(* The inductive invariant behind the safety properties, in named parts.   *)

Queued == {jobs[i] : i \in DOMAIN jobs}

\* No job is queued twice, and the callback comes before the promise that
\* reports on it is followed.
JobsInOrder ==
  \A i, k \in DOMAIN jobs :
    /\ jobs[i] = jobs[k] => i = k
    /\ \A r \in Request : jobs[i] = <<"body", r>> /\ jobs[k] = <<"adopt", r>> => i < k

\* Nothing has come down the chain of r yet.
Fresh(r) == calls[r] = << >> /\ chain[r] = "fulfilled" /\ ~threw[r]

\* The jobs of a request succeed each other: at most one is queued, the
\* inner then and the adoption excepted, and what has been called fits it.
RequestInPlace(r) ==
  /\ fetch[r] \in {"none", "pending"} => Fresh(r)
  /\ <<"respond", r>> \in Queued =>
       /\ fetch[r] \in {"response", "error"} /\ Fresh(r)
       /\ \A kind \in RequestJob \ {"respond"} : <<kind, r>> \notin Queued
  /\ <<"body", r>> \in Queued =>
       /\ fetch[r] = "response" /\ Fresh(r)
       /\ <<"adopt", r>> \in Queued
  /\ pc = <<"body", r>> =>
       /\ calls[r] = <<"response">> /\ chain[r] = "fulfilled" /\ ~threw[r]
       /\ <<"adopt", r>> \in Queued /\ <<"body", r>> \notin Queued
  /\ <<"adopt", r>> \in Queued =>
       /\ fetch[r] = "response" /\ calls[r] \in {<< >>, <<"response">>}
       /\ <<"adopted", r>> \notin Queued /\ <<"catch", r>> \notin Queued
  /\ <<"adopted", r>> \in Queued =>
       /\ fetch[r] = "response" /\ calls[r] \in {<< >>, <<"response">>}
       /\ <<"catch", r>> \notin Queued
  /\ <<"catch", r>> \in Queued =>
       /\ fetch[r] \in {"response", "error"} /\ calls[r] \in {<< >>, <<"response">>}
  /\ chain[r] = "rejected" => fetch[r] = "error" \/ threw[r]
  /\ threw[r] => calls[r] \in {<<"response">>, <<"response", "error">>}
  /\ pc = <<"catch", r>> => calls[r] \in {<<"error">>, <<"response", "error">>}

\* A dispatch has its jobs in turn and no answer before they are due.
DispatchInPlace(d) ==
  /\ handler[d] \in {"none", "promise"} => replies[d] = << >> /\ d \notin lost
  /\ <<"settled", d>> \in Queued =>
       /\ handler[d] \in {"fulfilled", "rejected"}
       /\ replies[d] = << >> /\ d \notin lost
       /\ <<"after", d>> \notin Queued
  /\ <<"after", d>> \in Queued =>
       /\ handler[d] \in {"fulfilled", "rejected"}
       /\ handler[d] = "rejected" => replies[d] = << >> /\ d \notin lost

\* The queue, every request and every dispatch are in place: the induction
\* hypothesis for CallbackDiscipline and AnswersFit.
IInv ==
  /\ TypeOK
  /\ JobsInOrder
  /\ \A r \in Request : RequestInPlace(r)
  /\ \A d \in Dispatch : DispatchInPlace(d)
  /\ CallbackDiscipline
  /\ AnswersFit
=============================================================================
