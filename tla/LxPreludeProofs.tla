-------------------------- MODULE LxPreludeProofs ---------------------------
(***************************************************************************)
(* Proofs about LxPrelude, for any number of requests and dispatches: the  *)
(* callback of a request and the answers to a dispatch are what they       *)
(* should be, and a cancelled request is silent.                           *)
(***************************************************************************)
EXTENDS LxPrelude, TLAPS

Job == (RequestJob \X Request) \cup (DispatchJob \X Dispatch)

Members(q) == {q[i] : i \in DOMAIN q}

Ordered(q) ==
  \A i, k \in DOMAIN q :
    /\ q[i] = q[k] => i = k
    /\ \A r \in Request : q[i] = <<"body", r>> /\ q[k] = <<"adopt", r>> => i < k

-----------------------------------------------------------------------------
(* The queue, as the set of what is in it.                                 *)

LEMMA OrderedMembers ==
  /\ Queued = Members(jobs) /\ (JobsInOrder <=> Ordered(jobs))
  /\ Queued' = Members(jobs') /\ (JobsInOrder' <=> Ordered(jobs'))
BY DEF Queued, Members, JobsInOrder, Ordered

LEMMA QueueAppend ==
  ASSUME NEW q \in Seq(Job), Ordered(q), NEW job \in Job, job \notin Members(q),
         \A r \in Request : job = <<"body", r>> => <<"adopt", r>> \notin Members(q)
  PROVE  /\ Append(q, job) \in Seq(Job) /\ Ordered(Append(q, job))
         /\ Members(Append(q, job)) = Members(q) \cup {job}
<1> DEFINE p == Append(q, job)
<1>1. /\ p \in Seq(Job) /\ Len(p) = Len(q) + 1
      /\ \A i \in 1..Len(q) : p[i] = q[i]
      /\ p[Len(q) + 1] = job
  OBVIOUS
<1>2. DOMAIN q = 1..Len(q) /\ DOMAIN p = 1..Len(q) + 1
  BY <1>1
<1> HIDE DEF p
<1>3. Members(p) = Members(q) \cup {job}
  BY <1>1, <1>2 DEF Members
<1>4. ASSUME NEW i \in 1..Len(q) + 1, NEW k \in 1..Len(q) + 1
      PROVE  /\ p[i] = p[k] => i = k
             /\ \A r \in Request : p[i] = <<"body", r>> /\ p[k] = <<"adopt", r>> => i < k
  <2>1. CASE i \in 1..Len(q) /\ k \in 1..Len(q)
    BY <2>1, <1>1, <1>2 DEF Ordered
  <2>2. CASE i \in 1..Len(q) /\ k = Len(q) + 1
    BY <2>2, <1>1, <1>2 DEF Members
  <2>3. CASE i = Len(q) + 1 /\ k \in 1..Len(q)
    BY <2>3, <1>1, <1>2 DEF Members
  <2>4. CASE i = Len(q) + 1 /\ k = Len(q) + 1
    BY <2>4, <1>1
  <2> QED
    BY <1>1, <2>1, <2>2, <2>3, <2>4
<1>5. Ordered(p)
  BY <1>2, <1>4 DEF Ordered
<1> QED
  BY <1>1, <1>3, <1>5 DEF p

LEMMA AppendTwo ==
  ASSUME NEW S, NEW q \in Seq(S), NEW a \in S, NEW b \in S
  PROVE  q \o <<a, b>> = Append(Append(q, a), b)
OBVIOUS

LEMMA QueueTail ==
  ASSUME NEW q \in Seq(Job), Ordered(q), q # << >>
  PROVE  /\ Tail(q) \in Seq(Job) /\ Ordered(Tail(q))
         /\ Members(Tail(q)) = Members(q) \ {Head(q)} /\ Head(q) \in Members(q)
         /\ \A r \in Request :
              <<"body", r>> \in Members(q) => Head(q) # <<"adopt", r>>
<1> DEFINE t == Tail(q)
<1>1. /\ t \in Seq(Job) /\ Len(t) = Len(q) - 1
      /\ \A i \in 1..(Len(q) - 1) : t[i] = q[i + 1]
      /\ Head(q) = q[1] /\ Len(q) >= 1
  OBVIOUS
<1>2. DOMAIN q = 1..Len(q) /\ DOMAIN t = 1..(Len(q) - 1)
  BY <1>1
<1> HIDE DEF t
<1>3. Ordered(t)
  BY <1>1, <1>2, SMTT(30) DEF Ordered
<1>4. ASSUME NEW x \in Members(q), x # Head(q) PROVE x \in Members(t)
  <2>1. PICK i \in 1..Len(q) : x = q[i]
    BY <1>2 DEF Members
  <2>2. i - 1 \in 1..(Len(q) - 1) /\ t[i - 1] = x
    BY <2>1, <1>1, <1>4
  <2> QED
    BY <2>2, <1>2 DEF Members
<1>5. \A x \in Members(t) : x \in Members(q) /\ x # Head(q)
  BY <1>1, <1>2 DEF Members, Ordered
<1>6. /\ Head(q) \in Members(q)
      /\ \A r \in Request : <<"body", r>> \in Members(q) => Head(q) # <<"adopt", r>>
  BY <1>1, <1>2 DEF Members, Ordered
<1> QED
  BY <1>1, <1>3, <1>4, <1>5, <1>6 DEF t

LEMMA NextHead ==
  ASSUME IInv, NEW kind, NEW x, NEW more, NextJob(kind, x, more)
  PROVE  <<kind, x>> \in Queued /\ pc = << >>
<1>1. jobs \in Seq(Job) /\ Ordered(jobs)
  BY OrderedMembers DEF IInv, TypeOK, Job
<1> QED
  BY <1>1, QueueTail, OrderedMembers DEF NextJob

\* A job that queues nothing.
LEMMA NextNone ==
  ASSUME IInv, NEW kind, NEW x, NextJob(kind, x, << >>)
  PROVE  /\ jobs' \in Seq(Job) /\ JobsInOrder'
         /\ <<kind, x>> \in Queued /\ Queued' = Queued \ {<<kind, x>>}
<1>1. jobs \in Seq(Job) /\ Ordered(jobs)
  BY OrderedMembers DEF IInv, TypeOK, Job
<1>2. jobs' = Tail(jobs) /\ jobs # << >> /\ Head(jobs) = <<kind, x>>
  BY <1>1, QueueTail DEF NextJob
<1> QED
  BY <1>1, <1>2, QueueTail, OrderedMembers

\* A job that queues one.
LEMMA NextOne ==
  ASSUME IInv, NEW kind, NEW x, NEW job \in Job, NextJob(kind, x, <<job>>),
         job \notin Queued, \A r \in Request : job # <<"body", r>>
  PROVE  /\ jobs' \in Seq(Job) /\ JobsInOrder'
         /\ <<kind, x>> \in Queued /\ Queued' = (Queued \ {<<kind, x>>}) \cup {job}
         /\ \A r \in Request : <<"body", r>> \in Queued => <<kind, x>> # <<"adopt", r>>
<1>1. jobs \in Seq(Job) /\ Ordered(jobs)
  BY OrderedMembers DEF IInv, TypeOK, Job
<1>2. jobs # << >> /\ Head(jobs) = <<kind, x>> /\ jobs' = Tail(jobs) \o <<job>>
  BY DEF NextJob
<1>3. Tail(jobs) \in Seq(Job)
  BY <1>1, <1>2, QueueTail
<1>4. jobs' = Append(Tail(jobs), job)
  BY <1>2, <1>3
<1> DEFINE t == Tail(jobs)
<1>5. /\ t \in Seq(Job) /\ Ordered(t)
      /\ Members(t) = Queued \ {<<kind, x>>} /\ <<kind, x>> \in Queued
      /\ \A r \in Request : <<"body", r>> \in Queued => <<kind, x>> # <<"adopt", r>>
  BY <1>1, <1>2, QueueTail, OrderedMembers
<1> HIDE DEF t
<1>6. Append(t, job) \in Seq(Job) /\ Ordered(Append(t, job))
      /\ Members(Append(t, job)) = Members(t) \cup {job}
  BY <1>5, QueueAppend
<1>7. jobs' = Append(t, job)
  BY <1>4 DEF t
<1> QED
  BY <1>5, <1>6, <1>7, OrderedMembers

\* The first then on a response queues two.
LEMMA NextTwo ==
  ASSUME IInv, NEW r \in Request,
         NextJob("respond", r, << <<"body", r>>, <<"adopt", r>> >>),
         <<"body", r>> \notin Queued, <<"adopt", r>> \notin Queued
  PROVE  /\ jobs' \in Seq(Job) /\ JobsInOrder'
         /\ <<"respond", r>> \in Queued
         /\ Queued' = (Queued \ {<<"respond", r>>}) \cup {<<"body", r>>, <<"adopt", r>>}
<1>1. jobs \in Seq(Job) /\ Ordered(jobs)
  BY OrderedMembers DEF IInv, TypeOK, Job
<1>2. /\ jobs # << >> /\ Head(jobs) = <<"respond", r>>
      /\ jobs' = Tail(jobs) \o << <<"body", r>>, <<"adopt", r>> >>
  BY DEF NextJob
<1> DEFINE t == Tail(jobs)
           u == Append(t, <<"body", r>>)
<1>3. /\ t \in Seq(Job) /\ Ordered(t)
      /\ Members(t) = Queued \ {<<"respond", r>>} /\ <<"respond", r>> \in Queued
  BY <1>1, <1>2, QueueTail, OrderedMembers
<1>4. <<"body", r>> \in Job /\ <<"adopt", r>> \in Job
  BY DEF Job, RequestJob
<1>5. jobs' = Append(u, <<"adopt", r>>)
  <2> HIDE DEF t
  <2>1. t \o << <<"body", r>>, <<"adopt", r>> >> = Append(u, <<"adopt", r>>)
    BY <1>3, <1>4, AppendTwo, SMTT(30)
  <2> QED
    BY <2>1, <1>2 DEF t
<1>6. u \in Seq(Job) /\ Ordered(u) /\ Members(u) = Members(t) \cup {<<"body", r>>}
  BY <1>3, <1>4, QueueAppend
<1> HIDE DEF t, u
<1>7. <<"adopt", r>> \notin Members(u) /\ \A s \in Request : <<"adopt", r>> # <<"body", s>>
  BY <1>3, <1>6
<1>8. /\ jobs' \in Seq(Job) /\ Ordered(jobs')
      /\ Members(jobs') = Members(u) \cup {<<"adopt", r>>}
  BY <1>4, <1>5, <1>6, <1>7, QueueAppend
<1> QED
  BY <1>3, <1>6, <1>8, OrderedMembers

\* A job queued by a promise that settles.
LEMMA EnqueueOne ==
  ASSUME IInv, NEW job \in Job, Enqueue(job),
         job \notin Queued, \A r \in Request : job # <<"body", r>>
  PROVE  jobs' \in Seq(Job) /\ JobsInOrder' /\ Queued' = Queued \cup {job}
<1>1. jobs \in Seq(Job) /\ Ordered(jobs)
  BY OrderedMembers DEF IInv, TypeOK, Job
<1> QED
  BY <1>1, QueueAppend, OrderedMembers DEF Enqueue

LEMMA QueueSame ==
  ASSUME IInv, UNCHANGED jobs
  PROVE  jobs' \in Seq(Job) /\ JobsInOrder' /\ Queued' = Queued
BY OrderedMembers DEF IInv, TypeOK, Job
-----------------------------------------------------------------------------
(* The invariant.                                                          *)

\* The few lists that calls and replies may be.
LEMMA Lists ==
  /\ \A x : Append(<< >>, x) = <<x>>
  /\ Append(<<"response">>, "error") = <<"response", "error">>
  /\ {<< >>, <<"response">>, <<"error">>, <<"response", "error">>}
       \subseteq Seq({"response", "error"})
  /\ {<< >>, <<"result">>, <<"error">>, <<"result", "error">>} \subseteq Seq({"result", "error"})
  /\ \A x, y : << >> # <<x>> /\ << >> # <<x, y>> /\ <<x>> # <<x, y>>
  /\ <<"response">> # <<"error">> /\ <<"result">> # <<"error">>
<1>1. \A x : Append(<< >>, x) = <<x>>
  OBVIOUS
<1>2. Append(<<"response">>, "error") = <<"response", "error">>
  <2>1. << >> \o <<"response", "error">> = Append(Append(<< >>, "response"), "error")
    BY AppendTwo
  <2>2. << >> \o <<"response", "error">> = <<"response", "error">>
    OBVIOUS
  <2> QED
    BY <1>1, <2>1, <2>2
<1>3. {<< >>, <<"response">>, <<"error">>, <<"response", "error">>}
       \subseteq Seq({"response", "error"})
  OBVIOUS
<1>4. {<< >>, <<"result">>, <<"error">>, <<"result", "error">>} \subseteq Seq({"result", "error"})
  OBVIOUS
<1>5. \A x, y : << >> # <<x>> /\ << >> # <<x, y>> /\ <<x>> # <<x, y>>
  OBVIOUS
<1>6. <<"response">> # <<"error">> /\ <<"result">> # <<"error">>
  OBVIOUS
<1> QED
  BY <1>1, <1>2, <1>3, <1>4, <1>5, <1>6

LEMMA InitEstablishes == Init => IInv
<1> SUFFICES ASSUME Init PROVE IInv
  OBVIOUS
<1>1. jobs \in Seq(Job) /\ DOMAIN jobs = {}
  BY DEF Init
<1> QED
  BY <1>1 DEF Init, IInv, TypeOK, Job, JobsInOrder, Queued, RequestInPlace, Fresh,
              DispatchInPlace, CallbackDiscipline, AnswersFit

\* What a step of a request leaves alone, and what one of a dispatch does.
LEMMA DispatchesStay ==
  ASSUME AnswersFit, \A d \in Dispatch : DispatchInPlace(d),
         UNCHANGED <<handler, replies, lost>>,
         \A d \in Dispatch, kind \in DispatchJob :
           <<kind, d>> \in Queued' <=> <<kind, d>> \in Queued
  PROVE  (\A d \in Dispatch : DispatchInPlace(d)') /\ AnswersFit'
BY DEF DispatchInPlace, AnswersFit, DispatchJob

LEMMA RequestsStay ==
  ASSUME CallbackDiscipline, \A r \in Request : RequestInPlace(r),
         UNCHANGED <<pc, fetch, chain, calls, threw>>,
         \A r \in Request, kind \in RequestJob :
           <<kind, r>> \in Queued' <=> <<kind, r>> \in Queued
  PROVE  (\A r \in Request : RequestInPlace(r)') /\ CallbackDiscipline'
BY DEF RequestInPlace, Fresh, CallbackDiscipline, RequestJob

\* What a step of one request leaves alone.
LEMMA OtherRequest ==
  ASSUME NEW s \in Request, RequestInPlace(s),
         calls'[s] = calls[s], fetch'[s] = fetch[s], chain'[s] = chain[s], threw'[s] = threw[s],
         \A kind \in {"body", "catch"} : pc' = <<kind, s>> => pc = <<kind, s>>,
         \A kind \in RequestJob : <<kind, s>> \in Queued' <=> <<kind, s>> \in Queued
  PROVE  RequestInPlace(s)'
BY DEF RequestInPlace, Fresh, RequestJob

LEMMA StepPreserves == IInv /\ [Next]_vars => IInv'
<1> SUFFICES ASSUME IInv, [Next]_vars PROVE IInv'
  OBVIOUS
<1>0. /\ TypeOK /\ CallbackDiscipline /\ AnswersFit
      /\ \A r \in Request : RequestInPlace(r)
      /\ \A d \in Dispatch : DispatchInPlace(d)
  BY DEF IInv
<1>1. ASSUME NEW r \in Request, CallRequest(r) PROVE IInv'
  <2>1. jobs' \in Seq(Job) /\ JobsInOrder' /\ Queued' = Queued
    BY <1>1, QueueSame DEF CallRequest
  <2>2. TypeOK'
    BY <1>0, <1>1, <2>1
       DEF CallRequest, TypeOK, Job, RequestJob, DispatchJob, reqVars, dispVars
  <2>3. ASSUME NEW s \in Request PROVE RequestInPlace(s)'
    BY <1>0, <1>1, <2>1
       DEF CallRequest, RequestInPlace, Fresh, RequestJob, CallbackDiscipline,
           TypeOK, reqVars, dispVars
  <2>4. (\A d \in Dispatch : DispatchInPlace(d)') /\ AnswersFit'
    BY <1>0, <1>1, <2>1, DispatchesStay DEF CallRequest, dispVars, DispatchJob
  <2>5. CallbackDiscipline'
    BY <1>0, <1>1, <2>1
       DEF CallRequest, RequestInPlace, Fresh, RequestJob, CallbackDiscipline,
           TypeOK, reqVars, dispVars
  <2> QED
    BY <2>1, <2>2, <2>3, <2>4, <2>5 DEF IInv
<1>2. ASSUME NEW r \in Request, Cancel(r) PROVE IInv'
  <2>1. jobs' \in Seq(Job) /\ JobsInOrder' /\ Queued' = Queued
    BY <1>2, QueueSame DEF Cancel
  <2>2. TypeOK'
    BY <1>0, <1>2, <2>1
       DEF Cancel, TypeOK, Job, RequestJob, DispatchJob, reqVars, dispVars
  <2>3. ASSUME NEW s \in Request PROVE RequestInPlace(s)'
    BY <1>0, <1>2, <2>1
       DEF Cancel, RequestInPlace, Fresh, RequestJob, CallbackDiscipline, TypeOK,
           reqVars, dispVars
  <2>4. (\A d \in Dispatch : DispatchInPlace(d)') /\ AnswersFit'
    BY <1>0, <1>2, <2>1, DispatchesStay DEF Cancel, dispVars, DispatchJob
  <2>5. CallbackDiscipline'
    BY <1>0, <1>2, <2>1
       DEF Cancel, RequestInPlace, Fresh, RequestJob, CallbackDiscipline, TypeOK,
           reqVars, dispVars
  <2> QED
    BY <2>1, <2>2, <2>3, <2>4, <2>5 DEF IInv
<1>3. ASSUME NEW r \in Request, NEW outcome \in {"response", "error"},
             FetchSettles(r, outcome)
      PROVE IInv'
  <2>1. <<"respond", r>> \in Job /\ <<"respond", r>> \notin Queued
    BY <1>0, <1>3
       DEF FetchSettles, RequestInPlace, DispatchInPlace, Job, RequestJob,
           DispatchJob
  <2>2. jobs' \in Seq(Job) /\ JobsInOrder' /\ Queued' = Queued \cup {<<"respond", r>>}
    BY <1>3, <2>1, EnqueueOne DEF FetchSettles
  <2>3. TypeOK'
    BY <1>0, <1>3, <2>2
       DEF FetchSettles, TypeOK, Job, RequestJob, DispatchJob, reqVars, dispVars
  <2>4. ASSUME NEW s \in Request PROVE RequestInPlace(s)'
    <3>1. CASE s = r
      BY <3>1, <1>0, <1>3, <2>2
         DEF FetchSettles, RequestInPlace, Fresh, RequestJob, TypeOK, reqVars, dispVars
    <3>2. CASE s # r
      <4>1. /\ fetch'[s] = fetch[s] /\ UNCHANGED <<pc, calls, chain, threw>>
            /\ \A kind \in RequestJob : <<kind, s>> \in Queued' <=> <<kind, s>> \in Queued
        BY <3>2, <1>0, <1>3, <2>2 DEF FetchSettles, TypeOK, reqVars, dispVars
      <4> QED
        BY <4>1, <1>0, OtherRequest
    <3> QED
      BY <3>1, <3>2
  <2>5. (\A d \in Dispatch : DispatchInPlace(d)') /\ AnswersFit'
    BY <1>0, <1>3, <2>2, DispatchesStay DEF FetchSettles, dispVars, DispatchJob
  <2>6. CallbackDiscipline'
    BY <1>0, <1>3, <2>2
       DEF FetchSettles, RequestInPlace, Fresh, RequestJob, CallbackDiscipline,
           TypeOK, reqVars, dispVars
  <2> QED
    BY <2>2, <2>3, <2>4, <2>5, <2>6 DEF IInv
<1>4. ASSUME NEW r \in Request, Respond(r) PROVE IInv'
  <2>1. <<"respond", r>> \in Queued /\ pc = << >>
    BY <1>4, NextHead DEF Respond
  <2>2. /\ <<"body", r>> \notin Queued /\ <<"adopt", r>> \notin Queued
        /\ <<"catch", r>> \notin Queued /\ <<"catch", r>> \in Job
    BY <1>0, <2>1 DEF RequestInPlace, Job, RequestJob
  <2>3. CASE fetch[r] = "response" /\ ~aborted[r]
    <3>1. NextJob("respond", r, << <<"body", r>>, <<"adopt", r>> >>) /\ UNCHANGED chain
      BY <1>4, <2>3 DEF Respond
    <3>2. /\ jobs' \in Seq(Job) /\ JobsInOrder'
          /\ Queued' = (Queued \ {<<"respond", r>>}) \cup {<<"body", r>>, <<"adopt", r>>}
      BY <2>2, <3>1, NextTwo
    <3>3. TypeOK'
      BY <1>0, <1>4, <3>2, <3>1, <2>1, <2>3
         DEF Respond, TypeOK, Job, RequestJob, DispatchJob, reqVars, dispVars
    <3>4. ASSUME NEW s \in Request PROVE RequestInPlace(s)'
      BY <1>0, <1>4, <3>2, <3>1, <2>1, <2>3
         DEF Respond, RequestInPlace, Fresh, RequestJob, CallbackDiscipline,
             TypeOK, reqVars, dispVars
    <3>5. (\A d \in Dispatch : DispatchInPlace(d)') /\ AnswersFit'
      BY <1>0, <1>4, <3>2, <3>1, <2>1, <2>3, DispatchesStay
         DEF Respond, dispVars, DispatchJob
    <3>6. CallbackDiscipline'
      BY <1>0, <1>4, <3>2, <3>1, <2>1, <2>3
         DEF Respond, RequestInPlace, Fresh, RequestJob, CallbackDiscipline,
             TypeOK, reqVars, dispVars
    <3> QED
      BY <3>2, <3>3, <3>4, <3>5, <3>6 DEF IInv
  <2>4. CASE ~(fetch[r] = "response" /\ ~aborted[r])
    <3>1. /\ NextJob("respond", r, << <<"catch", r>> >>)
          /\ \/ fetch[r] = "response" /\ UNCHANGED chain
             \/ fetch[r] = "error" /\ chain' = [chain EXCEPT ![r] = "rejected"]
      BY <1>4, <2>4 DEF Respond
    <3>2. /\ jobs' \in Seq(Job) /\ JobsInOrder'
          /\ Queued' = (Queued \ {<<"respond", r>>}) \cup {<<"catch", r>>}
      BY <2>1, <2>2, <3>1, NextOne
    <3>3. TypeOK'
      BY <1>0, <1>4, <3>2, <3>1, <2>1
         DEF Respond, TypeOK, Job, RequestJob, DispatchJob, reqVars, dispVars
    <3>4. ASSUME NEW s \in Request PROVE RequestInPlace(s)'
      <4>1. CASE s = r
        BY <4>1, <1>0, <1>4, <3>2, <3>1, <2>1, Lists
           DEF Respond, RequestInPlace, Fresh, RequestJob, CallbackDiscipline,
               TypeOK, reqVars, dispVars
      <4>2. CASE s # r
        <5>1. /\ UNCHANGED <<pc, fetch, calls, threw>> /\ chain'[s] = chain[s]
              /\ \A kind \in RequestJob : <<kind, s>> \in Queued' <=> <<kind, s>> \in Queued
          BY <4>2, <1>0, <1>4, <3>1, <3>2 DEF Respond, TypeOK
        <5> QED
          BY <5>1, <1>0 DEF RequestInPlace, Fresh, RequestJob
      <4> QED
        BY <4>1, <4>2
    <3>5. (\A d \in Dispatch : DispatchInPlace(d)') /\ AnswersFit'
      BY <1>0, <1>4, <3>2, <3>1, <2>1, DispatchesStay
         DEF Respond, dispVars, DispatchJob
    <3>6. CallbackDiscipline'
      BY <1>0, <1>4, <3>2, <3>1, <2>1
         DEF Respond, RequestInPlace, Fresh, RequestJob, CallbackDiscipline,
             TypeOK, reqVars, dispVars
    <3> QED
      BY <3>2, <3>3, <3>4, <3>5, <3>6 DEF IInv
  <2> QED
    BY <2>3, <2>4
<1>5. ASSUME NEW r \in Request, Body(r) PROVE IInv'
  <2>1. /\ jobs' \in Seq(Job) /\ JobsInOrder'
        /\ <<"body", r>> \in Queued /\ Queued' = Queued \ {<<"body", r>>}
    BY <1>5, NextNone DEF Body
  <2>2. pc = << >> /\ calls[r] = << >> /\ calls \in [Request -> Seq({"response", "error"})]
    BY <1>0, <1>5, <2>1, NextHead DEF Body, RequestInPlace, Fresh, TypeOK
  <2>3. UNCHANGED <<fetch, chain, aborted, threw, handler, replies, lost>>
    BY <1>5 DEF Body, dispVars
  <2>4. CASE aborted[r]
    <3>1. UNCHANGED <<pc, calls>>
      BY <1>5, <2>4 DEF Body
    <3>2. TypeOK'
      BY <1>0, <2>1, <2>2, <2>3, <3>1, Lists
         DEF TypeOK, Job, RequestJob, DispatchJob
    <3>3. ASSUME NEW s \in Request PROVE RequestInPlace(s)'
      BY <1>0, <2>1, <2>2, <2>3, <3>1, Lists
         DEF RequestInPlace, Fresh, RequestJob, CallbackDiscipline, TypeOK
    <3>4. (\A d \in Dispatch : DispatchInPlace(d)') /\ AnswersFit'
      BY <1>0, <2>1, <2>2, <2>3, <3>1, DispatchesStay DEF dispVars, DispatchJob
    <3>5. CallbackDiscipline'
      BY <1>0, <2>1, <2>2, <2>3, <3>1, Lists
         DEF RequestInPlace, Fresh, RequestJob, CallbackDiscipline, TypeOK
    <3> QED
      BY <2>1, <3>2, <3>3, <3>4, <3>5 DEF IInv
  <2>5. CASE ~aborted[r]
    <3>1. pc' = <<"body", r>> /\ calls' = [calls EXCEPT ![r] = <<"response">>]
      BY <1>5, <2>2, <2>5 DEF Body
    <3>2. TypeOK'
      BY <1>0, <2>1, <2>2, <2>3, <3>1, Lists
         DEF TypeOK, Job, RequestJob, DispatchJob
    <3>3. ASSUME NEW s \in Request PROVE RequestInPlace(s)'
      <4>1. CASE s = r
        <5>1. /\ calls'[r] = <<"response">> /\ chain[r] = "fulfilled" /\ ~threw[r]
              /\ fetch[r] = "response" /\ <<"adopt", r>> \in Queued
              /\ <<"respond", r>> \notin Queued
          BY <1>0, <2>1, <2>2, <3>1 DEF RequestInPlace, Fresh, RequestJob
        <5>2. /\ <<"adopt", r>> \in Queued' /\ <<"body", r>> \notin Queued'
              /\ <<"respond", r>> \notin Queued'
              /\ \A kind \in {"adopted", "catch"} :
                    <<kind, r>> \in Queued' => <<kind, r>> \in Queued
          BY <5>1, <2>1
        <5> QED
          BY <4>1, <5>1, <5>2, <1>0, <2>3, <3>1 DEF RequestInPlace
      <4>2. CASE s # r
        <5>1. /\ calls'[s] = calls[s] /\ UNCHANGED <<fetch, chain, threw>>
              /\ \A kind \in {"body", "catch"} : pc' # <<kind, s>>
              /\ \A kind \in RequestJob : <<kind, s>> \in Queued' <=> <<kind, s>> \in Queued
          BY <4>2, <1>0, <2>1, <2>2, <2>3, <3>1 DEF TypeOK
        <5> QED
          BY <5>1, <1>0, OtherRequest
      <4> QED
        BY <4>1, <4>2
    <3>4. (\A d \in Dispatch : DispatchInPlace(d)') /\ AnswersFit'
      BY <1>0, <2>1, <2>2, <2>3, <3>1, DispatchesStay DEF dispVars, DispatchJob
    <3>5. CallbackDiscipline'
      <4> SUFFICES ASSUME NEW s \in Request
            PROVE (/\ calls[s] \in {<< >>, <<"response">>, <<"error">>, <<"response", "error">>}
                   /\ calls[s] = <<"error">> => fetch[s] = "error"
                   /\ calls[s] = <<"response">> => fetch[s] = "response"
                   /\ calls[s] = <<"response", "error">> => fetch[s] = "response" /\ threw[s])'
        BY DEF CallbackDiscipline
      <4>1. CASE s = r
        <5>1. calls'[r] = <<"response">> /\ fetch'[r] = "response"
          BY <1>0, <2>1, <2>2, <2>3, <3>1 DEF RequestInPlace
        <5> QED
          BY <4>1, <5>1, Lists
      <4>2. CASE s # r
        <5>1. calls'[s] = calls[s] /\ fetch' = fetch /\ threw' = threw
          BY <4>2, <2>2, <2>3, <3>1
        <5> QED
          BY <5>1, <1>0 DEF CallbackDiscipline
      <4> QED
        BY <4>1, <4>2
    <3> QED
      BY <2>1, <3>2, <3>3, <3>4, <3>5 DEF IInv
  <2> QED
    BY <2>4, <2>5
<1>6. ASSUME NEW r \in Request, Adopt(r) PROVE IInv'
  <2>1. <<"adopt", r>> \in Queued /\ pc = << >>
    BY <1>6, NextHead DEF Adopt
  <2>2. <<"adopted", r>> \in Job /\ <<"adopted", r>> \notin Queued
    BY <1>0, <2>1 DEF RequestInPlace, DispatchInPlace, Job, RequestJob, DispatchJob
  <2>3. /\ jobs' \in Seq(Job) /\ JobsInOrder' /\ <<"body", r>> \notin Queued
        /\ Queued' = (Queued \ {<<"adopt", r>>}) \cup {<<"adopted", r>>}
    BY <1>6, <2>1, <2>2, NextOne DEF Adopt
  <2>4. TypeOK'
    BY <1>0, <1>6, <2>3, <2>1
       DEF Adopt, TypeOK, Job, RequestJob, DispatchJob, reqVars, dispVars
  <2>5. ASSUME NEW s \in Request PROVE RequestInPlace(s)'
    BY <1>0, <1>6, <2>3, <2>1
       DEF Adopt, RequestInPlace, Fresh, RequestJob, CallbackDiscipline, TypeOK,
           reqVars, dispVars
  <2>6. (\A d \in Dispatch : DispatchInPlace(d)') /\ AnswersFit'
    BY <1>0, <1>6, <2>3, <2>1, DispatchesStay DEF Adopt, dispVars, DispatchJob
  <2>7. CallbackDiscipline'
    BY <1>0, <1>6, <2>3, <2>1
       DEF Adopt, RequestInPlace, Fresh, RequestJob, CallbackDiscipline, TypeOK,
           reqVars, dispVars
  <2> QED
    BY <2>3, <2>4, <2>5, <2>6, <2>7 DEF IInv
<1>7. ASSUME NEW r \in Request, Adopted(r) PROVE IInv'
  <2>1. <<"adopted", r>> \in Queued /\ pc = << >>
    BY <1>7, NextHead DEF Adopted
  <2>2. <<"catch", r>> \in Job /\ <<"catch", r>> \notin Queued
    BY <1>0, <2>1 DEF RequestInPlace, DispatchInPlace, Job, RequestJob, DispatchJob
  <2>3. /\ jobs' \in Seq(Job) /\ JobsInOrder'
        /\ Queued' = (Queued \ {<<"adopted", r>>}) \cup {<<"catch", r>>}
    BY <1>7, <2>1, <2>2, NextOne DEF Adopted
  <2>4. TypeOK'
    BY <1>0, <1>7, <2>3, <2>1
       DEF Adopted, TypeOK, Job, RequestJob, DispatchJob, reqVars, dispVars
  <2>5. ASSUME NEW s \in Request PROVE RequestInPlace(s)'
    BY <1>0, <1>7, <2>3, <2>1
       DEF Adopted, RequestInPlace, Fresh, RequestJob, CallbackDiscipline, TypeOK,
           reqVars, dispVars
  <2>6. (\A d \in Dispatch : DispatchInPlace(d)') /\ AnswersFit'
    BY <1>0, <1>7, <2>3, <2>1, DispatchesStay DEF Adopted, dispVars, DispatchJob
  <2>7. CallbackDiscipline'
    BY <1>0, <1>7, <2>3, <2>1
       DEF Adopted, RequestInPlace, Fresh, RequestJob, CallbackDiscipline, TypeOK,
           reqVars, dispVars
  <2> QED
    BY <2>3, <2>4, <2>5, <2>6, <2>7 DEF IInv
<1>8. ASSUME NEW r \in Request, Catch(r) PROVE IInv'
  <2>1. /\ jobs' \in Seq(Job) /\ JobsInOrder'
        /\ <<"catch", r>> \in Queued /\ Queued' = Queued \ {<<"catch", r>>}
    BY <1>8, NextNone DEF Catch
  <2>2. pc = << >> /\ calls[r] \in {<< >>, <<"response">>}
    BY <1>0, <1>8, <2>1, NextHead DEF Catch, RequestInPlace
  <2>3. UNCHANGED <<fetch, chain, aborted, threw, handler, replies, lost>>
    BY <1>8 DEF Catch, dispVars
  <2>4. CASE UNCHANGED <<pc, calls>>
    <3>1. TypeOK'
      BY <1>0, <2>1, <2>2, <2>3, <2>4, Lists
         DEF TypeOK, Job, RequestJob, DispatchJob
    <3>2. ASSUME NEW s \in Request PROVE RequestInPlace(s)'
      BY <1>0, <2>1, <2>2, <2>3, <2>4, Lists
         DEF RequestInPlace, Fresh, RequestJob, CallbackDiscipline, TypeOK
    <3>3. (\A d \in Dispatch : DispatchInPlace(d)') /\ AnswersFit'
      BY <1>0, <2>1, <2>2, <2>3, <2>4, DispatchesStay DEF dispVars, DispatchJob
    <3>4. CallbackDiscipline'
      BY <1>0, <2>1, <2>2, <2>3, <2>4, Lists
         DEF RequestInPlace, Fresh, RequestJob, CallbackDiscipline, TypeOK
    <3> QED
      BY <2>1, <3>1, <3>2, <3>3, <3>4 DEF IInv
  <2>5. CASE /\ chain[r] = "rejected" /\ pc' = <<"catch", r>>
             /\ calls' = [calls EXCEPT ![r] = Append(@, "error")]
    <3>1. \/ /\ calls[r] = << >> /\ fetch[r] = "error" /\ ~threw[r]
             /\ calls' = [calls EXCEPT ![r] = <<"error">>]
          \/ /\ calls[r] = <<"response">> /\ fetch[r] = "response" /\ threw[r]
             /\ calls' = [calls EXCEPT ![r] = <<"response", "error">>]
      <4>1. CASE calls[r] = << >>
        <5>1. ~threw[r] /\ fetch[r] = "error"
          <6>1. /\ chain[r] = "rejected" => fetch[r] = "error" \/ threw[r]
                /\ threw[r] => calls[r] \in {<<"response">>, <<"response", "error">>}
            BY <1>0 DEF RequestInPlace
          <6>2. threw[r] \in BOOLEAN
            BY <1>0 DEF TypeOK
          <6> QED
            BY <2>5, <4>1, <6>1, <6>2, Lists
        <5> QED
          BY <2>5, <4>1, <5>1, Lists
      <4>2. CASE calls[r] = <<"response">>
        <5>1. threw[r] /\ fetch[r] = "response"
          BY <1>0, <2>5, <4>2 DEF RequestInPlace, CallbackDiscipline, TypeOK
        <5> QED
          BY <2>5, <4>2, <5>1, Lists
      <4> QED
        BY <2>2, <4>1, <4>2
    <3>2. TypeOK'
      BY <1>0, <2>1, <2>2, <2>3, <2>5, <3>1, Lists
         DEF TypeOK, Job, RequestJob, DispatchJob
    <3>3. ASSUME NEW s \in Request PROVE RequestInPlace(s)'
      <4>1. CASE s = r
        <5>1. \A kind \in RequestJob : <<kind, r>> \notin Queued'
          BY <1>0, <2>1 DEF RequestInPlace, RequestJob
        <5>2. fetch' = fetch /\ threw' = threw /\ chain' = chain /\ r \in DOMAIN calls
          BY <1>0, <2>3 DEF TypeOK
        <5>3. /\ pc' = <<"catch", r>> /\ fetch'[r] \in {"response", "error"}
              /\ chain'[r] = "rejected" => fetch'[r] = "error" \/ threw'[r]
              /\ calls'[r] \in {<<"error">>, <<"response", "error">>}
              /\ threw'[r] => calls'[r] = <<"response", "error">>
          BY <5>2, <2>5, <3>1
        <5> QED
          BY <4>1, <5>1, <5>3, Lists DEF RequestInPlace, RequestJob
      <4>2. CASE s # r
        <5>1. /\ calls'[s] = calls[s] /\ UNCHANGED <<fetch, chain, threw>>
              /\ \A kind \in {"body", "catch"} : pc' # <<kind, s>>
              /\ \A kind \in RequestJob : <<kind, s>> \in Queued' <=> <<kind, s>> \in Queued
          BY <4>2, <1>0, <2>1, <2>3, <2>5 DEF TypeOK
        <5> QED
          BY <5>1, <1>0, OtherRequest
      <4> QED
        BY <4>1, <4>2
    <3>4. (\A d \in Dispatch : DispatchInPlace(d)') /\ AnswersFit'
      BY <1>0, <2>1, <2>2, <2>3, <2>5, <3>1, DispatchesStay
         DEF dispVars, DispatchJob
    <3>5. CallbackDiscipline'
      <4> SUFFICES ASSUME NEW s \in Request
            PROVE (/\ calls[s] \in {<< >>, <<"response">>, <<"error">>, <<"response", "error">>}
                   /\ calls[s] = <<"error">> => fetch[s] = "error"
                   /\ calls[s] = <<"response">> => fetch[s] = "response"
                   /\ calls[s] = <<"response", "error">> => fetch[s] = "response" /\ threw[s])'
        BY DEF CallbackDiscipline
      <4>1. CASE s = r
        <5>1. fetch' = fetch /\ threw' = threw /\ r \in DOMAIN calls
          BY <1>0, <2>3 DEF TypeOK
        <5> QED
          BY <4>1, <5>1, <3>1, Lists
      <4>2. CASE s # r
        <5>1. calls'[s] = calls[s] /\ fetch' = fetch /\ threw' = threw
          BY <4>2, <1>0, <2>3, <3>1 DEF TypeOK
        <5> QED
          BY <5>1, <1>0 DEF CallbackDiscipline
      <4> QED
        BY <4>1, <4>2
    <3> QED
      BY <2>1, <3>2, <3>3, <3>4, <3>5 DEF IInv
  <2> QED
    BY <1>8, <2>4, <2>5 DEF Catch
<1>9. ASSUME NEW r \in Request, NEW throws \in BOOLEAN, CallbackEnds(r, throws)
      PROVE  IInv'
  <2>1. jobs' \in Seq(Job) /\ JobsInOrder' /\ Queued' = Queued
    BY <1>9, QueueSame DEF CallbackEnds
  <2>2. pc' = << >> /\ UNCHANGED <<fetch, aborted, calls, handler, replies, lost>>
    BY <1>9 DEF CallbackEnds, dispVars
  <2>3. CASE pc = <<"body", r>>
    <3>1. /\ threw' = [threw EXCEPT ![r] = throws]
          /\ chain' = [chain EXCEPT ![r] = IF throws THEN "rejected" ELSE @]
      BY <1>9, <2>3 DEF CallbackEnds
    <3>2. chain[r] = "fulfilled" /\ ~threw[r] /\ calls[r] = <<"response">>
      BY <1>0, <2>3 DEF RequestInPlace
    <3>3. TypeOK'
      BY <1>0, <2>1, <2>2, <2>3, <3>1, <3>2, Lists
         DEF TypeOK, Job, RequestJob, DispatchJob
    <3>4. ASSUME NEW s \in Request PROVE RequestInPlace(s)'
      <4>1. CASE s = r
        <5>1. /\ threw'[r] = throws /\ chain'[r] = (IF throws THEN "rejected" ELSE chain[r])
              /\ calls'[r] = <<"response">> /\ fetch'[r] = fetch[r]
          BY <1>0, <2>2, <3>1, <3>2 DEF TypeOK
        <5>2. /\ fetch[r] = "response" /\ <<"respond", r>> \notin Queued
              /\ <<"body", r>> \notin Queued
          BY <1>0, <2>3, <3>2, Lists DEF RequestInPlace, Fresh, CallbackDiscipline
        <5> QED
          BY <4>1, <5>1, <5>2, <1>0, <2>1, <2>2, <3>2, Lists DEF RequestInPlace
      <4>2. CASE s # r
        <5>1. /\ calls'[s] = calls[s] /\ fetch'[s] = fetch[s] /\ chain'[s] = chain[s]
              /\ threw'[s] = threw[s]
              /\ \A kind \in {"body", "catch"} : pc # <<kind, s>> /\ pc' # <<kind, s>>
          BY <4>2, <1>0, <2>2, <2>3, <3>1 DEF TypeOK
        <5> QED
          BY <5>1, <1>0, <2>1, OtherRequest
      <4> QED
        BY <4>1, <4>2
    <3>5. (\A d \in Dispatch : DispatchInPlace(d)') /\ AnswersFit'
      BY <1>0, <2>1, <2>2, <2>3, <3>1, <3>2, DispatchesStay
         DEF dispVars, DispatchJob
    <3>6. CallbackDiscipline'
      BY <1>0, <2>1, <2>2, <2>3, <3>1, <3>2, Lists
         DEF RequestInPlace, Fresh, RequestJob, CallbackDiscipline, TypeOK
    <3> QED
      BY <2>1, <3>3, <3>4, <3>5, <3>6 DEF IInv
  <2>4. CASE UNCHANGED <<threw, chain>>
    <3>1. TypeOK'
      BY <1>0, <2>1, <2>2, <2>4, Lists DEF TypeOK, Job, RequestJob, DispatchJob
    <3>2. ASSUME NEW s \in Request PROVE RequestInPlace(s)'
      BY <1>0, <2>1, <2>2, <2>4, Lists
         DEF RequestInPlace, Fresh, RequestJob, CallbackDiscipline, TypeOK
    <3>3. (\A d \in Dispatch : DispatchInPlace(d)') /\ AnswersFit'
      BY <1>0, <2>1, <2>2, <2>4, DispatchesStay DEF dispVars, DispatchJob
    <3>4. CallbackDiscipline'
      BY <1>0, <2>1, <2>2, <2>4, Lists
         DEF RequestInPlace, Fresh, RequestJob, CallbackDiscipline, TypeOK
    <3> QED
      BY <2>1, <3>1, <3>2, <3>3, <3>4 DEF IInv
  <2> QED
    BY <1>9, <2>3, <2>4 DEF CallbackEnds
<1>10. ASSUME NEW d \in Dispatch, DispatchAtOnce(d) PROVE IInv'
  <2>1. jobs' \in Seq(Job) /\ JobsInOrder' /\ Queued' = Queued
    BY <1>10, QueueSame DEF DispatchAtOnce
  <2>2. /\ UNCHANGED <<pc, fetch, chain, aborted, calls, threw>>
        /\ handler[d] = "none" /\ replies[d] = << >> /\ d \notin lost
    BY <1>0, <1>10 DEF DispatchAtOnce, DispatchInPlace, reqVars
  <2>3. \/ /\ handler' = [handler EXCEPT ![d] = "missing"]
           /\ replies' = [replies EXCEPT ![d] = <<"error">>] /\ lost' = lost
        \/ /\ handler' = [handler EXCEPT ![d] = "thrown"]
           /\ replies' = [replies EXCEPT ![d] = <<"error">>] /\ lost' = lost
        \/ /\ handler' = [handler EXCEPT ![d] = "thrown"]
           /\ replies' = replies /\ lost' = lost \cup {d}
        \/ /\ handler' = [handler EXCEPT ![d] = "value"]
           /\ replies' = [replies EXCEPT ![d] = <<"result">>] /\ lost' = lost
    BY <1>10, <2>2 DEF DispatchAtOnce, Send, SendError
  <2>4. TypeOK'
    <3>1. /\ handler' \in [Dispatch -> {"none", "missing", "thrown", "value", "promise",
                                        "thenable", "fulfilled", "rejected", "called"}]
          /\ lost' \in SUBSET Dispatch
      BY <1>0, <2>3 DEF TypeOK
    <3>2. replies' \in [Dispatch -> Seq({"result", "error"})]
      BY <1>0, <2>3, Lists DEF TypeOK
    <3> QED
      BY <1>0, <2>1, <2>2, <3>1, <3>2 DEF TypeOK, Job
  <2>5. (\A r \in Request : RequestInPlace(r)') /\ CallbackDiscipline'
    BY <1>0, <2>1, <2>2, <2>3, RequestsStay DEF reqVars, RequestJob
  <2>6. ASSUME NEW e \in Dispatch PROVE DispatchInPlace(e)'
    BY <1>0, <2>1, <2>2, <2>3, Lists DEF DispatchInPlace, AnswersFit, TypeOK
  <2>8. AnswersFit'
    <3> SUFFICES ASSUME NEW e \in Dispatch
          PROVE (\/ handler[e] \in {"thenable", "called"}
                 \/ /\ replies[e] \in {<< >>, <<"result">>, <<"error">>}
                    /\ replies[e] = <<"result">> => handler[e] \in {"value", "fulfilled"}
                    /\ replies[e] = <<"error">> => handler[e] \in {"missing", "thrown", "rejected"}
                    /\ e \in lost => replies[e] = << >>)'
      BY DEF AnswersFit
    <3>1. CASE e = d
      BY <3>1, <1>0, <2>1, <2>2, <2>3, Lists DEF DispatchInPlace, AnswersFit, TypeOK
    <3>2. CASE e # d
      <4>1. handler'[e] = handler[e] /\ replies'[e] = replies[e] /\ (e \in lost' <=> e \in lost)
        BY <3>2, <1>0, <2>2, <2>3 DEF TypeOK
      <4> QED
        BY <4>1, <1>0 DEF AnswersFit
    <3> QED
      BY <3>1, <3>2
  <2> QED
    BY <2>1, <2>4, <2>5, <2>6, <2>8 DEF IInv
<1>11. ASSUME NEW d \in Dispatch, NEW outcome \in {"promise", "fulfilled", "rejected"},
              DispatchPromise(d, outcome)
       PROVE IInv'
  <2>1. CASE outcome = "promise"
    <3>1. jobs' \in Seq(Job) /\ JobsInOrder' /\ Queued' = Queued
      BY <1>11, <2>1, QueueSame DEF DispatchPromise
    <3>2. TypeOK'
      BY <1>0, <1>11, <3>1, <2>1
         DEF DispatchPromise, TypeOK, Job, RequestJob, DispatchJob, reqVars,
             dispVars
    <3>3. (\A r \in Request : RequestInPlace(r)') /\ CallbackDiscipline'
      BY <1>0, <1>11, <3>1, <2>1, RequestsStay
         DEF DispatchPromise, reqVars, RequestJob
    <3>4. ASSUME NEW e \in Dispatch PROVE DispatchInPlace(e)'
      BY <1>0, <1>11, <3>1, <2>1
         DEF DispatchPromise, DispatchInPlace, AnswersFit, TypeOK, reqVars, dispVars
    <3>6. AnswersFit'
      BY <1>0, <1>11, <3>1, <2>1
         DEF DispatchPromise, DispatchInPlace, AnswersFit, TypeOK, reqVars, dispVars
    <3> QED
      BY <3>1, <3>2, <3>3, <3>4, <3>6 DEF IInv
  <2>2. CASE outcome # "promise"
    <3>1. <<"settled", d>> \in Job /\ <<"settled", d>> \notin Queued /\ <<"after", d>> \notin Queued
      BY <1>0, <1>11 DEF DispatchPromise, DispatchInPlace, Job, DispatchJob
    <3>2. jobs' \in Seq(Job) /\ JobsInOrder' /\ Queued' = Queued \cup {<<"settled", d>>}
      BY <1>11, <2>2, <3>1, EnqueueOne DEF DispatchPromise
    <3>3. TypeOK'
      BY <1>0, <1>11, <3>2, <3>1, <2>2
         DEF DispatchPromise, TypeOK, Job, RequestJob, DispatchJob, reqVars,
             dispVars
    <3>4. (\A r \in Request : RequestInPlace(r)') /\ CallbackDiscipline'
      BY <1>0, <1>11, <3>2, <3>1, <2>2, RequestsStay
         DEF DispatchPromise, reqVars, RequestJob
    <3>5. ASSUME NEW e \in Dispatch PROVE DispatchInPlace(e)'
      BY <1>0, <1>11, <3>2, <3>1, <2>2
         DEF DispatchPromise, DispatchInPlace, AnswersFit, TypeOK, reqVars, dispVars
    <3>7. AnswersFit'
      BY <1>0, <1>11, <3>2, <3>1, <2>2
         DEF DispatchPromise, DispatchInPlace, AnswersFit, TypeOK, reqVars, dispVars
    <3> QED
      BY <3>2, <3>3, <3>4, <3>5, <3>7 DEF IInv
  <2> QED
    BY <2>1, <2>2
<1>12. ASSUME NEW d \in Dispatch, DispatchThenable(d) \/ ThenableCalls(d) PROVE IInv'
  <2>1. jobs' \in Seq(Job) /\ JobsInOrder' /\ Queued' = Queued
    BY <1>12, QueueSame DEF DispatchThenable, ThenableCalls
  <2>2. /\ UNCHANGED <<pc, fetch, chain, aborted, calls, threw, lost>>
        /\ handler[d] \in {"none", "thenable"}
    BY <1>12 DEF DispatchThenable, ThenableCalls, reqVars
  <2>3. \E h \in {"thenable", "called"}, q \in Seq({"result", "error"}) :
          /\ handler' = [handler EXCEPT ![d] = h]
          /\ replies' = [replies EXCEPT ![d] = q]
    <3>1. replies[d] \in Seq({"result", "error"}) /\ replies = [replies EXCEPT ![d] = replies[d]]
      BY <1>0 DEF TypeOK
    <3>2. \A x \in {"result", "error"} : Append(replies[d], x) \in Seq({"result", "error"})
      BY <3>1
    <3>3. replies[d] \o <<"result", "error">> \in Seq({"result", "error"})
      BY <3>1, Lists
    <3>4. CASE DispatchThenable(d) /\ handler' = [handler EXCEPT ![d] = "thenable"]
               /\ replies' = [replies EXCEPT ![d] = Append(replies[d], "error")]
      BY <3>2, <3>4
    <3>5. CASE DispatchThenable(d) /\ handler' = [handler EXCEPT ![d] = "called"]
               /\ replies' = [replies EXCEPT ![d] = replies[d] \o <<"result", "error">>]
      BY <3>3, <3>5
    <3>6. CASE handler' = [handler EXCEPT ![d] = "called"]
               /\ replies' = [replies EXCEPT ![d] = Append(replies[d], "result")]
      BY <3>2, <3>6
    <3>7. CASE handler' = [handler EXCEPT ![d] = "called"]
               /\ replies' = replies
      BY <3>1, <3>7
    <3> QED
      BY <1>12, <3>4, <3>5, <3>6, <3>7 DEF DispatchThenable, ThenableCalls, Send
  <2>4. PICK h \in {"thenable", "called"}, q \in Seq({"result", "error"}) :
          /\ handler' = [handler EXCEPT ![d] = h]
          /\ replies' = [replies EXCEPT ![d] = q]
    BY <2>3
  <2>5. TypeOK'
    BY <1>0, <2>1, <2>2, <2>4, Lists DEF TypeOK, Job, RequestJob, DispatchJob
  <2>6. (\A r \in Request : RequestInPlace(r)') /\ CallbackDiscipline'
    BY <1>0, <2>1, <2>2, <2>4, RequestsStay DEF reqVars, RequestJob
  <2>7. ASSUME NEW e \in Dispatch PROVE DispatchInPlace(e)'
    BY <1>0, <2>1, <2>2, <2>4, Lists DEF DispatchInPlace, AnswersFit, TypeOK
  <2>9. AnswersFit'
    BY <1>0, <2>1, <2>2, <2>4, Lists DEF DispatchInPlace, AnswersFit, TypeOK
  <2> QED
    BY <2>1, <2>5, <2>6, <2>7, <2>9 DEF IInv
<1>13. ASSUME NEW d \in Dispatch, NEW outcome \in {"fulfilled", "rejected"},
              HandlerSettles(d, outcome)
       PROVE IInv'
  <2>1. <<"settled", d>> \in Job /\ <<"settled", d>> \notin Queued
    BY <1>0, <1>13
       DEF HandlerSettles, RequestInPlace, DispatchInPlace, Job, RequestJob,
           DispatchJob
  <2>2. jobs' \in Seq(Job) /\ JobsInOrder' /\ Queued' = Queued \cup {<<"settled", d>>}
    BY <1>13, <2>1, EnqueueOne DEF HandlerSettles
  <2>3. TypeOK'
    BY <1>0, <1>13, <2>2
       DEF HandlerSettles, TypeOK, Job, RequestJob, DispatchJob, reqVars, dispVars
  <2>4. (\A r \in Request : RequestInPlace(r)') /\ CallbackDiscipline'
    BY <1>0, <1>13, <2>2, RequestsStay DEF HandlerSettles, reqVars, RequestJob
  <2>5. ASSUME NEW e \in Dispatch PROVE DispatchInPlace(e)'
    BY <1>0, <1>13, <2>2
       DEF HandlerSettles, DispatchInPlace, AnswersFit, TypeOK, reqVars, dispVars
  <2>7. AnswersFit'
    BY <1>0, <1>13, <2>2
       DEF HandlerSettles, DispatchInPlace, AnswersFit, TypeOK, reqVars, dispVars
  <2> QED
    BY <2>2, <2>3, <2>4, <2>5, <2>7 DEF IInv
<1>14. ASSUME NEW d \in Dispatch, Settled(d) PROVE IInv'
  <2>1. <<"settled", d>> \in Queued
    BY <1>14, NextHead DEF Settled
  <2>2. <<"after", d>> \in Job /\ <<"after", d>> \notin Queued
    BY <1>0, <2>1 DEF DispatchInPlace, Job, DispatchJob
  <2>3. /\ jobs' \in Seq(Job) /\ JobsInOrder'
        /\ Queued' = (Queued \ {<<"settled", d>>}) \cup {<<"after", d>>}
    BY <1>14, <2>1, <2>2, NextOne DEF Settled
  <2>4. /\ UNCHANGED <<pc, fetch, chain, aborted, calls, threw, lost>>
        /\ handler[d] \in {"fulfilled", "rejected"} /\ replies[d] = << >> /\ d \notin lost
    BY <1>0, <1>14, <2>1 DEF Settled, DispatchInPlace, reqVars
  <2>5. \/ /\ handler[d] = "fulfilled" /\ handler' = handler
           /\ replies' = [replies EXCEPT ![d] = <<"result">>]
        \/ handler' = [handler EXCEPT ![d] = "rejected"] /\ replies' = replies
    BY <1>14, <2>4 DEF Settled, Send
  <2>6. TypeOK'
    BY <1>0, <2>1, <2>3, <2>4, <2>5, Lists DEF TypeOK, Job, RequestJob, DispatchJob
  <2>7. (\A r \in Request : RequestInPlace(r)') /\ CallbackDiscipline'
    BY <1>0, <2>1, <2>3, <2>4, <2>5, RequestsStay DEF reqVars, RequestJob
  <2>8. ASSUME NEW e \in Dispatch PROVE DispatchInPlace(e)'
    BY <1>0, <2>1, <2>3, <2>4, <2>5, Lists DEF DispatchInPlace, AnswersFit, TypeOK
  <2>10. AnswersFit'
    <3> SUFFICES ASSUME NEW e \in Dispatch
          PROVE (\/ handler[e] \in {"thenable", "called"}
                 \/ /\ replies[e] \in {<< >>, <<"result">>, <<"error">>}
                    /\ replies[e] = <<"result">> => handler[e] \in {"value", "fulfilled"}
                    /\ replies[e] = <<"error">> => handler[e] \in {"missing", "thrown", "rejected"}
                    /\ e \in lost => replies[e] = << >>)'
      BY DEF AnswersFit
    <3>1. CASE e = d
      BY <3>1, <1>0, <2>1, <2>3, <2>4, <2>5, Lists
         DEF DispatchInPlace, AnswersFit, TypeOK
    <3>2. CASE e # d
      <4>1. handler'[e] = handler[e] /\ replies'[e] = replies[e] /\ lost' = lost
        BY <3>2, <1>0, <2>4, <2>5 DEF TypeOK
      <4> QED
        BY <4>1, <1>0 DEF AnswersFit
    <3> QED
      BY <3>1, <3>2
  <2> QED
    BY <2>3, <2>6, <2>7, <2>8, <2>10 DEF IInv
<1>15. ASSUME NEW d \in Dispatch, After(d) PROVE IInv'
  <2>1. /\ jobs' \in Seq(Job) /\ JobsInOrder'
        /\ <<"after", d>> \in Queued /\ Queued' = Queued \ {<<"after", d>>}
    BY <1>15, NextNone DEF After
  <2>2. /\ UNCHANGED <<pc, fetch, chain, aborted, calls, threw, handler>>
        /\ handler[d] \in {"fulfilled", "rejected"}
        /\ handler[d] = "rejected" => replies[d] = << >> /\ d \notin lost
    BY <1>0, <1>15, <2>1 DEF After, DispatchInPlace, reqVars
  <2>3. \/ handler[d] = "rejected" /\ replies' = [replies EXCEPT ![d] = <<"error">>]
             /\ lost' = lost
        \/ handler[d] = "rejected" /\ replies' = replies /\ lost' = lost \cup {d}
        \/ UNCHANGED <<replies, lost>>
    BY <1>15, <2>2, Lists DEF After, Send, SendError
  <2>4. TypeOK'
    BY <1>0, <2>1, <2>2, <2>3, Lists DEF TypeOK, Job, RequestJob, DispatchJob
  <2>5. (\A r \in Request : RequestInPlace(r)') /\ CallbackDiscipline'
    BY <1>0, <2>1, <2>2, <2>3, RequestsStay DEF reqVars, RequestJob
  <2>6. ASSUME NEW e \in Dispatch PROVE DispatchInPlace(e)'
    BY <1>0, <2>1, <2>2, <2>3, Lists DEF DispatchInPlace, AnswersFit, TypeOK
  <2>8. AnswersFit'
    <3> SUFFICES ASSUME NEW e \in Dispatch
          PROVE (\/ handler[e] \in {"thenable", "called"}
                 \/ /\ replies[e] \in {<< >>, <<"result">>, <<"error">>}
                    /\ replies[e] = <<"result">> => handler[e] \in {"value", "fulfilled"}
                    /\ replies[e] = <<"error">> => handler[e] \in {"missing", "thrown", "rejected"}
                    /\ e \in lost => replies[e] = << >>)'
      BY DEF AnswersFit
    <3>1. CASE e = d
      BY <3>1, <1>0, <2>1, <2>2, <2>3, Lists DEF DispatchInPlace, AnswersFit, TypeOK
    <3>2. CASE e # d
      <4>1. handler'[e] = handler[e] /\ replies'[e] = replies[e] /\ (e \in lost' <=> e \in lost)
        BY <3>2, <1>0, <2>2, <2>3 DEF TypeOK
      <4> QED
        BY <4>1, <1>0 DEF AnswersFit
    <3> QED
      BY <3>1, <3>2
  <2> QED
    BY <2>1, <2>4, <2>5, <2>6, <2>8 DEF IInv
<1>16. CASE UNCHANGED vars
  <2>1. jobs' \in Seq(Job) /\ JobsInOrder' /\ Queued' = Queued
    BY <1>16, QueueSame DEF vars
  <2>2. TypeOK'
    BY <1>0, <1>16, <2>1
       DEF vars, TypeOK, Job, RequestJob, DispatchJob, reqVars, dispVars
  <2>3. (\A r \in Request : RequestInPlace(r)') /\ CallbackDiscipline'
    BY <1>0, <1>16, <2>1, RequestsStay DEF vars, reqVars, RequestJob
  <2>4. (\A d \in Dispatch : DispatchInPlace(d)') /\ AnswersFit'
    BY <1>0, <1>16, <2>1, DispatchesStay DEF vars, dispVars, DispatchJob
  <2> QED
    BY <2>1, <2>2, <2>3, <2>4 DEF IInv
<1> QED
  BY <1>1, <1>2, <1>3, <1>4, <1>5, <1>6, <1>7, <1>8, <1>9, <1>10, <1>11, <1>12,
     <1>13, <1>14, <1>15, <1>16 DEF Next, Idle, RequestStep, DispatchStep
-----------------------------------------------------------------------------
(* The theorems.                                                           *)

\* Every reachable state satisfies IInv, for any requests and dispatches
\* (lx_prelude.js).
THEOREM Invariance == Spec => []IInv
<1>1. Init => IInv
  BY InitEstablishes
<1>2. IInv /\ [Next]_vars => IInv'
  BY StepPreserves
<1> QED
  BY <1>1, <1>2, PTL DEF Spec

\* Every variable keeps its type.
THEOREM TypeCorrect == Spec => []TypeOK
<1>1. IInv => TypeOK
  BY DEF IInv
<1> QED
  BY <1>1, Invariance, PTL

\* The callback of lx.request is called once, or a second time with the error
\* it threw itself (lx_prelude.js:130-160).
THEOREM CallbacksDisciplined == Spec => []CallbackDiscipline
<1>1. IInv => CallbackDiscipline
  BY DEF IInv
<1> QED
  BY <1>1, Invariance, PTL

\* A dispatch is answered with what its handler came to, once, unless that
\* was a thenable of its own kind (lx_prelude.js:188-239).
THEOREM AnswersAreFit == Spec => []AnswersFit
<1>1. IInv => AnswersFit
  BY DEF IInv
<1> QED
  BY <1>1, Invariance, PTL

\* A cancelled request calls nobody (lx_prelude.js:131, 133, 155).
THEOREM CancelSilences == Spec => CancelledIsSilent
<1>1. TypeOK /\ [Next]_vars => [\A r \in Request : aborted[r] => UNCHANGED calls[r]]_vars
  <2> SUFFICES ASSUME TypeOK, Next, NEW r \in Request, aborted[r]
               PROVE  calls'[r] = calls[r]
    OBVIOUS
  <2>1. ASSUME NEW s \in Request, RequestStep(s) PROVE calls'[r] = calls[r]
    BY <2>1
       DEF RequestStep, CallRequest, Cancel, FetchSettles, Respond, Body, Adopt,
                Adopted, Catch, CallbackEnds, TypeOK, reqVars
  <2>2. ASSUME NEW d \in Dispatch, DispatchStep(d) PROVE calls' = calls
    BY <2>2 DEF DispatchStep, DispatchAtOnce, DispatchPromise, DispatchThenable,
                HandlerSettles, ThenableCalls, Settled, After, reqVars
  <2> QED
    BY <2>1, <2>2 DEF Next, Idle, vars, reqVars
<1> QED
  BY <1>1, TypeCorrect, PTL DEF Spec, CancelledIsSilent
=============================================================================
