------------------------------ MODULE Registry ------------------------------
(***************************************************************************)
(* The two global tables of package qjs through which JavaScript calls Go: *)
(* fnRegistry, from the id a function object carries to a Go function      *)
(* (src/qjs/function.go), and ctxRegistry, from the address of a           *)
(* JSContext to its Go Context (src/qjs/runtime.go, context.go), with      *)
(* goInvokeFunction that reads both (bridge.go).                           *)
(*                                                                         *)
(* Each runtime is used by one thread; the threads of different runtimes   *)
(* share the tables, whose locks are held for one access at a time, and    *)
(* the C allocator, which may give the address of a context freed by one   *)
(* thread to another.  A JSContext outlives Context.Close for as long as   *)
(* script functions made in it are reachable, those that pending jobs wait *)
(* to call for instance.  The context that settled a promise is not kept   *)
(* by the job that this queues: the job has its address only, and a Go     *)
(* function that is itself the handler is called with whatever is there.   *)
(*                                                                         *)
(* An element of Context stands for a Context and its JSContext; function  *)
(* ids and contexts are never used twice.                                  *)
(***************************************************************************)
EXTENDS Integers, FiniteSets

CONSTANTS
  Runtime,     \* the runtimes, each with its thread
  Context,     \* the contexts ever made
  Address,     \* where a JSContext may be allocated
  MaxFn,       \* bound on the Go functions ever registered
  MaxJobs,     \* bound on the jobs pending at a time
  None         \* no context, no address, no runtime

ASSUME RegistryAssumption ==
  /\ MaxFn \in Nat
  /\ MaxJobs \in Nat
  /\ None \notin Runtime \cup Context \cup Address

VARIABLES
  fnCounter,   \* the last function id given
  fnRegistry,  \* the ids with an entry
  maker,       \* maker[id]: the context the function was made with
  fns,         \* fns[c]: c.fns, empty once it is nil
  ctxRegistry, \* ctxRegistry[a]: the Context registered for address a
  memory,      \* memory[a]: the context whose JSContext is at a
  address,     \* address[c]: where its JSContext is, or was
  owner,       \* owner[c]: the runtime of c
  state,       \* state[c]: how far its life has come
  jobs,        \* pending jobs: <<s, c, id>> was queued when code of s settled a
               \* promise; its handler is a script function of c that calls id, or
               \* id itself when c is None
  pc,          \* pc[r]: where the thread of r stands
  caller,      \* caller[r]: the context it works on, or whose function calls Go
  settler,     \* settler[r]: the one that queued the job it runs
  callee,      \* callee[r]: the id being called
  goCtx        \* goCtx[r]: the Context goInvokeFunction found

ctxVars == <<ctxRegistry, memory, address, owner, state>>
fnVars  == <<fnCounter, fnRegistry, maker, fns>>
thread  == <<pc, caller, settler, callee, goCtx>>
vars    == <<ctxVars, fnVars, jobs, thread>>

Ids == 1..MaxFn

TypeOK ==
  /\ fnCounter \in 0..MaxFn
  /\ fnRegistry \subseteq Ids
  /\ maker \in [Ids -> Context \cup {None}]
  /\ fns \in [Context -> SUBSET Ids]
  /\ ctxRegistry \in [Address -> Context \cup {None}]
  /\ memory \in [Address -> Context \cup {None}]
  /\ address \in [Context -> Address \cup {None}]
  /\ owner \in [Context -> Runtime \cup {None}]
  /\ state \in [Context -> {"unmade", "made", "open", "closing", "closed"}]
  /\ jobs \subseteq Context \X (Context \cup {None}) \X Ids
  /\ pc \in [Runtime -> {"idle", "register", "close", "delete", "free",
                         "findFn", "findCtx", "inside", "throw", "ended"}]
  /\ caller \in [Runtime -> Context \cup {None}]
  /\ settler \in [Runtime -> Context \cup {None}]
  /\ callee \in [Runtime -> 0..MaxFn]
  /\ goCtx \in [Runtime -> Context \cup {None}]

Init ==
  /\ fnCounter   = 0
  /\ fnRegistry  = {}
  /\ maker       = [id \in Ids |-> None]
  /\ fns         = [c \in Context |-> {}]
  /\ ctxRegistry = [a \in Address |-> None]
  /\ memory      = [a \in Address |-> None]
  /\ address     = [c \in Context |-> None]
  /\ owner       = [c \in Context |-> None]
  /\ state       = [c \in Context |-> "unmade"]
  /\ jobs        = {}
  /\ pc          = [r \in Runtime |-> "idle"]
  /\ caller      = [r \in Runtime |-> None]
  /\ settler     = [r \in Runtime |-> None]
  /\ callee      = [r \in Runtime |-> 0]
  /\ goCtx       = [r \in Runtime |-> None]

Goto(r, label) == pc' = [pc EXCEPT ![r] = label]

\* The thread is done with what it was doing.
Rest(r) ==
  /\ Goto(r, "idle")
  /\ caller' = [caller EXCEPT ![r] = None]
  /\ settler' = [settler EXCEPT ![r] = None]
  /\ callee' = [callee EXCEPT ![r] = 0]
  /\ goCtx'  = [goCtx EXCEPT ![r] = None]
-----------------------------------------------------------------------------
(* Contexts.  A definition marked "mutant" is the code with a likely slip, *)
(* kept to show which property notices it; the specification uses none.    *)

\* JS_NewContext, at any address that is free.
NewContext(r, c, a) ==
  /\ pc[r] = "idle"
  /\ state[c] = "unmade"
  /\ memory[a] = None
  /\ memory'  = [memory EXCEPT ![a] = c]
  /\ address' = [address EXCEPT ![c] = a]
  /\ owner'   = [owner EXCEPT ![c] = r]
  /\ state'   = [state EXCEPT ![c] = "made"]
  /\ Goto(r, "register")
  /\ caller'  = [caller EXCEPT ![r] = c]
  /\ UNCHANGED <<ctxRegistry, fnVars, jobs, settler, callee, goCtx>>

RegisterContext(r) ==
  /\ pc[r] = "register"
  /\ LET c == caller[r]
     IN  /\ ctxRegistry' = [ctxRegistry EXCEPT ![address[c]] = c]
         /\ state' = [state EXCEPT ![c] = "open"]
  /\ Rest(r)
  /\ UNCHANGED <<memory, address, owner, fnVars, jobs>>

Close(r, c) ==
  /\ pc[r] = "idle"
  /\ owner[c] = r /\ state[c] = "open"
  /\ state'  = [state EXCEPT ![c] = "closing"]
  /\ Goto(r, "close")
  /\ caller' = [caller EXCEPT ![r] = c]
  /\ UNCHANGED <<ctxRegistry, memory, address, owner, fnVars, jobs, settler, callee,
                 goCtx>>

UnregisterForgets(r) ==              \* mutant: only c.fns = nil
  /\ pc[r] = "close"
  /\ fns' = [fns EXCEPT ![caller[r]] = {}]
  /\ Goto(r, "delete")
  /\ UNCHANGED <<ctxVars, fnCounter, fnRegistry, maker, jobs, caller, settler, callee,
                 goCtx>>

\* One iteration of the loop over c.fns, in any order; after the last, c.fns
\* is nil.
Unregister(r) ==
  /\ pc[r] = "close"
  /\ LET c == caller[r]
     IN  \/ \E id \in fns[c] \cap fnRegistry :
              /\ fnRegistry' = fnRegistry \ {id}
              /\ UNCHANGED <<fns, pc>>
         \/ /\ fns[c] \cap fnRegistry = {}
            /\ fns' = [fns EXCEPT ![c] = {}]
            /\ Goto(r, "delete")
            /\ UNCHANGED fnRegistry
  /\ UNCHANGED <<ctxVars, fnCounter, maker, jobs, caller, settler, callee, goCtx>>

DeleteContextNot(r) ==               \* mutant: leaves the entry behind
  /\ pc[r] = "delete"
  /\ Goto(r, "free")
  /\ UNCHANGED <<ctxVars, fnVars, jobs, caller, settler, callee, goCtx>>

DeleteContext(r) ==
  /\ pc[r] = "delete"
  /\ ctxRegistry' = [ctxRegistry EXCEPT ![address[caller[r]]] = None]
  /\ Goto(r, "free")
  /\ UNCHANGED <<memory, address, owner, state, fnVars, jobs, caller, settler, callee,
                 goCtx>>

\* JS_FreeContext gives up the reference of the Context.
FreeContext(r) ==
  /\ pc[r] = "free"
  /\ state' = [state EXCEPT ![caller[r]] = "closed"]
  /\ Rest(r)
  /\ UNCHANGED <<ctxRegistry, memory, address, owner, fnVars, jobs>>

\* The JSContext of c exists.
Exists(c) == address[c] # None /\ memory[address[c]] = c

\* A script function of c, which has a reference to its JSContext, is running
\* or is the handler of a job.  To have queued a job is no reference.
Needed(c) ==
  \/ \E r \in Runtime : caller[r] = c
  \/ \E job \in jobs : job[2] = c

ReclaimEarly(c) ==                   \* mutant: JS_FreeContext before the delete
  /\ Exists(c)
  /\ state[c] \in {"closing", "closed"}
  /\ \A job \in jobs : job[2] # c
  /\ memory' = [memory EXCEPT ![address[c]] = None]
  /\ UNCHANGED <<ctxRegistry, address, owner, state, fnVars, jobs, thread>>

\* The last reference to a closed context goes, at once or in a collection.
Reclaim(c) ==
  /\ Exists(c)
  /\ state[c] = "closed"
  /\ ~Needed(c)
  /\ memory' = [memory EXCEPT ![address[c]] = None]
  /\ UNCHANGED <<ctxRegistry, address, owner, state, fnVars, jobs, thread>>

\* Runtime.Close, once every context has been closed: the jobs that never
\* ran are dropped, and what was left of the contexts with them.
CloseRuntime(r) ==
  /\ pc[r] = "idle"
  /\ \A c \in Context : owner[c] = r => state[c] = "closed"
  /\ Goto(r, "ended")
  /\ jobs'   = {job \in jobs : owner[job[1]] # r}
  /\ memory' = [a \in Address |->
                  IF memory[a] # None /\ owner[memory[a]] = r THEN None ELSE memory[a]]
  /\ UNCHANGED <<ctxRegistry, address, owner, state, fnVars, caller, settler, callee,
                 goCtx>>
-----------------------------------------------------------------------------
(* Functions.                                                              *)

\* The context through which the thread of r may make a function: one the
\* host uses, or the one goInvokeFunction gave to the function running.  (What
\* a Go function does that was given a context of another runtime, where it
\* races with the thread of that one, is not followed.)
Usable(r, c) ==
  /\ owner[c] = r
  /\ \/ pc[r] = "idle" /\ state[c] = "open"
     \/ pc[r] = "inside" /\ goCtx[r] = c

RegisterFunctionUntracked(r, c) ==   \* mutant: not entered in c.fns
  /\ Usable(r, c)
  /\ fnCounter < MaxFn
  /\ fnCounter'  = fnCounter + 1
  /\ fnRegistry' = fnRegistry \cup {fnCounter'}
  /\ maker'      = [maker EXCEPT ![fnCounter'] = c]
  /\ UNCHANGED <<ctxVars, fns, jobs, thread>>

\* NewFunction and Value.SetFunction: the id is new, so that nobody else sees
\* the entry before it is in c.fns too.
RegisterFunction(r, c) ==
  /\ Usable(r, c)
  /\ fnCounter < MaxFn
  /\ LET id == fnCounter + 1
     IN  /\ fnCounter'  = id
         /\ fnRegistry' = fnRegistry \cup {id}
         /\ maker'      = [maker EXCEPT ![id] = c]
         /\ fns'        = [fns EXCEPT ![c] = @ \cup {id}]
  /\ UNCHANGED <<ctxVars, jobs, thread>>

\* Code of runtime r can reach its function objects, those made with other
\* contexts and with contexts that were closed included.
Reaches(r, id) == maker[id] \in Context /\ owner[maker[id]] = r

\* A function of c can run: the host evaluates a script of c, or one of another
\* context, still open, which reaches it.
Runs(r, c) ==
  /\ owner[c] = r /\ Exists(c)
  /\ \E d \in Context : owner[d] = r /\ state[d] = "open"

\* The runtime that code finds in the JSContext of s: that of the context now
\* at its address; freed memory still names the old one.
RuntimeAt(s) ==
  LET d == memory[address[s]] IN IF d = None THEN owner[s] ELSE owner[d]

\* The thread of r may settle a promise with the JSContext of s: in a script,
\* in the Go function it runs, or with what that function returned to the
\* job, which has the JSContext of its own settler.
Settles(r, s) ==
  \/ pc[r] = "idle" /\ Runs(r, s)
  \/ pc[r] = "inside" /\ goCtx[r] = s /\ owner[s] = r
  \/ pc[r] \in {"inside", "throw"} /\ settler[r] = s /\ RuntimeAt(s) = r

\* A promise of r is settled, whose handler is a script function of c that
\* calls id, or id itself.
QueueJob(r, s, c, id) ==
  /\ Settles(r, s)
  /\ c # None => owner[c] = r /\ Exists(c)
  /\ Reaches(r, id)
  /\ Cardinality(jobs) < MaxJobs
  /\ jobs' = jobs \cup {<<s, c, id>>}
  /\ UNCHANGED <<ctxVars, fnVars, thread>>

\* Function id is called: by a function of c, or, when c is None, by the job
\* that s queued.
Invoke(r, s, c, id) ==
  /\ pc[r] = "idle"
  /\ Reaches(r, id)
  /\ Goto(r, "findFn")
  /\ caller'  = [caller EXCEPT ![r] = c]
  /\ settler' = [settler EXCEPT ![r] = s]
  /\ callee'  = [callee EXCEPT ![r] = id]
  /\ UNCHANGED <<ctxVars, fnVars, goCtx>>

ScriptCalls(r, c, id) ==
  /\ Runs(r, c)
  /\ Invoke(r, None, c, id)
  /\ UNCHANGED jobs

\* The job is run with e->ctx, the JSContext of its settler, there or not.
\* (That address is looked up once more when a job throws, to report it; what
\* is found there changes neither table.)
ExecutePendingJob(r, job) ==
  /\ owner[job[1]] = r
  /\ Invoke(r, job[1], job[2], job[3])
  /\ jobs' = jobs \ {job}

\* The context whose JSContext the Go function is called with: a script
\* function switches to its own, a C function keeps that of its caller.
Calling(r) == IF caller[r] # None THEN caller[r] ELSE settler[r]

\* goInvokeFunction's first look-up; an unknown id throws.
FindFunction(r) ==
  /\ pc[r] = "findFn"
  /\ Goto(r, IF callee[r] \in fnRegistry THEN "findCtx" ELSE "throw")
  /\ UNCHANGED <<ctxVars, fnVars, jobs, caller, settler, callee, goCtx>>

\* Its second, by the address of the calling context; an unknown one throws.
FindContext(r) ==
  /\ pc[r] = "findCtx"
  /\ LET found == ctxRegistry[address[Calling(r)]]
     IN  /\ goCtx' = [goCtx EXCEPT ![r] = found]
         /\ Goto(r, IF found # None THEN "inside" ELSE "throw")
  /\ UNCHANGED <<ctxVars, fnVars, jobs, caller, settler, callee>>

\* The Go function, or the exception thrown in its place, goes back to its
\* caller.  A job whose JSContext was freed may also fail before it calls.  (It
\* may crash the process: every thread may stop at any step.)
Return(r) ==
  /\ \/ pc[r] \in {"inside", "throw"}
     \/ pc[r] = "findFn" /\ settler[r] # None /\ ~Exists(settler[r])
  /\ Rest(r)
  /\ UNCHANGED <<ctxVars, fnVars, jobs>>
-----------------------------------------------------------------------------
Terminated ==
  /\ \A r \in Runtime : pc[r] = "ended"
  /\ UNCHANGED vars

Next ==
  \/ \E r \in Runtime :
       \/ \E c \in Context, a \in Address : NewContext(r, c, a)
       \/ RegisterContext(r)
       \/ \E c \in Context : Close(r, c) \/ RegisterFunction(r, c)
       \/ Unregister(r)
       \/ DeleteContext(r)
       \/ FreeContext(r)
       \/ CloseRuntime(r)
       \/ \E s \in Context, c \in Context \cup {None}, id \in Ids : QueueJob(r, s, c, id)
       \/ \E c \in Context, id \in Ids : ScriptCalls(r, c, id)
       \/ \E job \in jobs : ExecutePendingJob(r, job)
       \/ FindFunction(r)
       \/ FindContext(r)
       \/ Return(r)
  \/ \E c \in Context : Reclaim(c)
  \/ Terminated

Spec == Init /\ [][Next]_vars
-----------------------------------------------------------------------------
(* Properties.                                                             *)

\* An open context is found at its address, whatever the threads of other
\* runtimes make, close and free meanwhile; and what is found at an address
\* is a context that is not closed and whose JSContext is there.  The entry
\* goes before the memory does (context.go:34-39, runtime.go:56-68).
ContextsListed ==
  /\ \A c \in Context : state[c] = "open" => ctxRegistry[address[c]] = c
  /\ \A a \in Address : ctxRegistry[a] # None =>
       memory[a] = ctxRegistry[a] /\ state[ctxRegistry[a]] \in {"open", "closing"}

\* A Go function runs while the Context it was made with is open, and with the
\* Context of the code that calls it, open too: a script function, or a job,
\* that outlived its context is turned away.  The one exception is a job that
\* calls it directly after the context that queued the job was freed: it gets
\* the Context that has the address now, if any, maybe another runtime's; if it
\* is of this one, it is open (bridge.go:59-92, quickjs.c:2123).
CallsOpenContext ==
  \A r \in Runtime : pc[r] = "inside" =>
    /\ state[maker[callee[r]]] = "open"
    /\ owner[goCtx[r]] = r => state[goCtx[r]] = "open"
    /\ goCtx[r] # Calling(r) \/ owner[goCtx[r]] # r =>
         caller[r] = None /\ state[settler[r]] = "closed" /\ ~Exists(settler[r])

\* The table of functions holds only what a context not yet closed tracks,
\* and all that an open one does; once all are closed nothing is left of what
\* they registered (function.go:18-32, context.go:26-32).
FunctionsTracked ==
  /\ \A id \in fnRegistry : \E c \in Context : id \in fns[c]
  /\ \A c \in Context :
       /\ fns[c] # {} => state[c] \in {"open", "closing"}
       /\ state[c] = "open" => fns[c] \subseteq fnRegistry
-----------------------------------------------------------------------------
(* The inductive invariant behind these properties, in named parts.        *)

\* A thread works on a context of its own runtime, whose JSContext exists
\* and whose state fits what it does, or runs a job of its runtime.
ThreadsInPlace ==
  \A r \in Runtime :
    /\ pc[r] \in {"idle", "ended"} <=> caller[r] = None /\ settler[r] = None
    /\ caller[r] # None => owner[caller[r]] = r /\ Exists(caller[r])
    /\ settler[r] # None => owner[settler[r]] = r
    /\ pc[r] = "register" => caller[r] # None /\ state[caller[r]] = "made"
    /\ pc[r] \in {"close", "delete", "free"} =>
         caller[r] # None /\ state[caller[r]] = "closing"
    /\ pc[r] \in {"findFn", "findCtx", "inside"} => callee[r] \in Ids /\ Reaches(r, callee[r])

\* A context that is being made or closed is the one its thread works on,
\* and every context keeps its JSContext until it is closed.
ContextsInPlace ==
  \A c \in Context :
    /\ state[c] = "unmade" <=> owner[c] = None
    /\ state[c] = "unmade" <=> address[c] = None
    /\ state[c] \in {"made", "open", "closing"} => Exists(c)
    /\ state[c] = "made" => pc[owner[c]] = "register" /\ caller[owner[c]] = c
    /\ state[c] = "closing" =>
         pc[owner[c]] \in {"close", "delete", "free"} /\ caller[owner[c]] = c
    /\ fns[c] # {} => state[c] = "open" \/ (state[c] = "closing" /\ pc[owner[c]] = "close")

\* A context is found at its own address from its registration to the delete.
EntriesInPlace ==
  \A a \in Address :
    /\ memory[a] # None => address[memory[a]] = a
    /\ ctxRegistry[a] # None =>
         /\ memory[a] = ctxRegistry[a]
         /\ \/ state[ctxRegistry[a]] = "open"
            \/ /\ state[ctxRegistry[a]] = "closing"
               /\ pc[owner[ctxRegistry[a]]] \in {"close", "delete"}

\* Ids are given in order; a function is tracked by its maker alone, and
\* stays registered until that is being closed.
IdsInOrder ==
  /\ \A id \in Ids :
       /\ maker[id] # None <=> id <= fnCounter
       /\ maker[id] # None => state[maker[id]] \notin {"unmade", "made"}
       /\ id \in fnRegistry => maker[id] # None /\ id \in fns[maker[id]]
  /\ \A c \in Context : \A id \in fns[c] :
       maker[id] = c /\ (state[c] = "open" => id \in fnRegistry)

\* A job calls a function of the runtime that queued it.  A script function
\* that is its handler keeps its JSContext; nothing keeps the settler's.
JobsInPlace ==
  \A job \in jobs :
    /\ owner[job[1]] # None /\ Reaches(owner[job[1]], job[3])
    /\ job[2] # None => owner[job[2]] = owner[job[1]] /\ Exists(job[2])

\* Between its two look-ups a call keeps what the first one found, for the
\* thread that could take it away is the one that calls; and what the second
\* one found is the caller's, unless that is gone (bridge.go:59-85).
CallsInPlace ==
  \A r \in Runtime :
    /\ pc[r] \in {"findCtx", "inside"} => callee[r] \in fnRegistry
    /\ pc[r] = "inside" =>
         /\ goCtx[r] # None
         /\ owner[goCtx[r]] = r => state[goCtx[r]] = "open"
         /\ \/ goCtx[r] = Calling(r) /\ state[goCtx[r]] = "open"
            \/ caller[r] = None /\ ~Exists(settler[r])

\* The state in which no thread, context, entry, function or job is out of
\* place: the induction hypothesis for the three properties above.
IInv ==
  /\ TypeOK
  /\ ThreadsInPlace
  /\ ContextsInPlace
  /\ EntriesInPlace
  /\ ContextsListed
  /\ IdsInOrder
  /\ JobsInPlace
  /\ CallsInPlace
=============================================================================
