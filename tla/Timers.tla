------------------------------- MODULE Timers -------------------------------
(***************************************************************************)
(* TimerManager of src/polyfill/timer.go: the goroutine of every timer,    *)
(* the bounded channel they send closures on, the event loop's             *)
(* ProcessPending that runs them, and Close.                               *)
(*                                                                         *)
(* One thread, main, runs all JavaScript and calls ProcessPending and      *)
(* Close (a QuickJS runtime belongs to one thread).  Every fired timeout   *)
(* and every interval has a goroutine.  tm.mu is never held across a       *)
(* blocking operation, so each critical section is one atomic step.  Time  *)
(* is abstracted: an armed timer may fire, and a running ticker may tick,  *)
(* at any moment.                                                          *)
(***************************************************************************)
EXTENDS Integers, Sequences

CONSTANTS
  MaxTimers,   \* bound on the timers ever set
  Capacity     \* capacity of the pending channel: 256 in the code

ASSUME TimersAssumption ==
  /\ MaxTimers \in Nat
  /\ Capacity \in Nat \ {0}

VARIABLES
  counter,     \* tm.counter: the last id handed out
  timers,      \* the keys of tm.timers
  kind,        \* kind[id]: whether the entry is a timeout or an interval
  canceled,    \* canceled[id]: the entry's canceled flag
  refs,        \* refs[id]: references to the JS function the entry owns
  clock,       \* clock[id]: the entry's time.Timer or time.Ticker
  gor,         \* gor[id]: where the goroutine serving id stands
  wg,          \* tm.wg: the goroutines it still counts
  pending,     \* tm.pending: the ids of the closures in the channel
  closed,      \* tm.closed
  done,        \* tm.done has been closed
  pc,          \* where the main thread stands
  cur          \* the id whose callback is being run, 0 when none is

data == <<counter, kind, timers, canceled, refs>>
vars == <<data, clock, gor, wg, pending, closed, done, pc, cur>>

Ids   == 1..MaxTimers
Kinds == {"timeout", "interval"}

\* Main runs a script, a job or a promise reaction at "host", a timer
\* callback at "call"; both may call the four global functions.
JSRunning == pc \in {"host", "call"}

TypeOK ==
  /\ counter \in 0..MaxTimers
  /\ timers \subseteq Ids
  /\ kind \in [Ids -> Kinds \cup {"none"}]
  /\ canceled \in [Ids -> BOOLEAN]
  /\ refs \in [Ids -> Int]
  /\ clock \in [Ids -> {"none", "armed", "fired", "stopped"}]
  /\ gor \in [Ids -> {"none", "select", "check", "exists", "send", "exit"}]
  /\ wg \subseteq Ids
  /\ pending \in Seq(Ids)
  /\ closed \in BOOLEAN
  /\ done \in BOOLEAN
  /\ pc \in {"host", "loop", "call", "closing", "wait", "drain", "free", "closed"}
  /\ cur \in Ids \cup {0}

Init ==
  /\ counter  = 0
  /\ timers   = {}
  /\ kind     = [id \in Ids |-> "none"]
  /\ canceled = [id \in Ids |-> FALSE]
  /\ refs     = [id \in Ids |-> 0]
  /\ clock    = [id \in Ids |-> "none"]
  /\ gor      = [id \in Ids |-> "none"]
  /\ wg       = {}
  /\ pending  = << >>
  /\ closed   = FALSE
  /\ done     = FALSE
  /\ pc       = "host"
  /\ cur      = 0
-----------------------------------------------------------------------------
(* The functions a script calls.  A definition marked "mutant" is the code *)
(* with a likely slip, kept to show which property notices it; the         *)
(* specification uses none of them.                                        *)

\* The part setTimeout and setInterval share: take a reference to the
\* callback, take the next id and enter the timer in the map.
NewEntry(id, k) ==
  /\ counter' = id
  /\ timers'  = timers \cup {id}
  /\ kind'    = [kind EXCEPT ![id] = k]
  /\ refs'    = [refs EXCEPT ![id] = @ + 1]
  /\ UNCHANGED canceled

SetTimeout ==
  /\ JSRunning
  /\ counter < MaxTimers
  /\ LET id == counter + 1
     IN  /\ NewEntry(id, "timeout")
         /\ clock' = [clock EXCEPT ![id] = "armed"]
  /\ UNCHANGED <<gor, wg, pending, closed, done, pc, cur>>

SetInterval ==
  /\ JSRunning
  /\ counter < MaxTimers
  /\ LET id == counter + 1
     IN  /\ NewEntry(id, "interval")
         /\ clock' = [clock EXCEPT ![id] = "armed"]
         /\ gor'   = [gor EXCEPT ![id] = "select"]
         /\ wg'    = wg \cup {id}
  /\ UNCHANGED <<pending, closed, done, pc, cur>>

\* Stop only what this entry owns: clearTimeout stops entry.timer and
\* clearInterval entry.ticker, and the other one is nil.
Stopped(id, k) ==
  IF kind[id] = k /\ clock[id] = "armed"
  THEN [clock EXCEPT ![id] = "stopped"] ELSE clock

\* Either function accepts any id and marks whatever entry it finds; the
\* entry stays in the map and keeps its reference.
ClearEntryFrees(id, k) ==            \* mutant: what timer.go:107-108 warns of
  /\ JSRunning
  /\ id \in timers
  /\ canceled' = [canceled EXCEPT ![id] = TRUE]
  /\ refs'     = [refs EXCEPT ![id] = @ - 1]
  /\ clock'    = Stopped(id, k)
  /\ UNCHANGED <<counter, kind, timers, gor, wg, pending, closed, done, pc, cur>>

ClearEntryDeletes(id, k) ==          \* mutant: clear removes the timer at once
  /\ JSRunning
  /\ id \in timers
  /\ timers'   = timers \ {id}
  /\ refs'     = [refs EXCEPT ![id] = @ - 1]
  /\ canceled' = [canceled EXCEPT ![id] = TRUE]
  /\ clock'    = Stopped(id, k)
  /\ UNCHANGED <<counter, kind, gor, wg, pending, closed, done, pc, cur>>

ClearEntry(id, k) ==
  /\ JSRunning
  /\ id \in timers
  /\ canceled' = [canceled EXCEPT ![id] = TRUE]
  /\ clock'    = Stopped(id, k)
  /\ UNCHANGED <<counter, kind, timers, refs, gor, wg, pending, closed, done, pc, cur>>

ClearTimeout(id)  == ClearEntry(id, "timeout")
ClearInterval(id) == ClearEntry(id, "interval")
-----------------------------------------------------------------------------
(* Goroutines.                                                             *)

\* time.AfterFunc starts the goroutine when the delay has passed.
Fire(id) ==
  /\ kind[id] = "timeout"
  /\ clock[id] = "armed"
  /\ clock' = [clock EXCEPT ![id] = "fired"]
  /\ gor'   = [gor EXCEPT ![id] = "send"]
  /\ UNCHANGED <<data, wg, pending, closed, done, pc, cur>>

\* The send case of either goroutine's select, ready when there is room.
SendOrDrop(id) ==                    \* mutant: a send that does not block
  /\ gor[id] = "send"
  /\ pending' = IF Len(pending) < Capacity THEN Append(pending, id) ELSE pending
  /\ gor' = [gor EXCEPT ![id] = IF kind[id] = "timeout" THEN "exit" ELSE "select"]
  /\ UNCHANGED <<data, clock, wg, closed, done, pc, cur>>

Send(id) ==
  /\ gor[id] = "send"
  /\ Len(pending) < Capacity
  /\ pending' = Append(pending, id)
  /\ gor' = [gor EXCEPT ![id] = IF kind[id] = "timeout" THEN "exit" ELSE "select"]
  /\ UNCHANGED <<data, clock, wg, closed, done, pc, cur>>

\* The <-tm.done case, of both selects.  Only interval goroutines are
\* counted by the wait group.
QuitOnlyIdle(id) ==                  \* mutant: a send that ignores tm.done
  /\ gor[id] = "select"
  /\ done
  /\ gor' = [gor EXCEPT ![id] = "exit"]
  /\ wg'  = wg \ {id}
  /\ UNCHANGED <<data, clock, pending, closed, done, pc, cur>>

QuitOnlyInterval(id) ==              \* mutant: only the timeout's send ignores it
  /\ gor[id] \in {"select", "send"}
  /\ kind[id] = "interval"
  /\ done
  /\ gor' = [gor EXCEPT ![id] = "exit"]
  /\ wg'  = wg \ {id}
  /\ UNCHANGED <<data, clock, pending, closed, done, pc, cur>>

Quit(id) ==
  /\ gor[id] \in {"select", "send"}
  /\ done
  /\ gor' = [gor EXCEPT ![id] = "exit"]
  /\ wg'  = wg \ {id}
  /\ UNCHANGED <<data, clock, pending, closed, done, pc, cur>>

Tick(id) ==
  /\ gor[id] = "select"
  /\ clock[id] = "armed"
  /\ gor' = [gor EXCEPT ![id] = "check"]
  /\ UNCHANGED <<data, clock, wg, pending, closed, done, pc, cur>>

\* Go on to `next` when `alive`, else return (and wg.Done()).
Proceed(id, alive, next) ==
  /\ gor' = [gor EXCEPT ![id] = IF alive THEN next ELSE "exit"]
  /\ wg'  = IF alive THEN wg ELSE wg \ {id}
  /\ UNCHANGED <<data, clock, pending, closed, done, pc, cur>>

CheckClosed(id) == gor[id] = "check"  /\ Proceed(id, ~closed, "exists")
CheckExists(id) == gor[id] = "exists" /\ Proceed(id, id \in timers, "send")

Goroutine(id) ==
  Send(id) \/ Quit(id) \/ Tick(id) \/ CheckClosed(id) \/ CheckExists(id)
-----------------------------------------------------------------------------
(* ProcessPending.                                                         *)

ProcessPending ==
  /\ pc = "host"
  /\ ~closed
  /\ pc' = "loop"
  /\ UNCHANGED <<data, clock, gor, wg, pending, closed, done, cur>>

\* Whether the closure of id calls its function.
CallableUnlessClosed(id) == id \in timers /\ ~closed      \* mutant

Callable(id) == id \in timers /\ ~canceled[id] /\ ~closed

UnmapEvery(id) == IF closed THEN timers ELSE timers \ {id}     \* mutant

\* The closure of a timeout takes its entry out of the map first, and frees
\* the function itself even when it may not call it.  Once the manager is
\* closed the closures received are not run at all.
Unmap(id) ==
  IF kind[id] = "timeout" /\ ~closed THEN timers \ {id} ELSE timers

\* One iteration of the drain loop: receive a closure and run it up to the
\* call.
Receive ==
  /\ pc = "loop"
  /\ pending # << >>
  /\ pending' = Tail(pending)
  /\ LET id == Head(pending)
     IN  /\ timers' = Unmap(id)
         /\ \/ /\ Callable(id)
               /\ pc'  = "call"
               /\ cur' = id
               /\ UNCHANGED refs
            \/ /\ ~Callable(id)
               /\ refs' = IF id \in timers \ Unmap(id)
                          THEN [refs EXCEPT ![id] = @ - 1] ELSE refs
               /\ UNCHANGED <<pc, cur>>
  /\ UNCHANGED <<counter, kind, canceled, clock, gor, wg, closed, done>>

\* The callback returns or throws; its result and its error are dropped.
CallReturns ==
  /\ pc = "call"
  /\ pc'   = "loop"
  /\ cur'  = 0
  /\ refs' = IF kind[cur] = "timeout" THEN [refs EXCEPT ![cur] = @ - 1] ELSE refs
  /\ UNCHANGED <<counter, kind, timers, canceled, clock, gor, wg, pending, closed, done>>

\* The default case: the channel is empty.
ProcessPendingReturns ==
  /\ pc = "loop"
  /\ pending = << >>
  /\ pc' = "host"
  /\ UNCHANGED <<data, clock, gor, wg, pending, closed, done, cur>>

\* HasPending, as the event loop asks it between two rounds.
HasPendingQueued == pending # << >>  \* mutant: forgets the armed timers

HasPending == timers # {} \/ pending # << >>
-----------------------------------------------------------------------------
(* Close.                                                                  *)

CloseStore ==
  /\ pc = "host"
  /\ closed' = TRUE
  /\ pc' = "closing"
  /\ UNCHANGED <<data, clock, gor, wg, pending, done, cur>>

CloseDone ==
  /\ pc = "closing"
  /\ done' = TRUE
  /\ pc' = "wait"
  /\ UNCHANGED <<data, clock, gor, wg, pending, closed, cur>>

CloseDoesNotWait ==                  \* mutant: no wg.Wait()
  /\ pc = "wait"
  /\ pc' = "drain"
  /\ UNCHANGED <<data, clock, gor, wg, pending, closed, done, cur>>

CloseWait ==
  /\ pc = "wait"
  /\ wg = {}
  /\ pc' = "drain"
  /\ UNCHANGED <<data, clock, gor, wg, pending, closed, done, cur>>

CloseDrain ==
  /\ pc = "drain"
  /\ pending' = IF pending = << >> THEN pending ELSE Tail(pending)
  /\ pc' = IF pending = << >> THEN "free" ELSE "drain"
  /\ UNCHANGED <<data, clock, gor, wg, closed, done, cur>>

\* One iteration of the loop over the map, in any order.
CloseFree(id) ==
  /\ pc = "free"
  /\ id \in timers
  /\ canceled' = [canceled EXCEPT ![id] = TRUE]
  /\ clock'    = Stopped(id, kind[id])
  /\ refs'     = [refs EXCEPT ![id] = @ - 1]
  /\ timers'   = timers \ {id}
  /\ UNCHANGED <<counter, kind, gor, wg, pending, closed, done, pc, cur>>

CloseReturns ==
  /\ pc = "free"
  /\ timers = {}
  /\ pc' = "closed"
  /\ UNCHANGED <<data, clock, gor, wg, pending, closed, done, cur>>

Closing == CloseDone \/ CloseWait \/ CloseDrain \/ (\E id \in Ids : CloseFree(id)) \/ CloseReturns
-----------------------------------------------------------------------------
\* The manager is closed and every goroutine has ended.
Terminated ==
  /\ pc = "closed"
  /\ \A id \in Ids : gor[id] \in {"none", "exit"}
  /\ UNCHANGED vars

Next ==
  \/ SetTimeout
  \/ SetInterval
  \/ \E id \in Ids : ClearTimeout(id) \/ ClearInterval(id) \/ Fire(id) \/ Goroutine(id)
  \/ ProcessPending
  \/ Receive
  \/ CallReturns
  \/ ProcessPendingReturns
  \/ CloseStore
  \/ Closing
  \/ Terminated

Spec == Init /\ [][Next]_vars
-----------------------------------------------------------------------------
(* Properties.                                                             *)

\* What a script may expect of timer id, in the words of TimerContract.
StatusOf(id) ==
  IF kind[id] = "none" THEN "unset"
  ELSE IF canceled[id] THEN "cleared"
  ELSE IF id \in timers THEN kind[id] ELSE "spent"

\* The timer may still run its callback.
Active(id) == StatusOf(id) \in Kinds

Alive(id) == gor[id] \notin {"none", "exit"}

\* Every reference taken by Dup is given back exactly once: an entry owns one
\* while it is in the map or, for a timeout, while its callback runs after
\* the closure has taken it out; otherwise it owns none.  So no closure calls
\* or frees a function that was freed, and none is freed twice
\* (timer.go:74-87, 250-260).
RefBalance ==
  \A id \in Ids :
    refs[id] = IF id \in timers \/ (pc = "call" /\ cur = id) THEN 1 ELSE 0

\* An interval's goroutine and its closures look the entry up by id: the entry
\* stays in the map until Close frees it, and by then the goroutine has ended,
\* because the wait group counts exactly the goroutines still alive
\* (timer.go:139-175, 230-260).
IntervalOutlived ==
  \A id \in Ids : kind[id] = "interval" =>
    /\ Alive(id) <=> id \in wg
    /\ Alive(id) => pc \notin {"drain", "free", "closed"}
    /\ pc \notin {"free", "closed"} => id \in timers

\* Close gives back every reference, whatever was queued, in flight, cleared
\* or still armed when it began (timer.go:226-262).
NoLeakAtClose == pc = "closed" => \A id \in Ids : refs[id] = 0

\* The event loop may stop when HasPending is false: nothing is then on its
\* way to the channel, no clock that is still armed and no goroutine that is
\* still to send (timer.go:219-223).
HasPendingComplete ==
  (pc = "host" /\ ~HasPending) =>
    \A id \in Ids : clock[id] # "armed" /\ ~Alive(id)

-----------------------------------------------------------------------------
(* The inductive invariant the proofs of TimersProofs rest on.             *)

\* Main is between CloseStore and the end exactly when closed is set, has a
\* current callback exactly while it runs one, and ends with an empty map.
MainThread ==
  /\ closed <=> pc \notin {"host", "loop", "call"}
  /\ (cur # 0) <=> (pc = "call")
  /\ pc = "closed" => timers = {}

\* Ids are handed out in order; one not handed out yet has no trace anywhere.
IdsInOrder ==
  \A id \in Ids :
    /\ kind[id] = "none" <=> id > counter
    /\ kind[id] = "none" =>
         /\ id \notin timers /\ ~canceled[id]
         /\ clock[id] = "none" /\ gor[id] = "none"
         /\ \A i \in 1..Len(pending) : pending[i] # id

\* A running timeout has left the map, a running interval has not.
CurrentEntry ==
  pc = "call" =>
    /\ kind[cur] = "interval" => cur \in timers
    /\ kind[cur] # "interval" => kind[cur] = "timeout" /\ cur \notin timers

\* A timeout goes from its clock to its goroutine to the channel and is never
\* in two of the three; until it is received its entry stays in the map.
TimeoutPath ==
  \A id \in Ids : kind[id] = "timeout" =>
    /\ clock[id] = "armed" => gor[id] = "none"
    /\ (\E i \in 1..Len(pending) : pending[i] = id) => gor[id] = "exit"
    /\ gor[id] \in {"none", "send", "exit"}
    /\ (pc \notin {"free", "closed"} /\ (clock[id] = "armed" \/ Alive(id)))
         => id \in timers

\* What every reachable state satisfies, strong enough to be preserved by each
\* step from the states that satisfy it.
IInv ==
  /\ TypeOK
  /\ MainThread
  /\ IdsInOrder
  /\ CurrentEntry
  /\ TimeoutPath
  /\ RefBalance
  /\ IntervalOutlived
-----------------------------------------------------------------------------
(* Refinement.                                                             *)

\* The manager keeps the contract of the four functions: a timeout runs at
\* most once, nothing runs once cleared or once the manager is closed, ids
\* are not reused and callbacks do not overlap.
Contract == INSTANCE TimerContract
              WITH status <- [id \in Ids |-> StatusOf(id)], running <- cur

ContractSpec == Contract!Spec

-----------------------------------------------------------------------------
(* What the comments of timer.go say and the code does not do.             *)

\* "HasPending returns true if there are pending timers" (timer.go:218): when
\* it is true some timer may still run or some closure is on its way.
HasPendingSound ==
  (pc = "host" /\ HasPending) =>
    \/ pending # << >>
    \/ \E id \in Ids : Active(id) \/ gor[id] = "send"

\* "Close cancels all pending timers and waits for all goroutines to exit"
\* (timer.go:225).
CloseWaitsForAll == pc = "closed" => \A id \in Ids : ~Alive(id)
=============================================================================
