------------------------------ MODULE Fetches ------------------------------
(***************************************************************************)
(* FetchManager of src/polyfill/fetch.go: fetch() registers a promise and  *)
(* starts a goroutine for the HTTP request; the goroutine leaves the       *)
(* result in a one-place channel and signals the event loop; the loop's    *)
(* ProcessPending collects the results and settles the promises.           *)
(*                                                                         *)
(* One thread, main, runs all JavaScript and calls ProcessPending and      *)
(* Close.  fm.mu guards the list for single accesses only, so each access  *)
(* is one atomic step.  The event loop is the host program's: it waits on  *)
(* NotifyChan, as that method's comment asks, and polls when woken; it may *)
(* also poll unasked.                                                      *)
(***************************************************************************)
EXTENDS Integers, Sequences

CONSTANTS
  Fetch,       \* the calls of fetch() a run may make
  NotifyCap    \* capacity of the notify channel: 64 in the code

ASSUME FetchesAssumption == NotifyCap \in Nat \ {0}

VARIABLES
  promise,     \* promise[f]: the state of the promise fetch() returned
  held,        \* held[f]: the resolve/reject pairs the manager owns
  gor,         \* gor[f]: where the goroutine of the request stands
  done,        \* done[f]: the result in the channel of f, "empty" when none
  signals,     \* the number of signals in fm.notify
  pending,     \* fm.pending
  snapshot,    \* what ProcessPending has still to look at
  still,       \* its stillPending
  got,         \* the result it is settling a promise with
  pc           \* where the main thread stands

lists == <<pending, snapshot, still>>
vars  == <<promise, held, gor, done, signals, lists, got, pc>>

Results == {"ok", "err"}

TypeOK ==
  /\ promise \in [Fetch -> {"unset", "pending", "fulfilled", "rejected"}]
  /\ held \in [Fetch -> Int]
  /\ gor \in [Fetch -> {"none", "http", "notify", "exit"}]
  /\ done \in [Fetch -> Results \cup {"empty"}]
  /\ signals \in 0..NotifyCap
  /\ pending \in Seq(Fetch)
  /\ snapshot \in Seq(Fetch)
  /\ still \in Seq(Fetch)
  /\ got \in Results \cup {"none"}
  /\ pc \in {"idle", "woken", "loop", "settle", "closed"}

Init ==
  /\ promise  = [f \in Fetch |-> "unset"]
  /\ held     = [f \in Fetch |-> 0]
  /\ gor      = [f \in Fetch |-> "none"]
  /\ done     = [f \in Fetch |-> "empty"]
  /\ signals  = 0
  /\ pending  = << >>
  /\ snapshot = << >>
  /\ still    = << >>
  /\ got      = "none"
  /\ pc       = "idle"
-----------------------------------------------------------------------------
(* The script.  A definition marked "mutant" is the code with a likely     *)
(* slip, kept to show which property notices it; the specification uses    *)
(* none of them.                                                           *)

\* A script runs between two polls, and also inside one: building the
\* Response of a fetch that succeeded and resolving a promise with it looks
\* up properties a script may have replaced by accessors.
JSRunning == pc = "idle" \/ (pc = "settle" /\ got = "ok")

CallFetch(f) ==
  /\ JSRunning
  /\ promise[f] = "unset"
  /\ promise' = [promise EXCEPT ![f] = "pending"]
  /\ held'    = [held EXCEPT ![f] = @ + 1]
  /\ pending' = Append(pending, f)
  /\ gor'     = [gor EXCEPT ![f] = "http"]
  /\ UNCHANGED <<done, signals, snapshot, still, got, pc>>
-----------------------------------------------------------------------------
(* The goroutine of a request.                                             *)

CompleteQuietOnError(f, r) ==        \* mutant: one error path forgets to signal
  /\ gor[f] = "http"
  /\ done' = [done EXCEPT ![f] = r]
  /\ gor'  = [gor EXCEPT ![f] = IF r = "err" THEN "exit" ELSE "notify"]
  /\ UNCHANGED <<promise, held, signals, lists, got, pc>>

\* The request ends: with a response whose body was read, or with an error
\* of NewRequest, of Do or of reading the body.  The channel has room.
Complete(f, r) ==
  /\ gor[f] = "http"
  /\ done' = [done EXCEPT ![f] = r]
  /\ gor'  = [gor EXCEPT ![f] = "notify"]
  /\ UNCHANGED <<promise, held, signals, lists, got, pc>>

\* A plain send: it waits while the channel is full.
Notify(f) ==
  /\ gor[f] = "notify"
  /\ signals < NotifyCap
  /\ signals' = signals + 1
  /\ gor'  = [gor EXCEPT ![f] = "exit"]
  /\ UNCHANGED <<promise, held, done, lists, got, pc>>
-----------------------------------------------------------------------------
(* The event loop.                                                         *)

\* The host's select receives a signal; it polls next.
Wake ==
  /\ pc = "idle"
  /\ signals > 0
  /\ signals' = signals - 1
  /\ pc' = "woken"
  /\ UNCHANGED <<promise, held, gor, done, lists, got>>

ProcessPendingKeepsList ==           \* mutant: fm.pending is not cleared
  /\ pc \in {"idle", "woken"}
  /\ pc' = IF pending = << >> THEN "idle" ELSE "loop"
  /\ snapshot' = pending
  /\ UNCHANGED <<promise, held, gor, done, signals, pending, still, got>>

\* ProcessPending up to its loop: return at once, or take the whole list.
ProcessPending ==
  /\ pc \in {"idle", "woken"}
  /\ pc' = IF pending = << >> THEN "idle" ELSE "loop"
  /\ snapshot' = pending
  /\ pending'  = << >>
  /\ UNCHANGED <<promise, held, gor, done, signals, still, got>>

KeepForgets ==                       \* mutant: not appended to stillPending
  /\ pc = "loop" /\ snapshot # << >>
  /\ done[Head(snapshot)] = "empty"
  /\ snapshot' = Tail(snapshot)
  /\ UNCHANGED <<promise, held, gor, done, signals, pending, still, got, pc>>

\* The default case: the request has not ended.
Keep ==
  /\ pc = "loop" /\ snapshot # << >>
  /\ done[Head(snapshot)] = "empty"
  /\ still' = Append(still, Head(snapshot))
  /\ snapshot' = Tail(snapshot)
  /\ UNCHANGED <<promise, held, gor, done, signals, pending, got, pc>>

\* The result is taken from the channel; Settle acts on it.
Collect ==
  /\ pc = "loop" /\ snapshot # << >>
  /\ LET f == Head(snapshot)
     IN  /\ done[f] # "empty"
         /\ got'  = done[f]
         /\ done' = [done EXCEPT ![f] = "empty"]
  /\ pc' = "settle"
  /\ UNCHANGED <<promise, held, gor, signals, lists>>

SettleKeepsHandlesOnError ==         \* mutant: an early continue on errors
  /\ pc = "settle"
  /\ LET f == Head(snapshot)
     IN  /\ promise' = [promise EXCEPT ![f] = IF got = "ok" THEN "fulfilled" ELSE "rejected"]
         /\ held' = [held EXCEPT ![f] = IF got = "ok" THEN @ - 1 ELSE @]
  /\ snapshot' = Tail(snapshot)
  /\ got' = "none"
  /\ pc'  = "loop"
  /\ UNCHANGED <<gor, done, signals, pending, still>>

\* Resolve with a Response or reject with the message, then free both
\* functions.
Settle ==
  /\ pc = "settle"
  /\ LET f == Head(snapshot)
     IN  /\ promise' = [promise EXCEPT ![f] = IF got = "ok" THEN "fulfilled" ELSE "rejected"]
         /\ held' = [held EXCEPT ![f] = @ - 1]
  /\ snapshot' = Tail(snapshot)
  /\ got' = "none"
  /\ pc'  = "loop"
  /\ UNCHANGED <<gor, done, signals, pending, still>>

ReturnOverwrites ==                  \* mutant: forgets what a script added meanwhile
  /\ pc = "loop" /\ snapshot = << >>
  /\ pending' = still
  /\ still' = << >>
  /\ pc' = "idle"
  /\ UNCHANGED <<promise, held, gor, done, signals, snapshot, got>>

\* What is still to come goes behind what a script added meanwhile.
ProcessPendingReturns ==
  /\ pc = "loop" /\ snapshot = << >>
  /\ pending' = pending \o still
  /\ still' = << >>
  /\ pc' = "idle"
  /\ UNCHANGED <<promise, held, gor, done, signals, snapshot, got>>

\* HasPending, as the event loop asks it between two polls.
HasPending == pending # << >>
-----------------------------------------------------------------------------
Listed(f, list) == \E i \in DOMAIN list : list[i] = f

\* Close: take a result that came in, free the functions of every fetch
\* still listed and forget the list.  Their promises stay pending for ever.
Close ==
  /\ pc = "idle"
  /\ done' = [f \in Fetch |-> IF Listed(f, pending) THEN "empty" ELSE done[f]]
  /\ held' = [f \in Fetch |-> IF Listed(f, pending) THEN held[f] - 1 ELSE held[f]]
  /\ pending' = << >>
  /\ pc' = "closed"
  /\ UNCHANGED <<promise, gor, signals, snapshot, still, got>>

\* The manager is closed; each goroutine has ended, or waits for ever for
\* room among signals nobody receives.
Terminated ==
  /\ pc = "closed"
  /\ \A f \in Fetch : gor[f] # "http" /\ (gor[f] = "notify" => signals = NotifyCap)
  /\ UNCHANGED vars

Next ==
  \/ \E f \in Fetch : CallFetch(f) \/ (\E r \in Results : Complete(f, r)) \/ Notify(f)
  \/ Wake
  \/ ProcessPending
  \/ Keep
  \/ Collect
  \/ Settle
  \/ ProcessPendingReturns
  \/ Close
  \/ Terminated

Spec == Init /\ [][Next]_vars
-----------------------------------------------------------------------------
(* Properties.                                                             *)

Tracked(f) == Listed(f, pending) \/ Listed(f, snapshot) \/ Listed(f, still)

Once(list) == \A i, j \in DOMAIN list : list[i] = list[j] => i = j

\* Until the manager is closed a fetch whose promise is pending is in exactly
\* one of the three lists, once, and any other in none: a poll interrupted by
\* scripts that start further fetches neither loses nor doubles one
\* (fetch.go:82-121).
TrackedOnce ==
  /\ \A f \in Fetch : Tracked(f) <=> (promise[f] = "pending" /\ pc # "closed")
  /\ Once(pending) /\ Once(snapshot) /\ Once(still)
  /\ \A f \in Fetch :
       /\ ~(Listed(f, pending) /\ Listed(f, snapshot))
       /\ ~(Listed(f, pending) /\ Listed(f, still))
       /\ ~(Listed(f, snapshot) /\ Listed(f, still))

\* The manager owns the resolve and reject functions of exactly the fetches
\* it tracks: they are freed once, by the poll that settles the promise or by
\* Close (fetch.go:108-109, 137-145).
HandlesBalance == \A f \in Fetch : held[f] = IF Tracked(f) THEN 1 ELSE 0

\* HasPending answers for the promises: it is true between two polls exactly
\* when a promise is unsettled (fetch.go:127-131).
HasPendingExact ==
  pc = "idle" => (HasPending <=> \E f \in Fetch : promise[f] = "pending")

\* The loop never sleeps on a result: when it is about to wait and a result
\* has come in, a signal is in the channel or about to be sent.  The result
\* is in its channel before the signal is sent, and a signal received is
\* followed by a poll (fetch.go:65-69, 305-306, 316-317, 324-325, 329-337).
NoLostWakeup ==
  (pc = "idle" /\ \E f \in Fetch : done[f] # "empty") =>
    signals > 0 \/ \E f \in Fetch : gor[f] = "notify"

-----------------------------------------------------------------------------
(* The inductive invariant the proofs of FetchesProofs rest on.            *)

\* The lists of a poll are empty outside it, and the fetch being settled is
\* the first of the snapshot.
PollLists ==
  /\ pc \notin {"loop", "settle"} => snapshot = << >> /\ still = << >>
  /\ pc = "settle" <=> got # "none"
  /\ pc = "settle" => snapshot # << >> /\ done[Head(snapshot)] = "empty"
  /\ pc = "closed" => pending = << >>

\* A request under way, or a result that waits to be collected, belongs to a
\* promise that is still pending.
RequestPending ==
  \A f \in Fetch :
    /\ gor[f] = "none" <=> promise[f] = "unset"
    /\ gor[f] = "http" => promise[f] = "pending" /\ done[f] = "empty"
    /\ done[f] # "empty" => promise[f] = "pending"
    /\ pc = "settle" /\ f = Head(snapshot) => gor[f] # "http"

\* A result the poll under way will not see has its signal still to come.
SignalToCome ==
  pc \in {"idle", "loop", "settle"} =>
    \A f \in Fetch : (done[f] # "empty" /\ ~Listed(f, snapshot)) =>
      signals > 0 \/ \E g \in Fetch : gor[g] = "notify"

IInv ==
  /\ TypeOK
  /\ PollLists
  /\ RequestPending
  /\ TrackedOnce
  /\ HandlesBalance
  /\ SignalToCome
-----------------------------------------------------------------------------
(* What a comment of fetch.go says and the code does not do.               *)

\* "non-blocking signal when a fetch completes" (fetch.go:55): a goroutine
\* that is to signal can do so.
NotifyNonBlocking ==
  \A f \in Fetch : gor[f] = "notify" => ENABLED Notify(f)
=============================================================================
