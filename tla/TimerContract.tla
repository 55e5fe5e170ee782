--------------------------- MODULE TimerContract ---------------------------
(***************************************************************************)
(* What setTimeout, setInterval, clearTimeout and clearInterval promise a  *)
(* script, with no goroutine, channel or lock in sight: a timer is set     *)
(* once, runs its callback only while it is set and uncleared and the      *)
(* manager is open, and a timeout runs at most once.  Callbacks never      *)
(* overlap.  Module Timers implements this specification.                  *)
(***************************************************************************)
EXTENDS Naturals

CONSTANT MaxTimers        \* bound on the number of timers ever set

VARIABLES
  status,     \* what each timer id stands for
  running,    \* the timer whose callback is being executed, 0 when none is
  closed      \* the manager has been closed

vars == <<status, running, closed>>

Ids    == 1..MaxTimers
Kinds  == {"timeout", "interval"}
Status == Kinds \cup {"unset", "spent", "cleared"}

Init ==
  /\ status  = [id \in Ids |-> "unset"]
  /\ running = 0
  /\ closed  = FALSE

\* Ids are handed out in order and are never reused.
Set(id, kind) ==
  /\ ~closed
  /\ status[id] = "unset"
  /\ \A older \in Ids : older < id => status[older] # "unset"
  /\ status' = [status EXCEPT ![id] = kind]
  /\ UNCHANGED <<running, closed>>

Clear(id) ==
  /\ ~closed
  /\ status[id] \in Kinds
  /\ status' = [status EXCEPT ![id] = "cleared"]
  /\ UNCHANGED <<running, closed>>

\* A timeout is spent the moment its callback begins; an interval stays set.
Fire(id) ==
  /\ ~closed
  /\ running = 0
  /\ status[id] \in Kinds
  /\ running' = id
  /\ status' = IF status[id] = "timeout"
               THEN [status EXCEPT ![id] = "spent"] ELSE status
  /\ UNCHANGED closed

Return ==
  /\ running # 0
  /\ running' = 0
  /\ UNCHANGED <<status, closed>>

Close ==
  /\ ~closed
  /\ running = 0
  /\ closed' = TRUE
  /\ UNCHANGED <<status, running>>

\* A closed manager drops the timers that are still set.
Discard(id) ==
  /\ closed
  /\ status[id] \in Kinds
  /\ status' = [status EXCEPT ![id] = "cleared"]
  /\ UNCHANGED <<running, closed>>

Next ==
  \/ \E id \in Ids, kind \in Kinds : Set(id, kind)
  \/ \E id \in Ids : Clear(id) \/ Fire(id) \/ Discard(id)
  \/ Return
  \/ Close

Spec == Init /\ [][Next]_vars
============================================================================
