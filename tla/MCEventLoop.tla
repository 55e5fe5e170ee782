---------------------------- MODULE MCEventLoop -----------------------------
(* A timer beside two fetches that compete for the signal, and two timers   *)
(* that compete for the channel.                                            *)
EXTENDS EventLoop

MCBudgets == {[timers |-> 1, fetches |-> 2], [timers |-> 2, fetches |-> 0]}
=============================================================================
