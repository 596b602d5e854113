----------------------------- MODULE Heartbeat -----------------------------
(***************************************************************************)
(* When the heartbeats of an 8080 connection are sent: the repeating timer  *)
(* DoConnect8080 starts on the base thread, which calls DoSendHeartBeat.    *)
(* Time goes in seconds; what is kept of it is how long ago the timer was    *)
(* started or last fired.  The base thread may be late: it may be blocked    *)
(* in a connect or on the mutex of the dialog.                              *)
(***************************************************************************)
EXTENDS Naturals

CONSTANTS
  Interval,   \* the argument of FromSeconds
  MaxLate     \* bound: seconds the base thread may be late

VARIABLES
  running,    \* repeatingTimer_ runs
  elapsed     \* seconds since it was started or fired

vars == <<running, elapsed>>

Init == running = FALSE /\ elapsed = 0

(* The end of DoConnect8080: a timer that runs is stopped, then started.   *)
StartTimer == running' = TRUE /\ elapsed' = 0

(* base::RepeatingTimer: DoSendHeartBeat runs when the delay is over, and   *)
(* the next delay is counted from then.                                     *)
DoSendHeartBeat ==
  /\ running /\ elapsed >= Interval
  /\ elapsed' = 0
  /\ UNCHANGED running

Second ==
  /\ running /\ elapsed < Interval + MaxLate
  /\ elapsed' = elapsed + 1
  /\ UNCHANGED running

Next == StartTimer \/ DoSendHeartBeat \/ Second
Spec == Init /\ [][Next]_vars

-----------------------------------------------------------------------------
(* Comment at GiftNotifyManager.cpp:477: a heartbeat is sent every 10       *)
(* seconds, give or take what the base thread may be late.                  *)
HeartbeatEveryTen == running => elapsed <= 10 + MaxLate
=============================================================================
