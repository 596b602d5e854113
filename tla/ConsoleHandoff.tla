--------------------------- MODULE ConsoleHandoff ---------------------------
(***************************************************************************)
(* The console prototype (FanxingMain), from its start (ConsoleStart) on: the  *)
(* receiving threads of its two TcpClients hand commands to the main thread   *)
(* through globals, a mutex for the announcers (g_mtx_601), and a mutex with a *)
(* condition variable for the wake-up (g_mtx, g_cv); the main thread redeems   *)
(* gift tokens or prints.                                                  *)
(*                                                                         *)
(* The main thread waits without a predicate and reads the globals with no   *)
(* mutex held.  Tokens are numbered as they arrive, 0 is the empty string.   *)
(* A string read while it is assigned is the old one, the new one, or        *)
(* neither (Torn).  g_data is only printed and left out; so is the body of    *)
(* the gift requests, which nobody reads.                                   *)
(***************************************************************************)
EXTENDS ConsoleStart

CONSTANTS
  GiftTries,    \* requests per wake-up: 10 in the code
  MaxPackages   \* bound: packages received, over all threads

ASSUME BoundAssumption == GiftTries \in Nat \ {0} /\ MaxPackages \in Nat

Receivers == {843, 8080}   \* the receiving threads, by the port they listen to
NoOne == 0                 \* a mutex is free
Torn == -1                 \* a string read while it was assigned

VARIABLES
  i,              \* the i of the gift loop of RunTest
  pc, job,        \* where a receiver is, and the command it announces
  token,          \* the token in its package, 0 if there is none
  g_mtx_601, g_mtx,
  g_commandid, g_key,
  received,       \* counter of the bound
  redeemed,       \* history: keys given to GiftService
  rung,           \* history: tokens announced before main read the command
  overtaken       \* history: those another announcement came after too soon

threadVars == <<pc, job, token, received>>
mutexVars == <<g_mtx_601, g_mtx>>
globalVars == <<g_commandid, g_key>>
historyVars == <<redeemed, rung, overtaken>>
handoffVars == <<i, threadVars, mutexVars, globalVars, historyVars>>
vars == <<startVars, handoffVars>>

Tokens == 1..MaxPackages

Init ==
  /\ StartInit /\ i = 0
  /\ pc = [t \in Receivers |-> "recv"] /\ job = [t \in Receivers |-> 0]
  /\ token = [t \in Receivers |-> 0] /\ received = 0
  /\ g_mtx_601 = NoOne /\ g_mtx = NoOne /\ g_commandid = 0 /\ g_key = 0
  /\ redeemed = {} /\ rung = {} /\ overtaken = {}

-----------------------------------------------------------------------------
(* A receiver: TcpClient::DoRecv, GiftNotifyManager::Notify, and the two      *)
(* functions of FanxingMain.cpp it calls.                                   *)

Goto(t, from, to) == pc[t] = from /\ pc' = [pc EXCEPT ![t] = to]

(* A client receives once it is connected.  The callbacks are plain pointers   *)
(* and not initialized: a call before they are set ends the program.         *)
Recv(t) ==
  /\ pc[t] = "recv" /\ received < MaxPackages
  /\ t \in connected /\ main # "ended"
  /\ received' = received + 1 /\ alive' = TRUE
  /\ IF callbacks
     THEN /\ Goto(t, "recv", "lock601") /\ UNCHANGED main
          /\ job' = [job EXCEPT ![t] = 0]
          /\ \E key \in {0, received + 1} : token' = [token EXCEPT ![t] = key]
     ELSE main' = "ended" /\ UNCHANGED <<pc, job, token>>
  /\ UNCHANGED <<i, bodyVars, handleVars, callbacks, connected, sent, beating,
                 mutexVars, globalVars, historyVars>>

(* Mutant: the functions are called without Lock.                           *)
NoLock601(t) ==
  /\ Goto(t, "lock601", "command")
  /\ UNCHANGED <<startVars, i, job, token, received, mutexVars, globalVars, historyVars>>

Lock601(t) ==
  /\ g_mtx_601 = NoOne /\ g_mtx_601' = t
  /\ Goto(t, "lock601", "command")
  /\ UNCHANGED <<startVars, i, job, token, received, g_mtx, globalVars, historyVars>>

SetCommand(t) ==
  /\ Goto(t, "command", "assign")
  /\ g_commandid' = job[t]
  /\ overtaken' = overtaken \cup (rung \ redeemed)
  /\ UNCHANGED <<startVars, i, job, token, received, mutexVars, g_key, redeemed, rung>>

(* The end of the assignment; until then it may have begun.                 *)
AssignKey(t) ==
  /\ Goto(t, "assign", "ring")
  /\ g_key' = IF job[t] = 601 THEN token[t] ELSE g_key
  /\ UNCHANGED <<startVars, i, job, token, received, mutexVars, g_commandid, historyVars>>

(* g_mtx is taken, and the main thread woken if it waits.                    *)
NotifyOne(t) ==
  /\ g_mtx = NoOne /\ g_mtx' = t
  /\ Goto(t, "ring", "unlock601")
  /\ main' = IF main = "waiting" THEN "woken" ELSE main
  /\ rung' = IF job[t] = 601 /\ main \in {"waiting", "woken", "read"}
             THEN rung \cup {token[t]} ELSE rung
  /\ UNCHANGED <<i, bodyVars, handleVars, netVars, job, token, received, g_mtx_601, globalVars,
                 redeemed, overtaken>>

Unlock601(t) ==
  /\ Goto(t, "unlock601", "release")
  /\ g_mtx_601' = NoOne
  /\ UNCHANGED <<startVars, i, job, token, received, g_mtx, globalVars, historyVars>>

(* lck ends; after the text the token of the package is announced.          *)
Release(t) ==
  /\ g_mtx' = NoOne
  /\ IF job[t] = 0 /\ token[t] # 0
     THEN Goto(t, "release", "lock601") /\ job' = [job EXCEPT ![t] = 601]
     ELSE Goto(t, "release", "recv") /\ UNCHANGED job
  /\ UNCHANGED <<startVars, i, token, received, g_mtx_601, globalVars, historyVars>>

Notify(t) ==
  Lock601(t) \/ SetCommand(t) \/ AssignKey(t) \/ NotifyOne(t) \/ Unlock601(t) \/ Release(t)

-----------------------------------------------------------------------------
(* The main thread: RunTest, in its loop.                                   *)

(* Mutant: the mutex is not given back while waiting.                       *)
WaitBeginsLocked ==
  /\ Step("wait", "waiting")
  /\ g_mtx = NoOne /\ g_mtx' = CHOOSE t \in Receivers : TRUE
  /\ UNCHANGED <<i, bodyVars, handleVars, netVars, threadVars, g_mtx_601, globalVars, historyVars>>

(* Wait: g_mtx is taken, and given back as the wait begins ...              *)
WaitBegins ==
  /\ Step("wait", "waiting") /\ g_mtx = NoOne
  /\ UNCHANGED <<i, bodyVars, handleVars, netVars, threadVars, mutexVars, globalVars, historyVars>>

(* ... it may end for no reason ...                                         *)
SpuriousWake ==
  /\ Step("waiting", "woken")
  /\ UNCHANGED <<i, bodyVars, handleVars, netVars, threadVars, mutexVars, globalVars, historyVars>>

(* ... and ends with g_mtx taken, which the end of Wait gives back.          *)
WaitEnds ==
  /\ Step("woken", "read") /\ g_mtx = NoOne
  /\ UNCHANGED <<i, bodyVars, handleVars, netVars, threadVars, mutexVars, globalVars, historyVars>>

(* The command is read; the data is printed, or the gift loop begins.       *)
ReadCommand ==
  /\ IF g_commandid = 601
     THEN Step("read", "gift") /\ i' = 0
     ELSE Step("read", "wait") /\ UNCHANGED i
  /\ UNCHANGED <<bodyVars, handleVars, netVars, threadVars, mutexVars, globalVars, historyVars>>

(* What a read of g_key may give.                                           *)
KeysRead ==
  {g_key} \cup UNION {{token[t], Torn} : t \in {r \in Receivers : pc[r] = "assign" /\ job[r] = 601}}

(* Mutant: the loop runs once more.                                         *)
NextTryOneMore ==
  /\ IF i < GiftTries THEN Step("gift", "gift") ELSE Step("gift", "wait")
  /\ i' = i + 1

NextTry ==
  /\ IF i + 1 < GiftTries THEN Step("gift", "gift") ELSE Step("gift", "wait")
  /\ i' = i + 1

(* One request of the loop, a second after the last, with the key of now: it   *)
(* is not sent, or performed ...                                           *)
GiftService ==
  /\ main = "gift"
  /\ \E key \in KeysRead : redeemed' = redeemed \cup {key}
  /\ \/ Unsent /\ NextTry
     \/ Perform(TRUE) /\ UNCHANGED <<main, i>>
  /\ UNCHANGED <<user, netVars, threadVars, mutexVars, globalVars, rung, overtaken>>

(* ... and what it returned is not looked at.                               *)
GiftReturns ==
  /\ main = "gift" /\ NextTry
  /\ Broken({}) \/ Answered({}, FALSE)
  /\ UNCHANGED <<user, netVars, threadVars, mutexVars, globalVars, historyVars>>

(* What main does by itself once it runs.                                   *)
MainRuns == WaitBegins \/ WaitEnds \/ ReadCommand \/ GiftService

RunTest ==
  \/ MainRuns \/ GiftReturns
  \/ Start /\ UNCHANGED handoffVars

Next ==
  \/ RunTest \/ SpuriousWake
  \/ SendHeartBeat /\ UNCHANGED handoffVars
  \/ \E t \in Receivers : Recv(t) \/ Notify(t)

(* A runnable thread runs, and a mutex is not withheld for ever.  No request  *)
(* need return (no time limit is set on one), the start need not succeed,     *)
(* nothing has to be received, and no wake-up has to be spurious.            *)
Fairness == WF_vars(MainRuns) /\ \A t \in Receivers : WF_vars(Notify(t))

Spec == Init /\ [][Next]_vars /\ Fairness

-----------------------------------------------------------------------------
(* The variables have their types.                                         *)
TypeOK ==
  /\ StartTypeOK
  /\ main \in DOMAIN Requests \cup {"extract", "connect843", "set", "connect8080", "send", "start",
              "wait", "waiting", "woken", "read", "gift", "ended"}
  /\ i \in 0..GiftTries
  /\ pc \in [Receivers ->
             {"recv", "lock601", "command", "assign", "ring", "unlock601", "release"}]
  /\ job \in [Receivers -> {0, 601}] /\ token \in [Receivers -> {0} \cup Tokens]
  /\ received \in 0..MaxPackages
  /\ {g_mtx_601, g_mtx} \subseteq Receivers \cup {NoOne}
  /\ g_commandid \in {0, 601} /\ g_key \in {0} \cup Tokens
  /\ redeemed \subseteq {0, Torn} \cup Tokens
  /\ rung \subseteq Tokens /\ overtaken \subseteq rung

(* FanxingMain.cpp:52-76, 121-141: a token announced before the main thread  *)
(* reads the command is redeemed, unless another announcement begins first.  *)
(* (A token announced while main is busy with a gift has no such promise.)  *)
RungServed ==
  \A k \in Tokens : (k \in rung) ~> (k \in redeemed \cup overtaken)

(* Two mutexes taken in one order, the second shared with the waiting main   *)
(* thread: an announcer always gets back to recv.                           *)
NotifierReturns == \A t \in Receivers : (pc[t] # "recv") ~> (pc[t] = "recv")
=============================================================================
