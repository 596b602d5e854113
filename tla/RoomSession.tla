----------------------------- MODULE RoomSession -----------------------------
(***************************************************************************)
(* Entering and leaving rooms: the UI thread (CFanXingDlg), the            *)
(* NetworkHelper it makes for each room, the GiftNotifyManager in it with   *)
(* its base::Thread and its two TcpClients, and the receiving thread of     *)
(* each client.  One session is one NetworkHelper: made by the Nav button,  *)
(* finalized by the next Nav or by the destructor of the dialog.            *)
(*                                                                         *)
(* What is kept of the data: which session a piece of received text came    *)
(* from, and the room a gift token is redeemed with.  The framing itself is *)
(* MixPackage, the message list NotifyQueue.                                *)
(*                                                                         *)
(* Asserts are those of a release build (none).                            *)
(***************************************************************************)
EXTENDS Integers, Sequences

CONSTANTS
  Rooms,         \* room numbers the user may type
  NoRoom,        \* value of the static roomid before the first EnterRoom
  NoOne,         \* the mutex is free
  GiftTries,     \* requests per token: 20 in the code
  MaxSessions,   \* bound: presses of the Nav button
  MaxChunks,     \* bound: chunks with data per 8080 connection
  MaxBeats       \* bound: heartbeats per session

ASSUME RoomAssumption == NoRoom \notin Rooms
ASSUME BoundAssumption ==
  /\ GiftTries \in Nat /\ MaxSessions \in Nat
  /\ MaxChunks \in Nat /\ MaxBeats \in Nat

Sessions == 1..MaxSessions
Clients == {"843", "8080"}

VARIABLES
  ui,          \* where the UI thread is
  session,     \* the current NetworkHelper, 0 when there is none
  wanted,      \* the room of the Nav being handled
  closing,     \* the Finalize being run is that of the destructor
  stopping,    \* the client being finalized
  roomid,      \* static roomid of NetworkHelper.cpp
  Packet,      \* global Packet of GiftNotifyManager.cpp: sessions its text is from
  roomOf,      \* the room each session asked for
  notify,      \* sessions whose notify601_ and normalNotify_ are set
  redeemed,    \* pairs <<session, room>> a token was redeemed for
  stopEvent, recvEvent, handle,   \* members of the TcpClients
  thr,         \* thr[s][c]: state of the receiving thread
  todo,        \* callbacks the 8080 thread of a session still has to make
  package,     \* sessions whose text is in the package it handles
  tasks,       \* tasks posted to the base thread
  base,        \* state of the base thread
  quit,        \* base::Thread::Stop has been called
  timer,       \* the heartbeat timer runs
  messageMutex, posted,   \* the dialog's mutex, a WM_USER_01 is pending
  timedOut,    \* history of the current session: clients whose wait timed out
  chunks, beats           \* counters of the bounds

uiVars == <<ui, session, wanted, closing, stopping>>
helperVars == <<roomid, roomOf, notify>>
clientVars == <<stopEvent, recvEvent, handle, thr>>
recvVars == <<Packet, todo, package, redeemed, chunks>>
baseVars == <<tasks, base, quit, timer, beats>>
dialogVars == <<messageMutex, posted>>
vars == <<uiVars, helperVars, clientVars, recvVars, baseVars, dialogVars, timedOut>>

PerClient(v) == [s \in Sessions |-> [c \in Clients |-> v]]

Init ==
  /\ ui = "loop" /\ session = 0 /\ wanted = NoRoom /\ closing = FALSE
  /\ stopping = "843"
  /\ roomid = NoRoom /\ roomOf = [s \in Sessions |-> NoRoom] /\ notify = {}
  /\ stopEvent = PerClient(FALSE) /\ recvEvent = PerClient(FALSE)
  /\ handle = PerClient(FALSE) /\ thr = PerClient("none")
  /\ Packet = {} /\ redeemed = {}
  /\ todo = [s \in Sessions |-> << >>] /\ package = [s \in Sessions |-> {}]
  /\ chunks = [s \in Sessions |-> 0]
  /\ tasks = [s \in Sessions |-> << >>] /\ base = [s \in Sessions |-> "none"]
  /\ quit = {} /\ timer = {} /\ beats = [s \in Sessions |-> 0]
  /\ messageMutex = NoOne /\ posted = FALSE
  /\ timedOut = {}

UIGoto(from, to) == ui = from /\ ui' = to

-----------------------------------------------------------------------------
(* The UI thread                                                           *)

(* Mutant: the new room number is stored before the old session is gone.   *)
NavSetsRoom(r) ==
  /\ session < MaxSessions
  /\ UIGoto("loop", IF session = 0 THEN "new" ELSE "final")
  /\ wanted' = r /\ closing' = FALSE /\ stopping' = "843" /\ roomid' = r
  /\ UNCHANGED <<session, roomOf, notify, clientVars, recvVars, baseVars, dialogVars, timedOut>>

(* OnBnClickedButtonNav: finalize the session there is, if any.            *)
Nav(r) ==
  /\ session < MaxSessions
  /\ UIGoto("loop", IF session = 0 THEN "new" ELSE "final")
  /\ wanted' = r /\ closing' = FALSE /\ stopping' = "843"
  /\ UNCHANGED <<session, helperVars, clientVars, recvVars, baseVars, dialogVars, timedOut>>

(* The destructor of the dialog.                                           *)
Close ==
  /\ UIGoto("loop", IF session = 0 THEN "closed" ELSE "final")
  /\ closing' = TRUE /\ stopping' = "843"
  /\ UNCHANGED <<session, wanted, helperVars, clientVars, recvVars, baseVars, dialogVars, timedOut>>

(* Mutant: the thread is terminated without waiting for it.                *)
SignalAndStop ==
  /\ UIGoto("final", "stop")
  /\ stopEvent' = [stopEvent EXCEPT ![session][stopping] = TRUE]
  /\ UNCHANGED <<session, wanted, closing, stopping, recvEvent, handle, thr,
                 helperVars, recvVars, baseVars, dialogVars, timedOut>>

(* TcpClient::Finalize, first of the 843 client, then of the 8080 client:  *)
(* SetEvent, wait at most five seconds for the answer, terminate.          *)
SignalStop ==
  /\ UIGoto("final", "wait")
  /\ stopEvent' = [stopEvent EXCEPT ![session][stopping] = TRUE]
  /\ UNCHANGED <<session, wanted, closing, stopping, recvEvent, handle, thr,
                 helperVars, recvVars, baseVars, dialogVars, timedOut>>

WaitAnswered ==
  /\ UIGoto("wait", "stop")
  /\ recvEvent[session][stopping]
  /\ recvEvent' = [recvEvent EXCEPT ![session][stopping] = FALSE]
  /\ UNCHANGED <<session, wanted, closing, stopping, stopEvent, handle, thr,
                 helperVars, recvVars, baseVars, dialogVars, timedOut>>

(* Mutant: the wait has no time limit.                                     *)
WaitForever == FALSE

WaitTimesOut ==
  /\ UIGoto("wait", "stop")
  /\ ~ recvEvent[session][stopping]
  /\ timedOut' = timedOut \cup {<<session, stopping>>}
  /\ UNCHANGED <<session, wanted, closing, stopping, clientVars, helperVars,
                 recvVars, baseVars, dialogVars>>

(* Mutant: the handle is dropped, the thread goes on.                       *)
StopDropsHandle ==
  /\ UIGoto("stop", IF stopping = "843" THEN "final" ELSE "quit")
  /\ handle' = [handle EXCEPT ![session][stopping] = FALSE]
  /\ stopping' = "8080"
  /\ UNCHANGED <<session, wanted, closing, stopEvent, recvEvent, thr, helperVars,
                 recvVars, baseVars, dialogVars, timedOut>>

(* Thread::Stop: TerminateThread, wherever the thread is.                  *)
StopThread ==
  /\ UIGoto("stop", IF stopping = "843" THEN "final" ELSE "quit")
  /\ handle' = [handle EXCEPT ![session][stopping] = FALSE]
  /\ thr' = [thr EXCEPT ![session][stopping] =
               IF handle[session][stopping] THEN "dead" ELSE @]
  /\ stopping' = "8080"
  /\ UNCHANGED <<session, wanted, closing, stopEvent, recvEvent, helperVars,
                 recvVars, baseVars, dialogVars, timedOut>>

(* base::Thread::Stop: ask the loop to quit when it is idle, then join.    *)
StopBase ==
  /\ UIGoto("quit", "join")
  /\ quit' = quit \cup {session}
  /\ UNCHANGED <<session, wanted, closing, stopping, tasks, base, timer, beats,
                 helperVars, clientVars, recvVars, dialogVars, timedOut>>

(* Mutant: StopSoon instead of Stop, nobody joins.                         *)
StopSoonOnly ==
  /\ UIGoto("join", IF closing THEN "closed" ELSE "new")
  /\ UNCHANGED <<session, wanted, closing, stopping, helperVars, clientVars,
                 recvVars, baseVars, dialogVars, timedOut>>

JoinBase ==
  /\ UIGoto("join", IF closing THEN "closed" ELSE "new")
  /\ base[session] = "exited"
  /\ UNCHANGED <<session, wanted, closing, stopping, helperVars, clientVars,
                 recvVars, baseVars, dialogVars, timedOut>>

(* network_.reset(new NetworkHelper), which deletes the NetworkHelper there  *)
(* was and the members it had; Initialize: two suspended receiving threads,  *)
(* the base thread started; SetNotify.                                      *)
CreateNetwork ==
  /\ UIGoto("new", "enter")
  /\ session' = session + 1
  /\ stopEvent' = PerClient(FALSE) /\ recvEvent' = PerClient(FALSE)
  /\ timedOut' = {}
  /\ handle' = [handle EXCEPT ![session'] = [c \in Clients |-> TRUE]]
  /\ thr' = [thr EXCEPT ![session'] = [c \in Clients |-> "suspended"]]
  /\ base' = [base EXCEPT ![session'] = "idle"]
  /\ todo' = [s \in Sessions |-> << >>] /\ package' = [s \in Sessions |-> {}]
  /\ chunks' = [s \in Sessions |-> 0] /\ beats' = [s \in Sessions |-> 0]
  /\ UNCHANGED <<wanted, closing, stopping, helperVars, Packet, redeemed, tasks,
                 quit, timer, dialogVars>>

(* Mutants: the room number is not stored; 8080 is connected to first.     *)
EnterKeepsRoom ==
  /\ UIGoto("enter", "request")
  /\ roomOf' = [roomOf EXCEPT ![session] = wanted]
  /\ UNCHANGED <<session, wanted, closing, stopping, roomid, notify, clientVars,
                 recvVars, baseVars, dialogVars, timedOut>>
EnterConnects ==
  /\ UIGoto("enter", "request")
  /\ roomid' = wanted
  /\ roomOf' = [roomOf EXCEPT ![session] = wanted]
  /\ tasks' = [tasks EXCEPT ![session] = Append(@, "8080")]
  /\ UNCHANGED <<session, wanted, closing, stopping, notify, clientVars,
                 recvVars, base, quit, timer, beats, dialogVars, timedOut>>

(* NetworkHelper::EnterRoom up to the HTTP request of the room service ... *)
EnterRoom ==
  /\ UIGoto("enter", "request")
  /\ roomid' = wanted
  /\ roomOf' = [roomOf EXCEPT ![session] = wanted]
  /\ UNCHANGED <<session, wanted, closing, stopping, notify, clientVars,
                 recvVars, baseVars, dialogVars, timedOut>>

(* ... which fails, or gives no user data, and the room is not entered ... *)
RequestFails ==
  /\ UIGoto("request", "loop")
  /\ UNCHANGED <<session, wanted, closing, stopping, helperVars, clientVars,
                 recvVars, baseVars, dialogVars, timedOut>>

(* Mutant: both tasks are posted before the callbacks are set.             *)
ConnectBoth ==
  /\ UIGoto("request", "callbacks")
  /\ tasks' = [tasks EXCEPT ![session] = @ \o <<"843", "8080">>]
  /\ UNCHANGED <<session, wanted, closing, stopping, helperVars, clientVars,
                 recvVars, base, quit, timer, beats, dialogVars, timedOut>>

(* ... or succeeds: Connect843 posts the first task ...                    *)
Connect843 ==
  /\ UIGoto("request", "callbacks")
  /\ tasks' = [tasks EXCEPT ![session] = Append(@, "843")]
  /\ UNCHANGED <<session, wanted, closing, stopping, helperVars, clientVars,
                 recvVars, base, quit, timer, beats, dialogVars, timedOut>>

(* ... Set601Notify and SetNormalNotify ...                                *)
SetCallbacks ==
  /\ UIGoto("callbacks", "post8080")
  /\ notify' = notify \cup {session}
  /\ UNCHANGED <<session, wanted, closing, stopping, roomid, roomOf, clientVars,
                 recvVars, baseVars, dialogVars, timedOut>>

(* ... and Connect8080 posts the second.                                   *)
Connect8080 ==
  /\ UIGoto("post8080", "loop")
  /\ tasks' = [tasks EXCEPT ![session] = Append(@, "8080")]
  /\ UNCHANGED <<session, wanted, closing, stopping, helperVars, clientVars,
                 recvVars, base, quit, timer, beats, dialogVars, timedOut>>

(* OnNotifyMessage: the handler wants the mutex, and has it for a moment.  *)
Dispatch ==
  /\ posted
  /\ UIGoto("loop", "lock")
  /\ posted' = FALSE
  /\ UNCHANGED <<session, wanted, closing, stopping, helperVars, clientVars,
                 recvVars, baseVars, messageMutex, timedOut>>

TakeMessages ==
  /\ UIGoto("lock", "loop")
  /\ messageMutex = NoOne
  /\ UNCHANGED <<session, wanted, closing, stopping, helperVars, clientVars,
                 recvVars, baseVars, dialogVars, timedOut>>

Finalizing == SignalStop \/ WaitAnswered \/ WaitTimesOut \/ StopThread \/ StopBase \/ JoinBase
Entering == CreateNetwork \/ EnterRoom \/ SetCallbacks \/ Connect8080
RequestReturns == RequestFails \/ Connect843
UIRuns == Finalizing \/ Entering \/ Dispatch \/ TakeMessages
UIStep == UIRuns \/ RequestReturns

-----------------------------------------------------------------------------
(* The base thread of session s                                            *)

BaseGoto(s, from, to) == base[s] = from /\ base' = [base EXCEPT ![s] = to]

(* Mutant: the text of the last connection is kept.                        *)
RememberPackage == UNCHANGED Packet

(* DoConnect8080 clears what an earlier connection left unfinished.        *)
ForgetPackage == Packet' = {}

(* DoConnect843, DoConnect8080: up to the blocking connect ...             *)
RunTask(s) ==
  /\ tasks[s] # << >>
  /\ BaseGoto(s, "idle", Head(tasks[s]))
  /\ tasks' = [tasks EXCEPT ![s] = Tail(@)]
  /\ \/ Head(tasks[s]) = "8080" /\ ForgetPackage
     \/ Head(tasks[s]) = "843" /\ UNCHANGED Packet
  /\ UNCHANGED <<uiVars, helperVars, clientVars, todo, package, redeemed, chunks,
                 quit, timer, beats, dialogVars, timedOut>>

(* Thread::Start resumes the thread, if its handle has not been dropped.   *)
Resume(s, c) ==
  thr' = [thr EXCEPT ![s][c] = IF handle[s][c] /\ @ = "suspended" THEN "check" ELSE @]

(* ... which succeeds: the receiving thread starts, the first package is    *)
(* sent, and for 8080 the timer of the heartbeat is started afresh ...      *)
Connected(s, c) ==
  /\ BaseGoto(s, c, "idle")
  /\ Resume(s, c)
  /\ timer' = IF c = "8080" THEN timer \cup {s} ELSE timer
  /\ UNCHANGED <<uiVars, helperVars, stopEvent, recvEvent, handle, recvVars,
                 tasks, quit, beats, dialogVars, timedOut>>

(* ... or fails.                                                           *)
ConnectFails(s, c) ==
  /\ BaseGoto(s, c, "idle")
  /\ UNCHANGED <<uiVars, helperVars, clientVars, recvVars, tasks, quit, timer,
                 beats, dialogVars, timedOut>>

(* DoSendHeartBeat sends, and reports it to the dialog.                    *)
Heartbeat(s) ==
  /\ s \in timer /\ beats[s] < MaxBeats
  /\ BaseGoto(s, "idle", "lock")
  /\ beats' = [beats EXCEPT ![s] = @ + 1]
  /\ UNCHANGED <<uiVars, helperVars, clientVars, recvVars, tasks, quit, timer,
                 dialogVars, timedOut>>

HeartbeatLock(s) ==
  /\ BaseGoto(s, "lock", "push")
  /\ messageMutex = NoOne
  /\ messageMutex' = <<s, "base">>
  /\ UNCHANGED <<uiVars, helperVars, clientVars, recvVars, tasks, quit, timer,
                 beats, posted, timedOut>>

HeartbeatPost(s) ==
  /\ BaseGoto(s, "push", "idle")
  /\ messageMutex' = NoOne /\ posted' = TRUE
  /\ UNCHANGED <<uiVars, helperVars, clientVars, recvVars, tasks, quit, timer,
                 beats, timedOut>>

(* The loop quits when it has been asked to and no task is left; a pending *)
(* heartbeat goes with it.                                                 *)
LoopQuits(s) ==
  /\ s \in quit /\ tasks[s] = << >>
  /\ BaseGoto(s, "idle", "exited")
  /\ timer' = timer \ {s}
  /\ UNCHANGED <<uiVars, helperVars, clientVars, recvVars, tasks, quit, beats,
                 dialogVars, timedOut>>

BaseStep(s) ==
  \/ RunTask(s) \/ HeartbeatLock(s) \/ HeartbeatPost(s) \/ LoopQuits(s)
  \/ \E c \in Clients : Connected(s, c) \/ ConnectFails(s, c)

-----------------------------------------------------------------------------
(* The receiving thread of client c of session s: TcpClient::DoRecv        *)

ThrGoto(s, c, from, to) == thr[s][c] = from /\ thr' = [thr EXCEPT ![s][c] = to]

(* The stop event is tested before every recv, and taken (auto-reset).     *)
TestStop(s, c) ==
  /\ ThrGoto(s, c, "check", IF stopEvent[s][c] THEN "leave" ELSE "recv")
  /\ stopEvent' = [stopEvent EXCEPT ![s][c] = FALSE]
  /\ UNCHANGED <<uiVars, helperVars, recvEvent, handle, recvVars, baseVars, dialogVars, timedOut>>

Answer(s, c) ==
  /\ ThrGoto(s, c, "leave", "exited")
  /\ recvEvent' = [recvEvent EXCEPT ![s][c] = TRUE]
  /\ UNCHANGED <<uiVars, helperVars, stopEvent, handle, recvVars, baseVars, dialogVars, timedOut>>

(* recv fails or the connection is closed; or data comes for the 843        *)
(* client, which has no notify function, or the 8080 client gets bytes that  *)
(* belong to no object.                                                    *)
RecvIgnored(s, c) ==
  /\ ThrGoto(s, c, "recv", "check")
  /\ UNCHANGED <<uiVars, helperVars, stopEvent, recvEvent, handle, recvVars,
                 baseVars, dialogVars, timedOut>>

Report(n) == [i \in 1..n |-> "report"]
Redeem(n) == [i \in 1..(2 * n) |-> IF i % 2 = 1 THEN "gift" ELSE "report"]

(* What GiftNotifyManager::Notify calls back for a package: a 601 with a    *)
(* token goes to NotifyCallback601, which makes GiftTries requests and       *)
(* reports each; then the raw text, and a message for some commands.         *)
Callbacks(token, outmsg) ==
  (IF token THEN Redeem(GiftTries) ELSE << >>) \o Report(IF outmsg THEN 2 ELSE 1)

(* Data on 8080 that ends no object: HandleMixPackage keeps this chunk.    *)
RecvPart(s) ==
  /\ chunks[s] < MaxChunks
  /\ ThrGoto(s, "8080", "recv", "check")
  /\ Packet' = {s}
  /\ chunks' = [chunks EXCEPT ![s] = @ + 1]
  /\ UNCHANGED <<uiVars, helperVars, stopEvent, recvEvent, handle, todo, package,
                 redeemed, baseVars, dialogVars, timedOut>>

(* ... or nothing, for a package it cannot parse.                          *)
Dispatches == {<< >>} \cup {Callbacks(token, outmsg) : token \in BOOLEAN, outmsg \in BOOLEAN}

(* Data that ends an object, and perhaps begins the next.                  *)
RecvPackage(s, callbacks, more) ==
  /\ chunks[s] < MaxChunks
  /\ ThrGoto(s, "8080", "recv", "notify")
  /\ package' = [package EXCEPT ![s] = Packet \cup {s}]
  /\ Packet' = IF more THEN {s} ELSE {}
  /\ todo' = [todo EXCEPT ![s] = callbacks]
  /\ chunks' = [chunks EXCEPT ![s] = @ + 1]
  /\ UNCHANGED <<uiVars, helperVars, stopEvent, recvEvent, handle, redeemed,
                 baseVars, dialogVars, timedOut>>

(* The next callback, or back to the loop of DoRecv.                       *)
NextCallback(s) ==
  /\ ThrGoto(s, "8080", "notify",
       IF todo[s] = << >> THEN "check"
       ELSE IF Head(todo[s]) = "gift" THEN "gift" ELSE "lock")
  /\ package' = [package EXCEPT ![s] = IF todo[s] = << >> THEN {} ELSE @]
  /\ todo' = [todo EXCEPT ![s] = IF @ = << >> THEN @ ELSE Tail(@)]
  /\ UNCHANGED <<uiVars, helperVars, stopEvent, recvEvent, handle, Packet,
                 redeemed, chunks, baseVars, dialogVars, timedOut>>

(* GiftService_GiftService(roomid, token): the room is the static roomid   *)
(* at the time of the request.                                             *)
GiftService(s) ==
  /\ ThrGoto(s, "8080", "gift", "notify")
  /\ redeemed' = redeemed \cup {<<s, roomid>>}
  /\ UNCHANGED <<uiVars, helperVars, stopEvent, recvEvent, handle, Packet, todo,
                 package, chunks, baseVars, dialogVars, timedOut>>

(* CFanXingDlg::Notify, the part under the mutex and the posted message.   *)
ReportLock(s) ==
  /\ ThrGoto(s, "8080", "lock", "push")
  /\ messageMutex = NoOne
  /\ messageMutex' = <<s, "8080">>
  /\ UNCHANGED <<uiVars, helperVars, stopEvent, recvEvent, handle, recvVars,
                 baseVars, posted, timedOut>>

ReportPost(s) ==
  /\ ThrGoto(s, "8080", "push", "notify")
  /\ messageMutex' = NoOne /\ posted' = TRUE
  /\ UNCHANGED <<uiVars, helperVars, stopEvent, recvEvent, handle, recvVars,
                 baseVars, timedOut>>

(* Steps a runnable thread takes by itself.                                *)
RecvRuns(s, c) ==
  \/ TestStop(s, c) \/ Answer(s, c)
  \/ c = "8080" /\ (NextCallback(s) \/ ReportLock(s) \/ ReportPost(s))

RecvStep(s, c) == RecvRuns(s, c) \/ (c = "8080" /\ GiftService(s))

Network(s) ==
  \/ RecvPart(s)
  \/ \E callbacks \in Dispatches, more \in BOOLEAN : RecvPackage(s, callbacks, more)
  \/ \E c \in Clients : RecvIgnored(s, c)

-----------------------------------------------------------------------------
Next ==
  \/ UIStep
  \/ \E r \in Rooms : Nav(r)
  \/ Close
  \/ \E s \in Sessions : BaseStep(s) \/ Heartbeat(s) \/ Network(s)
  \/ \E s \in Sessions, c \in Clients : RecvStep(s, c)

(* Threads run, connect returns, and the wait of Finalize ends after five    *)
(* seconds.  Nothing is assumed of the user, of the timer or of the servers:  *)
(* no time limit is set on an HTTP request (only keepalive probes), so that   *)
(* neither EnterRoom's nor that of a token need ever return.                 *)
Fairness ==
  /\ WF_vars(UIRuns)
  /\ \A s \in Sessions : WF_vars(BaseStep(s))
  /\ \A s \in Sessions, c \in Clients : WF_vars(RecvRuns(s, c))

Safety == Init /\ [][Next]_vars
Spec == Safety /\ Fairness

-----------------------------------------------------------------------------
(* Properties                                                              *)

InFinalize == {"final", "wait", "stop", "quit", "join"}
Working == {"notify", "gift", "lock", "push"}
Ended == {"none", "dead", "exited"}

(* Every variable has its type.                                            *)
TypeOK ==
  /\ ui \in {"loop", "lock", "new", "enter", "request", "callbacks",
             "post8080", "closed"} \cup InFinalize
  /\ session \in 0..MaxSessions
  /\ wanted \in Rooms \cup {NoRoom} /\ roomid \in Rooms \cup {NoRoom}
  /\ closing \in BOOLEAN /\ posted \in BOOLEAN
  /\ stopping \in Clients
  /\ roomOf \in [Sessions -> Rooms \cup {NoRoom}]
  /\ notify \subseteq Sessions /\ quit \subseteq Sessions /\ timer \subseteq Sessions
  /\ stopEvent \in [Sessions -> [Clients -> BOOLEAN]]
  /\ recvEvent \in [Sessions -> [Clients -> BOOLEAN]]
  /\ handle \in [Sessions -> [Clients -> BOOLEAN]]
  /\ thr \in [Sessions -> [Clients ->
         {"suspended", "check", "recv", "leave"} \cup Working \cup Ended]]
  /\ Packet \subseteq Sessions /\ package \in [Sessions -> SUBSET Sessions]
  /\ redeemed \subseteq Sessions \X Rooms
  /\ todo \in [Sessions -> Seq({"gift", "report"})]
  /\ tasks \in [Sessions -> Seq(Clients)]
  /\ base \in [Sessions -> {"none", "idle", "lock", "push", "exited"} \cup Clients]
  /\ messageMutex \in {NoOne} \cup (Sessions \X {"base", "8080"})
  /\ timedOut \subseteq Sessions \X Clients
  /\ chunks \in [Sessions -> 0..MaxChunks] /\ beats \in [Sessions -> 0..MaxBeats]

(* When Nav deletes a NetworkHelper, or the destructor of the dialog        *)
(* returns, no thread of it runs or can start, whatever task was pending    *)
(* and wherever its threads were (NetworkHelper::Finalize).                 *)
Finalized(s) == s < session \/ (s = session /\ ui \in {"new", "closed"})
NothingRunsAfterFinalize ==
  \A s \in Sessions : Finalized(s) =>
    base[s] \in {"none", "exited"} /\ \A c \in Clients : thr[s][c] \in Ended

(* A package handed to Notify never joins text of two connections, though   *)
(* Packet is one global for all of them.                                    *)
PackagesOfOneSession == \A s \in Sessions : package[s] \subseteq {s}

(* A token is redeemed in the room it was received from, though roomid is   *)
(* one static for all sessions and Nav writes it (NetworkHelper.cpp:66,118) *)
TokenOfItsRoom == \A s \in Sessions, r \in Rooms \cup {NoRoom} :
  <<s, r>> \in redeemed => r = roomOf[s]

(* The UI thread and the receiving thread never use the CurlWrapper of a    *)
(* session at the same time (NetworkHelper.cpp:69,118).                     *)
CurlNotShared == (session # 0 /\ ui = "request") => thr[session]["8080"] # "gift"

(* notify601_ and normalNotify_ are set before a thread can call them:      *)
(* EnterRoom sets them before it posts the task that connects to 8080.      *)
CallbacksSetBeforeUse == \A s \in Sessions :
  (thr[s]["8080"] \in Working \/ base[s] \in {"lock", "push"}) => s \in notify

(* A receiving thread that has not left its loop is terminated only when    *)
(* Finalize has waited five seconds for it in vain: one that answers the    *)
(* stop event is never cut off in the middle of a callback.                 *)
KilledOnlyAfterTimeout ==
  [][\A s \in Sessions, c \in Clients :
       (thr[s][c] \notin Ended /\ thr'[s][c] = "dead") => <<s, c>> \in timedOut]_vars

(* The visit the threads work for: it begins when EnterRoom has stored the   *)
(* room, and is over when Finalize has stopped everything.                  *)
visit == IF ui = "enter" THEN session - 1 ELSE session
Visiting == session # 0 /\ ui \notin {"new", "enter", "closed"}
Visit == INSTANCE RoomVisit WITH
  room <- IF visit = 0 THEN NoRoom ELSE roomOf[visit],
  in <- Visiting,
  unread <- posted

(* The sessions, with all their threads and tasks, implement the visits of    *)
(* RoomVisit: one at a time, tokens redeemed and news reported only inside    *)
(* one and for its room, nothing left of it once Nav makes the next.          *)
ImplementsVisits == Visit!Spec

(* The mutex of the dialog was held by a thread when it was terminated.     *)
Orphaned == \E s \in Sessions :
  messageMutex = <<s, "8080">> /\ thr[s]["8080"] = "dead"

(* EnterRoom's request is never answered: the UI thread waits for ever       *)
(* (NetworkHelper.cpp:69).                                                 *)
NeverAnswered == [](ui = "request")

(* The UI thread comes back to its message loop, from a Nav, from the        *)
(* destructor and from a WM_USER_01, unless a thread was killed with the      *)
(* mutex in its hands or the server never answers EnterRoom.  A token whose    *)
(* request is never answered does not stop it: its thread is terminated.     *)
UIReturns ==
  ui # "loop" ~> (ui \in {"loop", "closed"} \/ Orphaned \/ NeverAnswered)
=============================================================================
