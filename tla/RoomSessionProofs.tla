-------------------------- MODULE RoomSessionProofs --------------------------
(***************************************************************************)
(* Proofs about RoomSession, for any set of rooms and any number of sessions, *)
(* chunks, heartbeats and tries.                                           *)
(***************************************************************************)
EXTENDS RoomSession, SequenceTheorems, TLAPS

Idle == {"none", "exited"}         \* a base thread that does nothing
Asleep == Ended \cup {"suspended"} \* a receiving thread that does nothing

(* What the place of the UI thread says of the session being handled.       *)
StageInv ==
  /\ ui \notin {"loop", "lock", "new", "closed"} => session # 0
  /\ (ui = "new" \/ (ui \in InFinalize /\ ~ closing)) => session < MaxSessions
  /\ wanted \in Rooms \/ (session = 0 /\ ui \in {"loop", "lock", "closed"})

(* A thread whose handle is gone has ended, and only the session being used,  *)
(* or being finalized, has handles.                                        *)
HandleInv == \A s \in Sessions, c \in Clients :
  /\ handle[s][c] =>
       /\ s = session /\ ui \notin {"quit", "join", "new", "closed"}
       /\ (ui \in {"final", "wait", "stop"} /\ stopping = "8080") => c = "8080"
  /\ ~ handle[s][c] => thr[s][c] \in Ended

(* The base thread of a session that is not there yet, or is finalized.      *)
BaseInv == \A s \in Sessions :
  (s # session \/ ui \in {"new", "closed"}) => base[s] \in Idle

(* No task in a queue connects to 8080.                                      *)
No8080(posts) == \A i \in 1..Len(posts) : posts[i] # "8080"

(* Until its callbacks are set a session is told to connect to 843 only.      *)
NotifyInv ==
  /\ \A s \in notify : s <= session
  /\ ui \in {"enter", "request", "callbacks"} => session \notin notify
  /\ ui = "post8080" => session \in notify
  /\ \A s \in Sessions : s \notin notify =>
       /\ thr[s]["8080"] \in Asleep
       /\ base[s] \notin {"8080", "lock", "push"} /\ s \notin timer
       /\ No8080(tasks[s])
  /\ \A p \in redeemed : p[1] \in notify

(* The static roomid is that of the session from its EnterRoom to the next.   *)
RoomInv == (session # 0 /\ ui # "enter") => roomid \in Rooms /\ roomid = roomOf[session]

(* Packet has text of the one connection that is made, or being made.        *)
PacketInv == \A s \in Sessions :
  (base[s] = "8080" \/ thr[s]["8080"] \notin Asleep) => Packet \subseteq {s}

(* A receiving thread that answered has left its loop; and what Finalize      *)
(* terminates has answered, or was waited for.                             *)
AnswerInv ==
  /\ \A s \in Sessions, c \in Clients : recvEvent[s][c] => thr[s][c] \in Ended
  /\ ui = "stop" => <<session, stopping>> \in timedOut \/ thr[session][stopping] \in Ended

(* The inductive invariant.                                                  *)
IInv ==
  /\ TypeOK /\ StageInv /\ HandleInv /\ BaseInv /\ NotifyInv /\ RoomInv /\ PacketInv
  /\ AnswerInv /\ PackagesOfOneSession /\ TokenOfItsRoom

(* Before the first Nav there is no session and no thread.                  *)
LEMMA InitInv == Init => IInv
<1> USE RoomAssumption, BoundAssumption DEF Init, PerClient, Clients
<1>1. ASSUME Init  PROVE TypeOK
  <2>1. /\ stopEvent \in [Sessions -> [Clients -> BOOLEAN]]
        /\ recvEvent \in [Sessions -> [Clients -> BOOLEAN]]
        /\ handle \in [Sessions -> [Clients -> BOOLEAN]]
    BY <1>1
  <2>2. thr \in [Sessions -> [Clients -> {"none"}]]
    BY <1>1
  <2>3. todo \in [Sessions -> Seq({"gift", "report"})] /\ tasks \in [Sessions -> Seq(Clients)]
    BY <1>1
  <2>4. chunks \in [Sessions -> 0..MaxChunks] /\ beats \in [Sessions -> 0..MaxBeats]
    BY <1>1
  <2>5. base \in [Sessions -> {"none"}]
    BY <1>1
  <2>6. roomOf \in [Sessions -> {NoRoom}] /\ package \in [Sessions -> SUBSET Sessions]
    BY <1>1
  <2>7. thr \in [Sessions -> [Clients ->
          {"suspended", "check", "recv", "leave"} \cup Working \cup Ended]]
    BY <2>2 DEF Ended
  <2>8. /\ ui \in {"loop"} /\ session \in 0..MaxSessions /\ stopping \in Clients
        /\ wanted \in {NoRoom} /\ roomid \in {NoRoom} /\ messageMutex \in {NoOne}
    BY <1>1
  <2>9. closing \in BOOLEAN /\ posted \in BOOLEAN
    BY <1>1, Zenon
  <2>10. notify = {} /\ quit = {} /\ timer = {} /\ Packet = {} /\ redeemed = {} /\ timedOut = {}
    BY <1>1
  <2>11. QED
    BY <2>1, <2>3, <2>4, <2>5, <2>6, <2>7, <2>8, <2>10, <2>9 DEF TypeOK
<1>2. Init => StageInv /\ HandleInv /\ BaseInv /\ NotifyInv /\ RoomInv
  BY DEF StageInv, HandleInv, BaseInv, NotifyInv, No8080, RoomInv, InFinalize, Ended, Asleep,
         Idle, Sessions
<1>3. Init => PacketInv /\ AnswerInv /\ PackagesOfOneSession /\ TokenOfItsRoom
  BY DEF PacketInv, AnswerInv, PackagesOfOneSession, TokenOfItsRoom, Ended, Asleep
<1>4. QED  BY <1>1, <1>2, <1>3 DEF IInv

-----------------------------------------------------------------------------
(* What the state of a thread says of the session it belongs to              *)

(* A receiving thread that has not ended is one of the current session.      *)
LEMMA LiveThread ==
  ASSUME IInv, NEW s \in Sessions, NEW c \in Clients, thr[s][c] \notin Ended
  PROVE  /\ handle[s][c] /\ s = session /\ session # 0
         /\ ui \notin {"quit", "join", "new", "closed"}
BY DEF IInv, HandleInv, Sessions

(* An 8080 thread that runs was started after the callbacks were set.        *)
LEMMA RunningThread ==
  ASSUME IInv, NEW s \in Sessions, thr[s]["8080"] \notin Asleep
  PROVE  /\ s = session /\ s \in notify
         /\ ui \notin {"quit", "join", "new", "closed", "enter", "request", "callbacks"}
         /\ roomid \in Rooms /\ roomid = roomOf[s]
         /\ Packet \subseteq {s}
<1>1. s \in notify
  BY DEF IInv, NotifyInv
<1>2. /\ s = session /\ session # 0
      /\ ui \notin {"quit", "join", "new", "closed"}
  BY LiveThread DEF Asleep, Clients
<1>3. ui \notin {"enter", "request", "callbacks"}
  BY <1>1, <1>2 DEF IInv, NotifyInv
<1>4. QED  BY <1>1, <1>2, <1>3 DEF IInv, RoomInv, PacketInv

(* A base thread that runs is the one of the current session.                *)
LEMMA LiveBase ==
  ASSUME IInv, NEW s \in Sessions, base[s] \notin Idle
  PROVE  s = session /\ session # 0 /\ ui \notin {"new", "closed"}
BY DEF IInv, BaseInv, Sessions

-----------------------------------------------------------------------------
(* Types                                                                   *)

(* What Notify calls back is a sequence of gift requests and reports.        *)
LEMMA CallbacksType ==
  ASSUME NEW callbacks \in Dispatches
  PROVE  callbacks \in Seq({"gift", "report"})
<1> DEFINE S == {"gift", "report"}
<1>1. << >> \in Seq(S)
  OBVIOUS
<1>2. ASSUME NEW token \in BOOLEAN, NEW outmsg \in BOOLEAN
      PROVE  Callbacks(token, outmsg) \in Seq(S)
  <2>1. \A n \in Nat : Report(n) \in Seq(S)
    BY DEF Report
  <2>2. \A n \in Nat : Redeem(n) \in Seq(S)
    BY DEF Redeem
  <2>3. QED  BY <1>1, <2>1, <2>2, BoundAssumption, ConcatProperties DEF Callbacks
<1>3. callbacks = << >> \/ \E token, outmsg \in BOOLEAN : callbacks = Callbacks(token, outmsg)
  BY DEF Dispatches
<1>4. QED  BY <1>1, <1>2, <1>3

(* The actions of the UI thread.                                            *)
LEMMA UIType ==
  ASSUME IInv, UIStep \/ Close \/ \E r \in Rooms : Nav(r)
  PROVE  TypeOK'
<1> USE DEF IInv, TypeOK, UIGoto, uiVars, helperVars, clientVars, recvVars, baseVars,
            dialogVars, InFinalize, Working, Ended
<1>1. ASSUME NEW r \in Rooms, Nav(r)  PROVE TypeOK'
  BY <1>1 DEF Nav, Clients
<1>2. CASE Close
  BY <1>2 DEF Close, Clients
<1>3. CASE SignalStop
  BY <1>3 DEF SignalStop
<1>4. CASE WaitAnswered
  BY <1>4 DEF WaitAnswered
<1>5. CASE WaitTimesOut
  BY <1>5 DEF WaitTimesOut, StageInv, Sessions
<1>6. CASE StopThread
  <2>1. session \in Sessions /\ thr[session][stopping] \in
          {"suspended", "check", "recv", "leave"} \cup Working \cup Ended
    BY <1>6 DEF StopThread, StageInv, Sessions
  <2>2. handle' \in [Sessions -> [Clients -> BOOLEAN]]
    BY <1>6 DEF StopThread
  <2>3. PICK v \in {"suspended", "check", "recv", "leave"} \cup Working \cup Ended :
          thr' = [thr EXCEPT ![session][stopping] = v]
    BY <1>6, <2>1 DEF StopThread
  <2>4. thr' \in [Sessions -> [Clients ->
          {"suspended", "check", "recv", "leave"} \cup Working \cup Ended]]
    BY <2>1, <2>3
  <2>5. QED  BY <1>6, <2>2, <2>4 DEF StopThread, Clients
<1>7. CASE StopBase
  <2>1. session \in Sessions
    BY <1>7 DEF StopBase, StageInv, Sessions
  <2>2. quit' \subseteq Sessions
    BY <1>7, <2>1 DEF StopBase
  <2>3. QED  BY <1>7, <2>2 DEF StopBase
<1>8. CASE JoinBase
  BY <1>8 DEF JoinBase
<1>9. CASE CreateNetwork
  <2>1. session' \in Sessions
    BY <1>9, BoundAssumption DEF CreateNetwork, StageInv, Sessions
  <2>2. /\ stopEvent' \in [Sessions -> [Clients -> BOOLEAN]]
        /\ recvEvent' \in [Sessions -> [Clients -> BOOLEAN]]
        /\ handle' \in [Sessions -> [Clients -> BOOLEAN]]
    BY <1>9, <2>1 DEF CreateNetwork, PerClient
  <2>3. [c \in Clients |-> "suspended"] \in [Clients ->
          {"suspended", "check", "recv", "leave"} \cup Working \cup Ended]
    OBVIOUS
  <2>4. thr' \in [Sessions -> [Clients ->
          {"suspended", "check", "recv", "leave"} \cup Working \cup Ended]]
    BY <1>9, <2>1, <2>3 DEF CreateNetwork
  <2>5. base' \in [Sessions -> {"none", "idle", "lock", "push", "exited"} \cup Clients]
    BY <1>9, <2>1 DEF CreateNetwork
  <2>6. /\ todo' \in [Sessions -> Seq({"gift", "report"})]
        /\ package' \in [Sessions -> SUBSET Sessions]
    BY <1>9 DEF CreateNetwork
  <2>7. chunks' \in [Sessions -> 0..MaxChunks] /\ beats' \in [Sessions -> 0..MaxBeats]
    BY <1>9, BoundAssumption DEF CreateNetwork
  <2>8. session' \in 0..MaxSessions
    BY <2>1 DEF Sessions
  <2>9. QED
    BY <1>9, <2>2, <2>4, <2>5, <2>6, <2>7, <2>8 DEF CreateNetwork
<1>10. CASE EnterRoom
  BY <1>10 DEF EnterRoom, StageInv
<1>11. CASE RequestFails
  BY <1>11 DEF RequestFails
<1>12. CASE Connect843
  BY <1>12, AppendProperties DEF Connect843, Clients
<1>13. CASE SetCallbacks
  BY <1>13 DEF SetCallbacks, StageInv, Sessions
<1>14. CASE Connect8080
  BY <1>14, AppendProperties DEF Connect8080, Clients
<1>15. CASE Dispatch
  BY <1>15 DEF Dispatch
<1>16. CASE TakeMessages
  BY <1>16 DEF TakeMessages
<1>17. QED
  BY <1>1, <1>2, <1>3, <1>4, <1>5, <1>6, <1>7, <1>8, <1>9, <1>10, <1>11, <1>12, <1>13,
     <1>14, <1>15, <1>16 DEF UIStep, UIRuns, RequestReturns, Finalizing, Entering

(* The actions of a base thread.                                            *)
LEMMA BaseType ==
  ASSUME IInv, NEW s \in Sessions, BaseStep(s) \/ Heartbeat(s)
  PROVE  TypeOK'
<1> USE DEF IInv, TypeOK, BaseGoto, uiVars, helperVars, clientVars, recvVars, baseVars,
            dialogVars
<1>1. CASE RunTask(s)
  <2>1. tasks[s] \in Seq(Clients) /\ tasks[s] # << >>
    BY <1>1 DEF RunTask
  <2>2. Head(tasks[s]) \in Clients /\ Tail(tasks[s]) \in Seq(Clients)
    BY <2>1, HeadTailProperties
  <2>3. tasks' \in [Sessions -> Seq(Clients)]
    BY <1>1, <2>2 DEF RunTask
  <2>4. base' \in [Sessions -> {"none", "idle", "lock", "push", "exited"} \cup Clients]
    BY <1>1, <2>2 DEF RunTask
  <2>5. Packet' \subseteq Sessions
    BY <1>1 DEF RunTask, ForgetPackage
  <2>6. UNCHANGED <<uiVars, helperVars, clientVars, todo, package, redeemed, chunks,
                    quit, timer, beats, dialogVars, timedOut>>
    BY <1>1 DEF RunTask
  <2>7. QED  BY <2>3, <2>4, <2>5, <2>6
<1>2. CASE HeartbeatLock(s)
  BY <1>2 DEF HeartbeatLock
<1>3. CASE HeartbeatPost(s)
  BY <1>3 DEF HeartbeatPost
<1>4. CASE LoopQuits(s)
  <2>1. base' \in [Sessions -> {"none", "idle", "lock", "push", "exited"} \cup Clients] /\ timer' \subseteq Sessions
    BY <1>4 DEF LoopQuits
  <2>2. UNCHANGED <<uiVars, helperVars, clientVars, recvVars, tasks, quit, beats, dialogVars, timedOut>>
    BY <1>4 DEF LoopQuits
  <2>3. QED  BY <2>1, <2>2
<1>5. ASSUME NEW c \in Clients, Connected(s, c)  PROVE TypeOK'
  <2>1. timer' \subseteq Sessions
    BY <1>5 DEF Connected
  <2>2. thr' \in [Sessions -> [Clients ->
          {"suspended", "check", "recv", "leave"} \cup Working \cup Ended]]
    BY <1>5 DEF Connected, Resume
  <2>3. base' \in [Sessions -> {"none", "idle", "lock", "push", "exited"} \cup Clients]
    BY <1>5 DEF Connected
  <2>4. UNCHANGED <<uiVars, helperVars, stopEvent, recvEvent, handle, recvVars, tasks, quit,
                    beats, dialogVars, timedOut>>
    BY <1>5 DEF Connected
  <2>5. QED  BY <2>1, <2>2, <2>3, <2>4
<1>6. ASSUME NEW c \in Clients, ConnectFails(s, c)  PROVE TypeOK'
  <2>1. base' \in [Sessions -> {"none", "idle", "lock", "push", "exited"} \cup Clients]
    BY <1>6 DEF ConnectFails
  <2>2. UNCHANGED <<uiVars, helperVars, clientVars, recvVars, tasks, quit, timer, beats,
                    dialogVars, timedOut>>
    BY <1>6 DEF ConnectFails
  <2>3. QED  BY <2>1, <2>2
<1>7. CASE Heartbeat(s)
  <2>1. beats' \in [Sessions -> 0..MaxBeats]
    BY <1>7, BoundAssumption DEF Heartbeat
  <2>2. base' \in [Sessions -> {"none", "idle", "lock", "push", "exited"} \cup Clients]
    BY <1>7 DEF Heartbeat
  <2>3. UNCHANGED <<uiVars, helperVars, clientVars, recvVars, tasks, quit, timer,
                    dialogVars, timedOut>>
    BY <1>7 DEF Heartbeat
  <2>4. QED  BY <2>1, <2>2, <2>3
<1>8. QED
  BY <1>1, <1>2, <1>3, <1>4, <1>5, <1>6, <1>7 DEF BaseStep

(* The actions of a receiving thread, and what the network does to it.      *)
LEMMA RecvType ==
  ASSUME IInv, NEW s \in Sessions, NEW c \in Clients, RecvStep(s, c) \/ Network(s)
  PROVE  TypeOK'
<1> USE DEF IInv, TypeOK, ThrGoto, uiVars, helperVars, clientVars, recvVars, baseVars,
            dialogVars, Working, Ended
<1>1. CASE TestStop(s, c)
  BY <1>1 DEF TestStop
<1>2. CASE Answer(s, c)
  BY <1>2 DEF Answer
<1>3. CASE NextCallback(s)
  <2>1. todo[s] \in Seq({"gift", "report"})
    OBVIOUS
  <2>2. todo[s] # << >> => Tail(todo[s]) \in Seq({"gift", "report"})
    BY <2>1, HeadTailProperties
  <2>3. todo' \in [Sessions -> Seq({"gift", "report"})]
    BY <1>3, <2>1, <2>2 DEF NextCallback
  <2>4. package' \in [Sessions -> SUBSET Sessions]
    BY <1>3 DEF NextCallback
  <2>5. thr' \in [Sessions -> [Clients ->
          {"suspended", "check", "recv", "leave"} \cup Working \cup Ended]]
    BY <1>3 DEF NextCallback, Clients
  <2>6. UNCHANGED <<uiVars, helperVars, stopEvent, recvEvent, handle, Packet,
                    redeemed, chunks, baseVars, dialogVars, timedOut>>
    BY <1>3 DEF NextCallback
  <2>7. QED  BY <2>3, <2>4, <2>5, <2>6
<1>4. CASE GiftService(s)
  <2>1. roomid \in Rooms
    BY <1>4, RunningThread DEF GiftService, Asleep
  <2>2. redeemed' \subseteq Sessions \X Rooms
    BY <1>4, <2>1 DEF GiftService
  <2>3. thr' \in [Sessions -> [Clients ->
          {"suspended", "check", "recv", "leave"} \cup Working \cup Ended]]
    BY <1>4 DEF GiftService, Clients
  <2>4. UNCHANGED <<uiVars, helperVars, stopEvent, recvEvent, handle, Packet, todo,
                    package, chunks, baseVars, dialogVars, timedOut>>
    BY <1>4 DEF GiftService
  <2>5. QED  BY <2>2, <2>3, <2>4
<1>5. CASE ReportLock(s)
  BY <1>5 DEF ReportLock, Clients
<1>6. CASE ReportPost(s)
  BY <1>6 DEF ReportPost, Clients
<1>7. CASE RecvPart(s)
  <2>1. Packet' \subseteq Sessions
    BY <1>7 DEF RecvPart
  <2>2. chunks' \in [Sessions -> 0..MaxChunks]
    BY <1>7, BoundAssumption DEF RecvPart
  <2>3. thr' \in [Sessions -> [Clients ->
          {"suspended", "check", "recv", "leave"} \cup Working \cup Ended]]
    BY <1>7 DEF RecvPart, Clients
  <2>4. UNCHANGED <<uiVars, helperVars, stopEvent, recvEvent, handle, todo, package,
                    redeemed, baseVars, dialogVars, timedOut>>
    BY <1>7 DEF RecvPart
  <2>5. QED  BY <2>1, <2>2, <2>3, <2>4
<1>8. ASSUME NEW callbacks \in Dispatches, NEW more \in BOOLEAN,
             RecvPackage(s, callbacks, more)
      PROVE  TypeOK'
  <2>1. Packet' \subseteq Sessions
    BY <1>8 DEF RecvPackage
  <2>2. chunks' \in [Sessions -> 0..MaxChunks]
    BY <1>8, BoundAssumption DEF RecvPackage
  <2>3. package' \in [Sessions -> SUBSET Sessions]
    <3>1. Packet \cup {s} \in SUBSET Sessions
      OBVIOUS
    <3>2. QED  BY <1>8, <3>1 DEF RecvPackage
  <2>4. todo' \in [Sessions -> Seq({"gift", "report"})]
    BY <1>8, CallbacksType DEF RecvPackage
  <2>5. thr' \in [Sessions -> [Clients ->
          {"suspended", "check", "recv", "leave"} \cup Working \cup Ended]]
    BY <1>8 DEF RecvPackage, Clients
  <2>6. UNCHANGED <<uiVars, helperVars, stopEvent, recvEvent, handle, redeemed,
                    baseVars, dialogVars, timedOut>>
    BY <1>8 DEF RecvPackage
  <2>7. QED  BY <2>1, <2>2, <2>3, <2>4, <2>5, <2>6
<1>9. ASSUME NEW d \in Clients, RecvIgnored(s, d)  PROVE TypeOK'
  BY <1>9 DEF RecvIgnored
<1>10. QED
  BY <1>1, <1>2, <1>3, <1>4, <1>5, <1>6, <1>7, <1>8, <1>9 DEF RecvStep, RecvRuns, Network

-----------------------------------------------------------------------------
(* What the steps of the threads leave alone                                *)

(* A base thread touches no state of the UI thread or of another session, and *)
(* of the receiving threads only wakes the one it has connected.             *)
LEMMA BaseFrame ==
  ASSUME IInv, NEW s \in Sessions, BaseStep(s) \/ Heartbeat(s)
  PROVE  /\ UNCHANGED <<uiVars, helperVars, stopEvent, recvEvent, handle, todo, package,
                        redeemed, chunks, quit, timedOut>>
         /\ base[s] \notin Idle
         /\ \A q \in Sessions : q # s => base'[q] = base[q] /\ tasks'[q] = tasks[q]
         /\ \A q \in Sessions, c \in Clients : thr'[q][c] # thr[q][c] =>
              /\ q = s /\ base[s] = c /\ handle[q][c]
              /\ thr[q][c] = "suspended" /\ thr'[q][c] = "check"
         /\ Packet' \in {{}, Packet} /\ (base'[s] = "8080" => Packet' = {})
<1> USE DEF IInv, TypeOK, BaseGoto, uiVars, helperVars, clientVars, recvVars, baseVars,
            dialogVars, Idle, Clients
<1>1. CASE RunTask(s)
  BY <1>1, HeadTailProperties DEF RunTask, ForgetPackage
<1>2. CASE HeartbeatLock(s) \/ HeartbeatPost(s) \/ LoopQuits(s) \/ Heartbeat(s)
  BY <1>2 DEF HeartbeatLock, HeartbeatPost, LoopQuits, Heartbeat
<1>3. CASE \E c \in Clients : Connected(s, c)
  BY <1>3 DEF Connected, Resume
<1>4. CASE \E c \in Clients : ConnectFails(s, c)
  BY <1>4 DEF ConnectFails
<1>5. QED
  BY <1>1, <1>2, <1>3, <1>4 DEF BaseStep

(* A receiving thread touches no state of the UI thread or of a base thread,  *)
(* moves nothing but itself, and only while it is running.                   *)
LEMMA RecvFrame ==
  ASSUME IInv, NEW s \in Sessions, NEW c \in Clients, RecvStep(s, c) \/ Network(s)
  PROVE  /\ UNCHANGED <<uiVars, helperVars, handle, baseVars, timedOut>>
         /\ \A q \in Sessions : q # s => UNCHANGED <<thr[q], recvEvent[q], package[q]>>
         /\ \A d \in Clients : UNCHANGED <<thr[s][d], recvEvent[s][d]>>
              \/ /\ thr[s][d] \notin Asleep /\ thr'[s][d] \notin {"none", "dead", "suspended"}
                 /\ recvEvent'[s][d] => recvEvent[s][d] \/ thr'[s][d] = "exited"
         /\ (Packet' # Packet \/ package' # package) => thr[s]["8080"] \notin Asleep
         /\ redeemed' # redeemed =>
              thr[s]["8080"] \notin Asleep /\ redeemed' = redeemed \cup {<<s, roomid>>}
         /\ Packet' \subseteq Packet \cup {s}
         /\ package'[s] \subseteq package[s] \cup Packet \cup {s}
<1> USE DEF IInv, TypeOK, ThrGoto, uiVars, helperVars, clientVars, recvVars, baseVars,
            dialogVars, Asleep, Ended, Working, Clients
<1>1. CASE TestStop(s, c)
  BY <1>1 DEF TestStop
<1>2. CASE Answer(s, c)
  BY <1>2 DEF Answer
<1>3. CASE NextCallback(s)
  BY <1>3 DEF NextCallback
<1>4. CASE GiftService(s) \/ ReportLock(s) \/ ReportPost(s)
  BY <1>4 DEF GiftService, ReportLock, ReportPost
<1>5. CASE RecvPart(s)
  BY <1>5 DEF RecvPart
<1>6. CASE \E callbacks \in Dispatches, more \in BOOLEAN : RecvPackage(s, callbacks, more)
  BY <1>6 DEF RecvPackage
<1>7. CASE \E d \in Clients : RecvIgnored(s, d)
  BY <1>7 DEF RecvIgnored
<1>8. QED
  BY <1>1, <1>2, <1>3, <1>4, <1>5, <1>6, <1>7 DEF RecvStep, RecvRuns, Network

-----------------------------------------------------------------------------
(* The parts of the invariant, step by step                                 *)

UIMove == UIStep \/ Close \/ \E r \in Rooms : Nav(r)

(* Of the receiving threads Finalize terminates the one it is stopping.      *)
LEMMA StopFrame ==
  ASSUME IInv, StopThread
  PROVE  /\ session \in Sessions
         /\ \A s \in Sessions, c \in Clients :
              handle'[s][c] <=> handle[s][c] /\ ~ (s = session /\ c = stopping)
         /\ \A s \in Sessions, c \in Clients :
              thr'[s][c] = IF s = session /\ c = stopping /\ handle[s][c] THEN "dead"
                           ELSE thr[s][c]
<1> USE DEF IInv, TypeOK, StopThread, UIGoto
<1>1. session \in Sessions
  BY DEF StageInv, Sessions
<1>2. \A s \in Sessions, c \in Clients :
        handle'[s][c] <=> handle[s][c] /\ ~ (s = session /\ c = stopping)
  <2> TAKE s \in Sessions, c \in Clients
  <2>1. CASE s = session /\ c = stopping
    BY <1>1, <2>1
  <2>2. CASE ~ (s = session /\ c = stopping)
    <3>1. handle'[s][c] = handle[s][c]
      BY <1>1, <2>2
    <3>2. QED  BY <2>2, <3>1
  <2>3. QED  BY <2>1, <2>2
<1>3. \A s \in Sessions, c \in Clients :
        thr'[s][c] = IF s = session /\ c = stopping /\ handle[s][c] THEN "dead" ELSE thr[s][c]
  BY <1>1
<1>4. QED  BY <1>1, <1>2, <1>3

(* Nav needs a room and a free session; the Finalize of Nav keeps it free.  *)
LEMMA StageStep ==
  ASSUME IInv, UIMove  PROVE StageInv'
<1> USE DEF IInv, TypeOK, StageInv, UIGoto, InFinalize
<1>1. CASE Close \/ \E r \in Rooms : Nav(r)
  BY <1>1 DEF Close, Nav
<1>2. CASE Finalizing
  BY <1>2 DEF Finalizing, SignalStop, WaitAnswered, WaitTimesOut, StopThread, StopBase, JoinBase
<1>3. CASE CreateNetwork
  BY <1>3, BoundAssumption DEF CreateNetwork
<1>4. CASE EnterRoom \/ RequestFails \/ Connect843 \/ SetCallbacks \/ Connect8080
  BY <1>4 DEF EnterRoom, RequestFails, Connect843, SetCallbacks, Connect8080
<1>5. CASE Dispatch \/ TakeMessages
  BY <1>5 DEF Dispatch, TakeMessages
<1>6. QED  BY <1>1, <1>2, <1>3, <1>5, <1>4 DEF UIMove, UIStep, UIRuns, RequestReturns, Entering

(* Finalize gives up a handle only with the thread it belongs to.           *)
LEMMA HandleStep ==
  ASSUME IInv, UIMove  PROVE HandleInv'
<1> USE DEF IInv, TypeOK, HandleInv, UIGoto, InFinalize, helperVars, clientVars
<1>1. CASE Close
  BY <1>1 DEF Close, Sessions
<1>2. ASSUME NEW r \in Rooms, Nav(r)  PROVE HandleInv'
  BY <1>2 DEF Nav, Sessions
<1>3. CASE SignalStop \/ WaitAnswered \/ WaitTimesOut
  BY <1>3 DEF SignalStop, WaitAnswered, WaitTimesOut
<1>4. CASE StopThread
  <2>1. /\ session' = session /\ stopping' = "8080"
        /\ ui = "stop" /\ ui' = IF stopping = "843" THEN "final" ELSE "quit"
    BY <1>4 DEF StopThread
  <2>2. ASSUME NEW s \in Sessions, NEW c \in Clients, handle'[s][c]
        PROVE  /\ s = session' /\ ui' \notin {"quit", "join", "new", "closed"}
               /\ c = "8080"
    <3>1. handle[s][c] /\ s = session /\ c # stopping
      BY <1>4, <2>2, StopFrame
    <3>2. stopping = "8080" => c = "8080"
      BY <2>1, <3>1
    <3>3. stopping = "843" /\ c = "8080"
      BY <3>1, <3>2 DEF Clients
    <3>4. QED  BY <2>1, <3>1, <3>3
  <2>3. ASSUME NEW s \in Sessions, NEW c \in Clients, ~ handle'[s][c]
        PROVE  thr'[s][c] \in Ended
    <3>1. thr'[s][c] = IF s = session /\ c = stopping /\ handle[s][c] THEN "dead" ELSE thr[s][c]
      BY <1>4, StopFrame
    <3>2. ~ handle[s][c] \/ (s = session /\ c = stopping)
      BY <1>4, <2>3, StopFrame
    <3>3. QED  BY <3>1, <3>2 DEF Ended
  <2>4. QED  BY <2>2, <2>3
<1>5. CASE StopBase \/ JoinBase
  BY <1>5 DEF StopBase, JoinBase
<1>6. CASE CreateNetwork
  BY <1>6, BoundAssumption DEF CreateNetwork, PerClient, StageInv, Sessions, Clients
<1>7. CASE EnterRoom \/ RequestFails \/ Connect843 \/ SetCallbacks \/ Connect8080
  BY <1>7 DEF EnterRoom, RequestFails, Connect843, SetCallbacks, Connect8080
<1>8. CASE Dispatch \/ TakeMessages
  BY <1>8 DEF Dispatch, TakeMessages
<1>9. QED
  BY <1>1, <1>2, <1>3, <1>4, <1>5, <1>6, <1>7, <1>8
     DEF UIMove, UIStep, UIRuns, RequestReturns, Finalizing, Entering

(* A helper is deleted after its base thread has been joined.               *)
LEMMA BaseStepInv ==
  ASSUME IInv, UIMove  PROVE BaseInv'
<1> USE DEF IInv, TypeOK, BaseInv, UIGoto, baseVars, Idle
<1>1. CASE Close
  BY <1>1 DEF Close, Sessions
<1>2. ASSUME NEW r \in Rooms, Nav(r)  PROVE BaseInv'
  BY <1>2 DEF Nav, Sessions
<1>3. CASE Finalizing
  BY <1>3 DEF Finalizing, SignalStop, WaitAnswered, WaitTimesOut, StopThread, StopBase, JoinBase
<1>4. CASE CreateNetwork
  BY <1>4, BoundAssumption DEF CreateNetwork, StageInv, Sessions
<1>5. CASE EnterRoom \/ RequestFails \/ Connect843 \/ SetCallbacks \/ Connect8080
  BY <1>5 DEF EnterRoom, RequestFails, Connect843, SetCallbacks, Connect8080
<1>6. CASE Dispatch \/ TakeMessages
  BY <1>6 DEF Dispatch, TakeMessages
<1>7. QED
  BY <1>1, <1>2, <1>3, <1>4, <1>5, <1>6 DEF UIMove, UIStep, UIRuns, RequestReturns, Entering

(* Connect8080 posts its task behind SetCallbacks.                          *)
LEMMA NotifyStep ==
  ASSUME IInv, UIMove  PROVE NotifyInv'
<1> USE DEF IInv, TypeOK, NotifyInv, UIGoto, InFinalize, helperVars, clientVars, recvVars,
            baseVars
<1>1. CASE Close
  BY <1>1 DEF Close, Sessions
<1>2. ASSUME NEW r \in Rooms, Nav(r)  PROVE NotifyInv'
  BY <1>2 DEF Nav, Sessions
<1>3. CASE SignalStop \/ WaitAnswered \/ WaitTimesOut \/ StopBase \/ JoinBase
  BY <1>3 DEF SignalStop, WaitAnswered, WaitTimesOut, StopBase, JoinBase
<1>4. CASE StopThread
  BY <1>4, StopFrame DEF StopThread, Asleep, Ended
<1>5. CASE CreateNetwork
  BY <1>5 DEF CreateNetwork, StageInv, Asleep, Sessions, Clients
<1>6. CASE EnterRoom \/ RequestFails
  BY <1>6 DEF EnterRoom, RequestFails
<1>7. CASE Connect843
  BY <1>7, AppendProperties DEF Connect843, StageInv, No8080, Clients, Sessions
<1>8. CASE SetCallbacks
  BY <1>8 DEF SetCallbacks, StageInv
<1>9. CASE Connect8080
  BY <1>9 DEF Connect8080, StageInv, Sessions
<1>10. CASE Dispatch \/ TakeMessages
  BY <1>10 DEF Dispatch, TakeMessages
<1>11. QED
  BY <1>1, <1>2, <1>3, <1>4, <1>5, <1>6, <1>7, <1>8, <1>9, <1>10
     DEF UIMove, UIStep, UIRuns, RequestReturns, Finalizing, Entering

(* roomid is written by EnterRoom only, for the session it enters.          *)
LEMMA RoomStep ==
  ASSUME IInv, UIMove  PROVE RoomInv'
<1> USE DEF IInv, TypeOK, RoomInv, StageInv, UIGoto, helperVars, Sessions
<1>1. CASE Close
  BY <1>1 DEF Close, Sessions
<1>2. ASSUME NEW r \in Rooms, Nav(r)  PROVE RoomInv'
  BY <1>2 DEF Nav, Sessions
<1>3. CASE Finalizing
  BY <1>3 DEF Finalizing, SignalStop, WaitAnswered, WaitTimesOut, StopThread, StopBase, JoinBase
<1>4. CASE CreateNetwork
  BY <1>4 DEF CreateNetwork
<1>5. CASE EnterRoom
  BY <1>5 DEF EnterRoom
<1>6. CASE RequestFails \/ Connect843 \/ SetCallbacks \/ Connect8080
  BY <1>6 DEF RequestFails, Connect843, SetCallbacks, Connect8080
<1>7. CASE Dispatch \/ TakeMessages
  BY <1>7 DEF Dispatch, TakeMessages
<1>8. QED  BY <1>1, <1>2, <1>3, <1>4, <1>7, <1>5, <1>6
     DEF UIMove, UIStep, UIRuns, RequestReturns, Entering

(* No action of the UI thread wakes a thread or writes Packet.              *)
LEMMA PacketStep ==
  ASSUME IInv, UIMove  PROVE PacketInv'
<1> USE DEF IInv, TypeOK, PacketInv, UIGoto, clientVars, recvVars, baseVars, Asleep, Ended,
            Clients
<1>1. CASE Close
  BY <1>1 DEF Close, Sessions
<1>2. ASSUME NEW r \in Rooms, Nav(r)  PROVE PacketInv'
  BY <1>2 DEF Nav, Sessions
<1>3. CASE SignalStop \/ WaitAnswered \/ WaitTimesOut \/ StopBase \/ JoinBase
  BY <1>3 DEF SignalStop, WaitAnswered, WaitTimesOut, StopBase, JoinBase
<1>4. CASE StopThread
  BY <1>4, StopFrame DEF StopThread
<1>5. CASE CreateNetwork
  BY <1>5 DEF CreateNetwork
<1>6. CASE EnterRoom \/ RequestFails \/ Connect843 \/ SetCallbacks \/ Connect8080
  BY <1>6 DEF EnterRoom, RequestFails, Connect843, SetCallbacks, Connect8080
<1>7. CASE Dispatch \/ TakeMessages
  BY <1>7 DEF Dispatch, TakeMessages
<1>8. QED
  BY <1>1, <1>2, <1>3, <1>4, <1>5, <1>6, <1>7
     DEF UIMove, UIStep, UIRuns, RequestReturns, Finalizing, Entering

(* Finalize goes on to terminate with an answer or a time-out.              *)
LEMMA AnswerStep ==
  ASSUME IInv, UIMove  PROVE AnswerInv'
<1> USE DEF IInv, TypeOK, AnswerInv, UIGoto, clientVars, Ended, Clients
<1>1. CASE Close
  BY <1>1 DEF Close, Sessions
<1>2. ASSUME NEW r \in Rooms, Nav(r)  PROVE AnswerInv'
  BY <1>2 DEF Nav, Sessions
<1>3. CASE SignalStop \/ StopBase \/ JoinBase
  BY <1>3 DEF SignalStop, StopBase, JoinBase
<1>4. CASE WaitAnswered
  <2>1. session \in Sessions /\ recvEvent[session][stopping]
    BY <1>4 DEF WaitAnswered, StageInv, InFinalize, Sessions
  <2>2. thr[session][stopping] \in Ended
    BY <2>1
  <2>3. \A s \in Sessions, c \in Clients : recvEvent'[s][c] => recvEvent[s][c]
    BY <1>4, <2>1 DEF WaitAnswered
  <2>4. QED  BY <1>4, <2>2, <2>3 DEF WaitAnswered
<1>5. CASE WaitTimesOut
  BY <1>5 DEF WaitTimesOut
<1>6. CASE StopThread
  BY <1>6, StopFrame DEF StopThread
<1>7. CASE CreateNetwork
  BY <1>7 DEF CreateNetwork, PerClient
<1>8. CASE EnterRoom \/ RequestFails \/ Connect843 \/ SetCallbacks \/ Connect8080
  BY <1>8 DEF EnterRoom, RequestFails, Connect843, SetCallbacks, Connect8080
<1>9. CASE Dispatch \/ TakeMessages
  BY <1>9 DEF Dispatch, TakeMessages
<1>10. QED
  BY <1>1, <1>2, <1>5, <1>3, <1>4, <1>6, <1>7, <1>8, <1>9
     DEF UIMove, UIStep, UIRuns, RequestReturns, Finalizing, Entering

(* No action of the UI thread touches a package or a token.                  *)
LEMMA PackageStep ==
  ASSUME IInv, UIMove  PROVE PackagesOfOneSession' /\ TokenOfItsRoom'
<1> USE DEF IInv, PackagesOfOneSession, TokenOfItsRoom, UIGoto, helperVars, recvVars
<1>1. CASE CreateNetwork
  BY <1>1 DEF CreateNetwork
<1>2. CASE EnterRoom
  <2>1. \A r \in Rooms \cup {NoRoom} : <<session, r>> \notin redeemed
    BY <1>2 DEF EnterRoom, NotifyInv
  <2>2. \A s \in Sessions : s # session => roomOf'[s] = roomOf[s]
    BY <1>2 DEF EnterRoom, TypeOK
  <2>3. QED  BY <1>2, <2>1, <2>2 DEF EnterRoom
<1>3. CASE Finalizing
  BY <1>3 DEF Finalizing, SignalStop, WaitAnswered, WaitTimesOut, StopThread, StopBase, JoinBase
<1>4. CASE RequestFails \/ Connect843 \/ SetCallbacks \/ Connect8080
  BY <1>4 DEF RequestFails, Connect843, SetCallbacks, Connect8080
<1>5. CASE Dispatch \/ TakeMessages \/ Close
  BY <1>5 DEF Dispatch, TakeMessages, Close
<1>6. ASSUME NEW r \in Rooms, Nav(r)  PROVE PackagesOfOneSession' /\ TokenOfItsRoom'
  BY <1>6 DEF Nav
<1>7. QED  BY <1>1, <1>2, <1>3, <1>4, <1>5, <1>6
     DEF UIMove, UIStep, UIRuns, RequestReturns, Entering

(* A queue of tasks without a connection to 8080 stays one when a task is taken. *)
LEMMA PostsTail ==
  ASSUME NEW posts \in Seq(Clients), posts # << >>, No8080(posts)
  PROVE  Head(posts) # "8080" /\ No8080(Tail(posts))
BY HeadTailProperties DEF No8080

(* A base thread keeps the invariant: it acts for the current session only. *)
LEMMA BasePreserves ==
  ASSUME IInv, NEW s \in Sessions, BaseStep(s) \/ Heartbeat(s)
  PROVE  IInv'
<1> USE BaseFrame DEF uiVars, helperVars
<1>1. TypeOK'
  BY BaseType
<1>2. StageInv'
  BY DEF IInv, StageInv
<1>3. HandleInv'
  BY DEF IInv, HandleInv
<1>4. BaseInv'
  BY LiveBase DEF IInv, BaseInv
<1>5. /\ UNCHANGED <<ui, session, notify, redeemed>>
      /\ \A q \in Sessions : q # s => base'[q] = base[q] /\ tasks'[q] = tasks[q]
      /\ \A q \in Sessions, c \in Clients : thr'[q][c] # thr[q][c] => q = s /\ base[s] = c
  OBVIOUS
<1>6. NotifyInv'
  <2> USE DEF IInv, TypeOK, NotifyInv, BaseGoto, Asleep, Ended
  <2>1. ASSUME s \notin notify
        PROVE  /\ base'[s] \notin {"8080", "lock", "push"} /\ s \notin timer'
               /\ No8080(tasks'[s])
    <3>1. CASE RunTask(s)
      BY <2>1, <3>1, PostsTail DEF RunTask
    <3>2. CASE HeartbeatLock(s) \/ HeartbeatPost(s) \/ Heartbeat(s)
      BY <2>1, <3>2 DEF HeartbeatLock, HeartbeatPost, Heartbeat
    <3>3. CASE LoopQuits(s)
      BY <2>1, <3>3 DEF LoopQuits
    <3>4. ASSUME NEW c \in Clients, Connected(s, c)
          PROVE  base'[s] = "idle" /\ s \notin timer' /\ tasks'[s] = tasks[s]
      BY <2>1, <3>4 DEF Connected
    <3>5. ASSUME NEW c \in Clients, ConnectFails(s, c)
          PROVE  base'[s] = "idle" /\ s \notin timer' /\ tasks'[s] = tasks[s]
      BY <2>1, <3>5 DEF ConnectFails, baseVars
    <3>6. QED  BY <2>1, <3>1, <3>2, <3>3, <3>4, <3>5 DEF BaseStep
  <2>2. ASSUME NEW q \in Sessions, q # s, q \notin timer  PROVE q \notin timer'
    BY <2>2 DEF BaseStep, RunTask, HeartbeatLock, HeartbeatPost, LoopQuits, Heartbeat,
               Connected, ConnectFails
  <2>3. ASSUME NEW q \in Sessions, q \notin notify  PROVE thr'[q]["8080"] \in Asleep
    <3>1. base[s] = "8080" => s \in notify
      OBVIOUS
    <3>2. \A c \in Clients : thr'[q][c] # thr[q][c] => q = s /\ base[s] = c
      BY <1>5
    <3>3. thr'[q]["8080"] = thr[q]["8080"]
      BY <2>3, <3>1, <3>2 DEF Clients
    <3>4. QED  BY <2>3, <3>3
  <2>4. ASSUME NEW q \in Sessions, q \notin notify
        PROVE  /\ base'[q] \notin {"8080", "lock", "push"} /\ q \notin timer'
               /\ No8080(tasks'[q])
    <3>1. CASE q = s
      BY <2>1, <2>4, <3>1
    <3>2. CASE q # s
      <4>1. base'[q] = base[q] /\ tasks'[q] = tasks[q]
        BY <3>2, <1>5
      <4>2. QED  BY <2>2, <2>4, <3>2, <4>1
    <3>3. QED  BY <3>1, <3>2
  <2>5. QED  BY <2>3, <2>4, <1>5
<1>7. RoomInv'
  BY DEF IInv, RoomInv
<1>8. PacketInv'
  BY DEF IInv, PacketInv, Clients
<1>9. AnswerInv'
  <2>1. ui = "stop" => session \in Sessions /\ stopping \in Clients
    BY DEF IInv, StageInv, TypeOK, Sessions
  <2>2. QED  BY <2>1 DEF IInv, AnswerInv, Ended
<1>10. PackagesOfOneSession' /\ TokenOfItsRoom'
  BY DEF IInv, PackagesOfOneSession, TokenOfItsRoom
<1>11. QED
  BY <1>1, <1>2, <1>3, <1>4, <1>6, <1>7, <1>8, <1>9, <1>10 DEF IInv

(* A receiving thread keeps the invariant: it acts for the current session only. *)
LEMMA RecvPreserves ==
  ASSUME IInv, NEW s \in Sessions, NEW c \in Clients, RecvStep(s, c) \/ Network(s)
  PROVE  IInv'
<1> USE RecvFrame DEF uiVars, helperVars, baseVars
<1>1. TypeOK'
  BY RecvType
<1>2. StageInv'
  BY DEF IInv, StageInv
<1>3. HandleInv'
  BY LiveThread DEF IInv, HandleInv, Asleep
<1>4. BaseInv'
  BY DEF IInv, BaseInv
<1>5. NotifyInv'
  BY RunningThread DEF IInv, NotifyInv, Clients
<1>6. RoomInv'
  BY DEF IInv, RoomInv
<1>7. PacketInv'
  <2>1. ASSUME NEW q \in Sessions, base[q] = "8080" \/ thr'[q]["8080"] \notin Asleep
        PROVE  q = session /\ Packet \subseteq {q}
    <3>1. base[q] = "8080" \/ thr[q]["8080"] \notin Asleep
      BY <2>1 DEF Clients
    <3>2. QED  BY <3>1, LiveBase, RunningThread DEF IInv, PacketInv, Idle
  <2>2. Packet' # Packet => s = session
    BY RunningThread
  <2>3. QED  BY <2>1, <2>2 DEF PacketInv
<1>8. AnswerInv'
  <2>1. ui = "stop" => session \in Sessions /\ stopping \in Clients
    BY DEF IInv, StageInv, TypeOK, Sessions
  <2>2. ASSUME NEW q \in Sessions, NEW d \in Clients
        PROVE  /\ recvEvent'[q][d] => thr'[q][d] \in Ended
               /\ thr[q][d] \in Ended => thr'[q][d] \in Ended
    BY DEF IInv, AnswerInv, Asleep, Ended
  <2>3. QED  BY <2>1, <2>2 DEF IInv, AnswerInv
<1>9. PackagesOfOneSession'
  BY RunningThread DEF IInv, PackagesOfOneSession
<1>10. TokenOfItsRoom'
  BY RunningThread DEF IInv, TokenOfItsRoom
<1>11. QED
  BY <1>1, <1>2, <1>3, <1>4, <1>5, <1>6, <1>7, <1>8, <1>9, <1>10 DEF IInv

(* The invariant is inductive.                                              *)
LEMMA StepInv ==
  IInv /\ [Next]_vars => IInv'
<1> SUFFICES ASSUME IInv, [Next]_vars  PROVE IInv'
  OBVIOUS
<1>1. CASE UIMove
  BY <1>1, UIType, StageStep, HandleStep, BaseStepInv, NotifyStep, RoomStep, PacketStep,
     AnswerStep, PackageStep DEF IInv, UIMove
<1>2. ASSUME NEW s \in Sessions, BaseStep(s) \/ Heartbeat(s)  PROVE IInv'
  BY <1>2, BasePreserves
<1>3. ASSUME NEW s \in Sessions, NEW c \in Clients, RecvStep(s, c) \/ Network(s)  PROVE IInv'
  BY <1>3, RecvPreserves
<1>4. CASE UNCHANGED vars
  BY <1>4 DEF IInv, TypeOK, StageInv, HandleInv, BaseInv, NotifyInv, RoomInv, PacketInv,
     AnswerInv, PackagesOfOneSession, TokenOfItsRoom, vars, uiVars, helperVars, clientVars,
     recvVars, baseVars, dialogVars
<1>5. Clients # {}
  BY DEF Clients
<1>6. QED  BY <1>1, <1>2, <1>3, <1>4, <1>5 DEF Next, UIMove

-----------------------------------------------------------------------------
(* Theorems                                                                *)

(* The invariant of the sessions holds, with any number of rooms and Navs.    *)
THEOREM InvCorrect == Safety => []IInv
BY InitInv, StepInv, PTL DEF Safety

(* Every variable keeps its type (all of RoomSession).                       *)
THEOREM TypeCorrect == Safety => []TypeOK
<1>1. IInv => TypeOK
  BY DEF IInv
<1>2. QED  BY <1>1, InvCorrect, PTL

(* NetworkHelper::Finalize: when Nav deletes a NetworkHelper or the dialog is  *)
(* gone, its base thread and its receiving threads are.                      *)
THEOREM FinalizeCorrect == Safety => []NothingRunsAfterFinalize
<1>1. ASSUME IInv, NEW s \in Sessions, Finalized(s)
      PROVE  base[s] \in Idle /\ \A c \in Clients : thr[s][c] \in Ended
  <2>1. s # session \/ ui \in {"new", "closed"}
    BY <1>1 DEF Finalized, IInv, TypeOK, Sessions
  <2>2. QED  BY <1>1, <2>1, LiveBase, LiveThread
<1>2. IInv => NothingRunsAfterFinalize
  BY <1>1 DEF NothingRunsAfterFinalize, Idle
<1>3. QED  BY <1>2, InvCorrect, PTL

(* The global Packet, one for all connections, joins no text of two of them.   *)
THEOREM PackagesCorrect == Safety => []PackagesOfOneSession
<1>1. IInv => PackagesOfOneSession
  BY DEF IInv
<1>2. QED  BY <1>1, InvCorrect, PTL

(* The static roomid, one for all sessions, is that of the token's session      *)
(* whenever NotifyCallback601 reads it.                                      *)
THEOREM TokenCorrect == Safety => []TokenOfItsRoom
<1>1. IInv => TokenOfItsRoom
  BY DEF IInv
<1>2. QED  BY <1>1, InvCorrect, PTL

(* EnterRoom and the receiving thread use the CurlWrapper of a session one     *)
(* after the other.                                                        *)
THEOREM CurlCorrect == Safety => []CurlNotShared
<1>1. ASSUME IInv, session # 0, ui = "request"  PROVE thr[session]["8080"] # "gift"
  <2>1. session \in Sessions
    BY <1>1 DEF IInv, TypeOK, Sessions
  <2>2. QED  BY <1>1, <2>1, RunningThread DEF Asleep, Ended
<1>2. IInv => CurlNotShared
  BY <1>1 DEF CurlNotShared
<1>3. QED  BY <1>2, InvCorrect, PTL

(* No thread calls notify601_ or normalNotify_ before EnterRoom has set them.  *)
THEOREM CallbacksCorrect == Safety => []CallbacksSetBeforeUse
<1>1. ASSUME IInv, NEW s \in Sessions, thr[s]["8080"] \in Working \/ base[s] \in {"lock", "push"}
      PROVE  s \in notify
  BY <1>1 DEF IInv, NotifyInv, Working, Asleep, Ended
<1>2. IInv => CallbacksSetBeforeUse
  BY <1>1 DEF CallbacksSetBeforeUse
<1>3. QED  BY <1>2, InvCorrect, PTL

(* TcpClient::Finalize terminates a receiving thread that runs only after five  *)
(* seconds without an answer: one that answers gets to its end.               *)
THEOREM TerminationCorrect == Safety => KilledOnlyAfterTimeout
<1>1. ASSUME IInv, Next, NEW s \in Sessions, NEW c \in Clients,
             thr[s][c] \notin Ended, thr'[s][c] = "dead"
      PROVE  <<s, c>> \in timedOut
  <2>1. CASE StopThread
    <3>1. thr[s][c] # "dead"
      BY <1>1 DEF Ended
    <3>2. s = session /\ c = stopping
      BY <1>1, <2>1, <3>1, StopFrame
    <3>3. ui = "stop"
      BY <2>1 DEF StopThread, UIGoto
    <3>4. QED  BY <1>1, <3>2, <3>3 DEF IInv, AnswerInv
  <2>2. CASE CreateNetwork
    <3>1. thr'[s] = thr[s] \/ thr'[s] = [d \in Clients |-> "suspended"]
      BY <1>1, <2>2 DEF CreateNetwork, IInv, TypeOK
    <3>2. QED  BY <1>1, <3>1 DEF Ended
  <2>3. CASE SignalStop \/ WaitAnswered \/ WaitTimesOut \/ StopBase \/ JoinBase
    BY <1>1, <2>3 DEF SignalStop, WaitAnswered, WaitTimesOut, StopBase, JoinBase, clientVars, Ended
  <2>4. CASE EnterRoom \/ RequestFails \/ Connect843 \/ SetCallbacks \/ Connect8080
    BY <1>1, <2>4 DEF EnterRoom, RequestFails, Connect843, SetCallbacks, Connect8080, clientVars,
                      Ended
  <2>5. CASE Dispatch \/ TakeMessages \/ Close \/ \E r \in Rooms : Nav(r)
    BY <1>1, <2>5 DEF Dispatch, TakeMessages, Close, Nav, clientVars, Ended
  <2>6. ASSUME NEW q \in Sessions, BaseStep(q) \/ Heartbeat(q)  PROVE FALSE
    BY <1>1, <2>6, BaseFrame DEF Ended
  <2>7. ASSUME NEW q \in Sessions, NEW d \in Clients, RecvStep(q, d) \/ Network(q)
        PROVE  FALSE
    BY <1>1, <2>7, RecvFrame DEF Ended
  <2>8. Clients # {}
    BY DEF Clients
  <2>9. QED
    BY <1>1, <2>1, <2>2, <2>3, <2>4, <2>5, <2>6, <2>7, <2>8
       DEF Next, UIStep, UIRuns, RequestReturns, Finalizing, Entering
<1>2. IInv /\ [Next]_vars =>
        [\A s \in Sessions, c \in Clients :
           (thr[s][c] \notin Ended /\ thr'[s][c] = "dead") => <<s, c>> \in timedOut]_vars
  BY <1>1
<1>3. QED  BY <1>2, InvCorrect, PTL DEF Safety, KilledOnlyAfterTimeout

-----------------------------------------------------------------------------
(* Refinement                                                              *)

(* The UI thread enters, leaves and fetches.                                 *)
LEMMA UIRefines ==
  ASSUME IInv, UIMove  PROVE [Visit!Next]_Visit!vars
<1> USE DEF visit, Visiting, UIGoto, Visit!vars
<1>1. CASE Close \/ \E r \in Rooms : Nav(r)
  BY <1>1 DEF Close, Nav, helperVars, recvVars, dialogVars
<1>2. CASE SignalStop \/ WaitAnswered \/ WaitTimesOut \/ StopThread \/ StopBase
  BY <1>2 DEF SignalStop, WaitAnswered, WaitTimesOut, StopThread, StopBase,
              helperVars, recvVars, dialogVars
<1>3. CASE JoinBase
  <2>1. Visit!Leave
    BY <1>3 DEF JoinBase, Visit!Leave, IInv, StageInv, helperVars, recvVars, dialogVars
  <2>2. QED  BY <2>1 DEF Visit!Next
<1>4. CASE CreateNetwork
  BY <1>4 DEF CreateNetwork, IInv, TypeOK, helperVars, dialogVars
<1>5. CASE EnterRoom
  <2>1. Visit!Enter(wanted) /\ wanted \in Rooms
    BY <1>5 DEF EnterRoom, Visit!Enter, IInv, StageInv, TypeOK, Sessions, recvVars, dialogVars
  <2>2. QED  BY <2>1 DEF Visit!Next
<1>6. CASE RequestFails \/ Connect843 \/ SetCallbacks \/ Connect8080
  BY <1>6 DEF RequestFails, Connect843, SetCallbacks, Connect8080,
              helperVars, recvVars, dialogVars
<1>7. CASE Dispatch
  <2>1. Visit!Fetch
    BY <1>7 DEF Dispatch, Visit!Fetch, helperVars, recvVars
  <2>2. QED  BY <2>1 DEF Visit!Next
<1>8. CASE TakeMessages
  BY <1>8 DEF TakeMessages, helperVars, recvVars, dialogVars
<1>9. QED
  BY <1>1, <1>2, <1>3, <1>4, <1>5, <1>6, <1>7, <1>8
     DEF UIMove, UIStep, UIRuns, RequestReturns, Finalizing, Entering

(* A thread reports and redeems for the visit it belongs to, while it lasts.   *)
LEMMA ThreadRefines ==
  ASSUME IInv, NEW s \in Sessions,
         \/ BaseStep(s) \/ Heartbeat(s) \/ Network(s)
         \/ \E c \in Clients : RecvStep(s, c)
  PROVE  [Visit!Next]_Visit!vars
<1> USE DEF visit, Visiting, Visit!vars, uiVars, helperVars, recvVars, dialogVars
<1>1. CASE HeartbeatPost(s)
  <2>1. s = session /\ session # 0 /\ ui \notin {"new", "closed"}
    BY <1>1, LiveBase DEF HeartbeatPost, BaseGoto, Idle
  <2>2. ui # "enter"
    BY <1>1, <2>1 DEF HeartbeatPost, BaseGoto, IInv, NotifyInv
  <2>3. Visit!Report
    BY <1>1, <2>1, <2>2 DEF HeartbeatPost, Visit!Report
  <2>4. QED  BY <2>3 DEF Visit!Next
<1>2. CASE ReportPost(s)
  <2>1. s = session /\ ui \notin {"new", "closed", "enter"}
    BY <1>2, RunningThread DEF ReportPost, ThrGoto, Asleep, Ended
  <2>2. Visit!Report
    BY <1>2, <2>1 DEF ReportPost, Visit!Report, Sessions
  <2>3. QED  BY <2>2 DEF Visit!Next
<1>3. CASE GiftService(s)
  <2>1. s = session /\ ui \notin {"new", "closed", "enter"} /\ roomid = roomOf[s]
    BY <1>3, RunningThread DEF GiftService, ThrGoto, Asleep, Ended
  <2>2. Visit!Redeem
    BY <1>3, <2>1 DEF GiftService, Visit!Redeem, Sessions
  <2>3. QED  BY <2>2 DEF Visit!Next
<1>4. CASE \/ RunTask(s) \/ HeartbeatLock(s) \/ LoopQuits(s) \/ Heartbeat(s)
           \/ \E c \in Clients : Connected(s, c) \/ ConnectFails(s, c)
  BY <1>4 DEF RunTask, HeartbeatLock, LoopQuits, Heartbeat, Connected, ConnectFails
<1>5. CASE NextCallback(s) \/ ReportLock(s) \/ \E c \in Clients : TestStop(s, c) \/ Answer(s, c)
  BY <1>5 DEF NextCallback, ReportLock, TestStop, Answer
<1>6. CASE Network(s)
  BY <1>6 DEF Network, RecvPart, RecvPackage, RecvIgnored
<1>7. QED
  BY <1>1, <1>2, <1>3, <1>4, <1>5, <1>6 DEF BaseStep, RecvStep, RecvRuns

(* Sessions, tasks and threads together implement the visits of RoomVisit.     *)
THEOREM Refinement == Safety => ImplementsVisits
<1>1. Init => Visit!Init
  BY DEF Init, Visit!Init, visit, Visiting
<1>2. IInv /\ [Next]_vars => [Visit!Next]_Visit!vars
  <2> SUFFICES ASSUME IInv, [Next]_vars  PROVE [Visit!Next]_Visit!vars
    OBVIOUS
  <2>1. CASE UNCHANGED vars
    BY <2>1 DEF vars, uiVars, helperVars, recvVars, dialogVars, visit, Visiting, Visit!vars
  <2>2. QED  BY <2>1, UIRefines, ThreadRefines DEF Next, UIMove
<1>3. QED  BY <1>1, <1>2, InvCorrect, PTL DEF Safety, ImplementsVisits, Visit!Spec
=============================================================================
