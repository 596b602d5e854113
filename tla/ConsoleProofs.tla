---------------------------- MODULE ConsoleProofs ----------------------------
(***************************************************************************)
(* Proofs about the console prototype (ConsoleStart and ConsoleHandoff), for   *)
(* any number of packages, failing requests, heartbeats and tries of a gift.  *)
(***************************************************************************)
EXTENDS ConsoleHandoff, SequenceTheorems, TLAPS

(* Where RunTest is before the login package, ...                            *)
Requesting == {"login", "mydata", "center", "page", "current", "enter"}
Connecting == {"extract", "connect843", "set", "connect8080"}

(* A request is performed only where RunTest makes one; the one performed by   *)
(* enterRoom has cleared what an earlier one collected, so that what it keeps  *)
(* is of its own answer.                                                    *)
RequestInv ==
  /\ performing => main \in Requesting \cup {"gift"}
  /\ main = "enter" /\ performing => currentWriteData \subseteq {"enter"}
  /\ response \subseteq {"enter"}
  /\ decodes = 0 \/ main \notin Requesting \cup Connecting

(* No client receives before the connection to 843, and the callbacks are set  *)
(* right after it.  Nothing is sent until the login package is, and the        *)
(* heartbeat thread is started after it.                                     *)
SendInv ==
  /\ main \in Requesting \cup {"extract", "connect843"} => connected = {}
  /\ callbacks \/ main \in Requesting \cup {"extract", "connect843", "set", "ended"}
  /\ main \in Requesting \cup Connecting \cup {"send"} => sent = << >> /\ ~ beating
  /\ beating \/ main = "start" => sent # << >>

(* An announcer holds g_mtx_601 while it writes the globals, g_mtx while and   *)
(* after it wakes the main thread, and announces a token only if it has one.   *)
Inside601 == {"command", "assign", "ring", "unlock601"}
Inside == {"unlock601", "release"}
AnnounceInv ==
  \A t \in Receivers :
    /\ pc[t] \in Inside601 <=> g_mtx_601 = t
    /\ pc[t] \in Inside <=> g_mtx = t
    /\ job[t] = 601 => token[t] # 0

(* The inductive invariant.                                                  *)
IInv ==
  /\ TypeOK /\ LoginFirst /\ HandlesAccounted
  /\ main = "gift" => i < GiftTries
  /\ RequestInv /\ SendInv /\ AnnounceInv

Places == Requesting \cup Connecting \cup
          {"send", "start", "wait", "waiting", "woken", "read", "gift", "ended"}

-----------------------------------------------------------------------------
(* The six requests: all of the same shape, and only two collect.             *)
LEMMA RequestFacts ==
  /\ DOMAIN Requests = Requesting
  /\ \A k \in Requesting :
       /\ Requests[k].then \in Requesting \cup {"extract"}
       /\ Requests[k].collects <=> k \in {"mydata", "enter"}
BY DEF Requests, Requesting, LoginRequestWithCookies, getMyUserDataInfo, getUserCenter,
       EnterRoomPage, getCurrentUserInfo, enterRoom

LEMMA FieldFacts == Len(Fields) = 6 /\ Unset = [f \in 1..6 |-> {}]
BY DEF Fields, Unset

LEMMA PlaceFacts ==
  Places = DOMAIN Requests \cup {"extract", "connect843", "set", "connect8080", "send", "start",
              "wait", "waiting", "woken", "read", "gift", "ended"}
BY RequestFacts DEF Places, Requesting, Connecting

(* Before the first request.                                                 *)
LEMMA InitInv == Init => IInv
<1> SUFFICES ASSUME Init  PROVE IInv
  OBVIOUS
<1> USE StartAssumption, BoundAssumption DEF Init, StartInit
<1>1. StartTypeOK
  <2>1. user \in [1..Len(Fields) -> SUBSET {"mydata", "enter"}]
    BY FieldFacts
  <2>2. {currentWriteData, response} \subseteq SUBSET {"mydata", "enter"}
    OBVIOUS
  <2>3. sent \in Seq({"login", "heartbeat"})
    BY EmptySeq
  <2>4. failures \in 0..MaxFailures /\ decodes \in 0..1 /\ handles \in Nat
    OBVIOUS
  <2>5. performing \in BOOLEAN /\ callbacks \in BOOLEAN /\ alive \in BOOLEAN
        /\ beating \in BOOLEAN
    BY Zenon
  <2>6. connected \subseteq {843, 8080}
    OBVIOUS
  <2>7. QED  BY <2>1, <2>2, <2>3, <2>4, <2>5, <2>6 DEF StartTypeOK
<1>2. TypeOK
  BY <1>1, RequestFacts DEF TypeOK, Requesting, Receivers, Tokens, NoOne
<1>3. LoginFirst
  BY FieldFacts DEF LoginFirst
<1>4. RequestInv /\ SendInv
  BY DEF RequestInv, SendInv, Requesting, Connecting
<1>5. AnnounceInv
  BY DEF AnnounceInv, Receivers, Inside601, Inside, NoOne
<1>6. QED
  BY <1>2, <1>3, <1>4, <1>5 DEF IInv, HandlesAccounted

-----------------------------------------------------------------------------
(* The start                                                               *)

(* A step of the start leaves the announcers alone.                          *)
LEMMA HandoffKept ==
  ASSUME IInv, UNCHANGED handoffVars, StartTypeOK', main' \in Places, main' # "gift",
         LoginFirst', HandlesAccounted', RequestInv', SendInv'
  PROVE  IInv'
<1>1. TypeOK'
  BY PlaceFacts DEF IInv, TypeOK, handoffVars, threadVars, mutexVars, globalVars, historyVars
<1>2. AnnounceInv'
  BY DEF IInv, AnnounceInv, handoffVars, threadVars, mutexVars
<1>3. QED  BY <1>1, <1>2 DEF IInv

LEMMA BeginsInv ==
  ASSUME IInv, NEW k \in DOMAIN Requests, Begins(k), UNCHANGED handoffVars
  PROVE  IInv'
<1>1. /\ main = k /\ main' = main /\ performing = FALSE /\ performing' = TRUE
      /\ handles' = handles + 1 /\ failures' = failures /\ decodes' = decodes
      /\ response' = response /\ user' = user /\ UNCHANGED netVars
      /\ currentWriteData' = IF k \in {"mydata", "enter"} THEN {} ELSE currentWriteData
  <2>1. performing \in BOOLEAN
    BY DEF IInv, TypeOK, StartTypeOK
  <2>2. QED  BY <2>1, RequestFacts DEF Begins, Perform
<1>2. k \in Requesting /\ main' \in Places /\ main' # "gift"
  BY <1>1, RequestFacts DEF Places, Requesting
<1>3. StartTypeOK'
  <2>1. {currentWriteData', response'} \subseteq SUBSET {"mydata", "enter"}
    BY <1>1 DEF IInv, TypeOK, StartTypeOK
  <2>2. performing' \in BOOLEAN
    BY <1>1, Zenon
  <2>3. QED  BY <1>1, <2>1, <2>2 DEF IInv, TypeOK, StartTypeOK, netVars
<1>4. LoginFirst'
  BY <1>1 DEF IInv, LoginFirst, netVars
<1>5. HandlesAccounted'
  BY <1>1 DEF IInv, TypeOK, StartTypeOK, HandlesAccounted
<1>6. RequestInv'
  BY <1>1, <1>2 DEF IInv, RequestInv
<1>7. SendInv'
  BY <1>1, <1>2 DEF IInv, SendInv, netVars
<1>8. QED  BY <1>2, <1>3, <1>4, <1>5, <1>6, <1>7, HandoffKept

(* What a request that returns leaves, here and in the gift loop.              *)
LEMMA ReturnFacts ==
  ASSUME IInv, NEW bodies \in {{}, {"mydata"}, {"enter"}}, NEW saves \in BOOLEAN,
         saves => bodies = {"enter"} /\ main = "enter",
         main = "enter" => bodies = {"enter"},
         Unsent \/ Broken(bodies) \/ Answered(bodies, saves)
  PROVE  /\ performing' = FALSE
         /\ {currentWriteData', response'} \subseteq SUBSET {"mydata", "enter"}
         /\ response' \subseteq {"enter"}
         /\ handles' \in Nat /\ failures' \in 0..MaxFailures /\ decodes' = decodes
         /\ handles' = failures' + decodes'
<1> USE StartAssumption
<1>1. /\ performing \in BOOLEAN /\ handles \in Nat /\ failures \in 0..MaxFailures
      /\ decodes \in 0..1
      /\ currentWriteData \subseteq {"mydata", "enter"}
      /\ response \subseteq {"enter"}
      /\ handles = failures + decodes + (IF performing THEN 1 ELSE 0)
      /\ main = "enter" /\ performing => currentWriteData \subseteq {"enter"}
  BY DEF IInv, TypeOK, StartTypeOK, RequestInv, HandlesAccounted
<1>2. CASE Unsent
  BY <1>1, <1>2 DEF Unsent, handleVars
<1>3. CASE Broken(bodies)
  BY <1>1, <1>3 DEF Broken, WriteCallback
<1>4. CASE Answered(bodies, saves)
  BY <1>1, <1>4 DEF Answered, WriteCallback
<1>5. QED  BY <1>2, <1>3, <1>4

LEMMA ReturnsInv ==
  ASSUME IInv, NEW k \in DOMAIN Requests, Returns(k), UNCHANGED handoffVars
  PROVE  IInv'
<1> DEFINE bodies == IF Requests[k].collects THEN {k} ELSE {}
<1>1. k \in Requesting /\ main = k /\ main' \in Requesting \cup {"extract"}
      /\ user' = user /\ UNCHANGED netVars
  BY RequestFacts DEF Returns, Step
<1>2. bodies \in {{}, {"mydata"}, {"enter"}} /\ (k = "enter" <=> bodies = {"enter"})
  BY <1>1, RequestFacts
<1>3. Unsent \/ Broken(bodies) \/ Answered(bodies, k = "enter")
  BY DEF Returns
<1> HIDE DEF bodies
<1>4. (k = "enter") \in BOOLEAN
  BY Zenon
<1>5. /\ performing' = FALSE
      /\ {currentWriteData', response'} \subseteq SUBSET {"mydata", "enter"}
      /\ response' \subseteq {"enter"}
      /\ handles' \in Nat /\ failures' \in 0..MaxFailures /\ decodes' = decodes
      /\ handles' = failures' + decodes'
  BY <1>1, <1>2, <1>3, <1>4, ReturnFacts
<1>6. main' \in Places /\ main' # "gift"
  BY <1>1 DEF Places, Requesting, Connecting
<1>7. StartTypeOK'
  <2>1. performing' \in BOOLEAN
    BY <1>5, Zenon
  <2>2. /\ user' \in [1..Len(Fields) -> SUBSET {"mydata", "enter"}]
        /\ callbacks' \in BOOLEAN /\ connected' \subseteq {843, 8080}
        /\ sent' \in Seq({"login", "heartbeat"})
        /\ alive' \in BOOLEAN /\ beating' \in BOOLEAN
    BY <1>1 DEF IInv, TypeOK, StartTypeOK, netVars
  <2>3. decodes' \in 0..1
    BY <1>5 DEF IInv, TypeOK, StartTypeOK
  <2>4. /\ handles' \in Nat /\ failures' \in 0..MaxFailures
        /\ {currentWriteData', response'} \subseteq SUBSET {"mydata", "enter"}
    BY <1>5
  <2>5. QED  BY <2>1, <2>2, <2>3, <2>4 DEF StartTypeOK
<1>8. LoginFirst'
  BY <1>1 DEF IInv, LoginFirst, netVars
<1>9. HandlesAccounted'
  BY <1>5 DEF HandlesAccounted
<1>10. RequestInv'
  BY <1>1, <1>5 DEF IInv, RequestInv
<1>11. SendInv'
  BY <1>1 DEF IInv, SendInv, netVars, Requesting, Connecting
<1>12. QED  BY <1>6, <1>7, <1>8, <1>9, <1>10, <1>11, HandoffKept

(* Extract fills all of the user data or less than five of them.              *)
LEMMA ExtractInv ==
  ASSUME IInv, Extract, UNCHANGED handoffVars
  PROVE  IInv'
<1>1. PICK n \in {0} \cup Lacking \cup {Len(Fields)} :
        /\ response = {} => n = 0
        /\ user' = [f \in DOMAIN user |-> IF f <= n THEN response ELSE {}]
  BY DEF Extract
<1>2. n \in 0..4 \/ n = 6
  BY FieldFacts, StartAssumption
<1>3. /\ main = "extract" /\ main' = "connect843" /\ currentWriteData' = {} /\ response' = {}
      /\ UNCHANGED <<handleVars, netVars>>
  BY DEF Extract, Step
<1>4. response \subseteq {"enter"} /\ DOMAIN user = 1..6
  BY FieldFacts DEF IInv, RequestInv, TypeOK, StartTypeOK
<1>5. user' \in [1..Len(Fields) -> SUBSET {"mydata", "enter"}]
  BY <1>1, <1>4, FieldFacts
<1>6. StartTypeOK'
  BY <1>3, <1>5 DEF IInv, TypeOK, StartTypeOK, handleVars, netVars
<1>7. LoginFirst'
  <2>1. \A f \in DOMAIN user' : user'[f] \subseteq {"enter"}
    BY <1>1, <1>4
  <2>2. user'[5] # {} => \A f \in DOMAIN user' : user'[f] # {}
    BY <1>1, <1>2, <1>4
  <2>3. QED  BY <1>3, <2>1, <2>2 DEF IInv, LoginFirst, netVars
<1>8. HandlesAccounted' /\ RequestInv' /\ SendInv'
  BY <1>3 DEF IInv, HandlesAccounted, RequestInv, SendInv, handleVars, netVars, Requesting,
              Connecting
<1>9. QED  BY <1>3, <1>6, <1>7, <1>8, HandoffKept DEF Places, Connecting

(* The other steps up to the login package forget, or change connections.      *)
LEMMA ExtractThrowsInv ==
  ASSUME IInv, ExtractThrows, UNCHANGED handoffVars
  PROVE  IInv'
<1>1. /\ main = "extract" /\ main' = "ended" /\ UNCHANGED <<bodyVars, handleVars, netVars>>
  BY DEF ExtractThrows, Step
<1>2. StartTypeOK' /\ LoginFirst'
  BY <1>1 DEF IInv, TypeOK, StartTypeOK, LoginFirst, bodyVars, handleVars, netVars
<1>3. HandlesAccounted' /\ RequestInv' /\ SendInv'
  BY <1>1 DEF IInv, HandlesAccounted, RequestInv, SendInv, bodyVars, handleVars, netVars,
              Requesting, Connecting
<1>4. QED  BY <1>1, <1>2, <1>3, HandoffKept DEF Places

LEMMA Connect843Inv ==
  ASSUME IInv, Connect843 \/ SetCallbacks, UNCHANGED handoffVars
  PROVE  IInv'
<1>1. /\ \/ main = "connect843" /\ main' = "set" /\ callbacks' = callbacks
         \/ main = "set" /\ main' = "connect8080" /\ callbacks' = TRUE
      /\ UNCHANGED <<bodyVars, handleVars, sent, alive, beating>>
  BY DEF Connect843, SetCallbacks, Step
<1>2. callbacks' \in BOOLEAN /\ connected' \subseteq {843, 8080}
  <2>1. callbacks \in BOOLEAN /\ connected \subseteq {843, 8080}
    BY DEF IInv, TypeOK, StartTypeOK
  <2>2. CASE Connect843
    BY <2>1, <2>2 DEF Connect843, TcpConnect
  <2>3. CASE SetCallbacks
    <3>1. callbacks' = TRUE /\ connected' = connected
      BY <2>3 DEF SetCallbacks
    <3>2. callbacks' \in BOOLEAN
      BY <3>1, Zenon
    <3>3. QED  BY <2>1, <3>1, <3>2
  <2>4. QED  BY <2>2, <2>3
<1>3. StartTypeOK'
  BY <1>1, <1>2 DEF IInv, TypeOK, StartTypeOK, bodyVars, handleVars
<1>4. LoginFirst' /\ HandlesAccounted'
  BY <1>1 DEF IInv, LoginFirst, HandlesAccounted, bodyVars, handleVars
<1>5. RequestInv' /\ SendInv'
  BY <1>1 DEF IInv, RequestInv, SendInv, bodyVars, handleVars, Connecting, Requesting
<1>6. QED  BY <1>1, <1>3, <1>4, <1>5, HandoffKept DEF Places, Connecting

LEMMA Connect8080Inv ==
  ASSUME IInv, Connect8080, UNCHANGED handoffVars
  PROVE  IInv'
<1>1. PICK accepted \in BOOLEAN :
        /\ TcpConnect(8080, accepted)
        /\ Step("connect8080", IF accepted THEN "send" ELSE "wait")
        /\ user' = IF accepted THEN user ELSE Unset
  BY DEF Connect8080
<1>2. /\ main = "connect8080" /\ main' \in {"send", "wait"}
      /\ handles' = handles + 1 /\ decodes' = decodes + 1
      /\ UNCHANGED <<currentWriteData, response, performing, failures, callbacks, sent, alive,
                     beating>>
  BY <1>1 DEF Connect8080, UrlDecode, Step
<1>3. decodes = 0 /\ handles \in Nat
  BY <1>2 DEF IInv, RequestInv, Connecting, TypeOK, StartTypeOK
<1>4. connected' \subseteq {843, 8080}
  BY <1>1 DEF TcpConnect, IInv, TypeOK, StartTypeOK
<1>5. user' = user \/ user' = [f \in 1..6 |-> {}]
  BY <1>1, FieldFacts
<1>6. StartTypeOK'
  <2>1. user' \in [1..Len(Fields) -> SUBSET {"mydata", "enter"}]
    BY <1>5, FieldFacts DEF IInv, TypeOK, StartTypeOK
  <2>2. handles' \in Nat /\ decodes' \in 0..1
    BY <1>2, <1>3
  <2>3. QED  BY <1>2, <1>4, <2>1, <2>2 DEF IInv, TypeOK, StartTypeOK
<1>7. LoginFirst'
  BY <1>2, <1>5 DEF IInv, LoginFirst
<1>8. HandlesAccounted'
  BY <1>2, <1>3 DEF IInv, TypeOK, StartTypeOK, HandlesAccounted
<1>9. RequestInv' /\ SendInv'
  BY <1>2 DEF IInv, RequestInv, SendInv, Connecting, Requesting
<1>10. QED  BY <1>2, <1>6, <1>7, <1>8, <1>9, HandoffKept DEF Places

LEMMA LoginThenHeartbeatInv ==
  ASSUME IInv, LoginThenHeartbeat, UNCHANGED handoffVars
  PROVE  IInv'
<1>1. /\ main \in {"send", "start"} /\ main' \in {"start", "wait"}
      /\ UNCHANGED <<currentWriteData, response, handleVars, callbacks, connected, alive>>
  BY DEF LoginThenHeartbeat, Step
<1>2. HandlesAccounted' /\ RequestInv'
  BY <1>1 DEF IInv, HandlesAccounted, RequestInv, handleVars, Requesting, Connecting
<1>3. CASE main = "send"
  <2>1. /\ main' = "start" /\ sent' = Append(sent, "login") /\ user' = [f \in 1..6 |-> {}]
        /\ beating' = beating
    BY <1>3, FieldFacts DEF LoginThenHeartbeat, Step
  <2>2. sent = << >> /\ ~ beating
    BY <1>3 DEF IInv, SendInv
  <2>3. sent' = <<"login">> /\ sent' \in Seq({"login", "heartbeat"}) /\ sent' # << >>
    BY <2>1, <2>2
  <2>4. user' \in [1..Len(Fields) -> SUBSET {"mydata", "enter"}]
    BY <2>1, FieldFacts
  <2>5. StartTypeOK'
    BY <1>1, <2>1, <2>3, <2>4 DEF IInv, TypeOK, StartTypeOK, handleVars
  <2>6. LoginFirst'
    BY <2>1, <2>3 DEF LoginFirst
  <2>7. SendInv'
    BY <1>1, <1>3, <2>1, <2>3 DEF IInv, SendInv, Requesting, Connecting
  <2>8. QED  BY <1>1, <1>2, <2>5, <2>6, <2>7, HandoffKept DEF Places
<1>4. CASE main = "start"
  <2>1. main' = "wait" /\ beating' = TRUE /\ user' = user /\ sent' = sent
    BY <1>4 DEF LoginThenHeartbeat, Step
  <2>2. sent # << >>
    BY <1>4 DEF IInv, SendInv
  <2>3. beating' \in BOOLEAN
    BY <2>1, Zenon
  <2>4. StartTypeOK'
    BY <1>1, <2>1, <2>3 DEF IInv, TypeOK, StartTypeOK, handleVars
  <2>5. LoginFirst' /\ SendInv'
    BY <1>1, <1>4, <2>1, <2>2 DEF IInv, LoginFirst, SendInv, Requesting, Connecting
  <2>6. QED  BY <1>1, <1>2, <2>4, <2>5, HandoffKept DEF Places
<1>5. QED  BY <1>1, <1>3, <1>4

LEMMA StartInv == IInv /\ Start /\ UNCHANGED handoffVars => IInv'
BY BeginsInv, ReturnsInv, ExtractInv, ExtractThrowsInv, Connect843Inv, Connect8080Inv,
   LoginThenHeartbeatInv DEF Start

(* A heartbeat comes after the login package.                                *)
LEMMA SendHeartBeatInv == IInv /\ SendHeartBeat /\ UNCHANGED handoffVars => IInv'
<1> SUFFICES ASSUME IInv, SendHeartBeat, UNCHANGED handoffVars  PROVE IInv'
  OBVIOUS
<1>1. /\ beating /\ main' = main /\ sent' = Append(sent, "heartbeat")
      /\ UNCHANGED <<bodyVars, handleVars, callbacks, connected, alive, beating>>
  BY DEF SendHeartBeat
<1>2. sent # << >> /\ sent \in Seq({"login", "heartbeat"})
  BY <1>1 DEF IInv, SendInv, TypeOK, StartTypeOK
<1>3. Len(sent) \in Nat /\ Len(sent) > 0 /\ DOMAIN sent = 1..Len(sent)
  BY <1>2
<1>4. /\ sent' \in Seq({"login", "heartbeat"}) /\ sent' # << >>
      /\ DOMAIN sent' = 1..(Len(sent) + 1)
      /\ \A n \in 1..Len(sent) : sent'[n] = sent[n]
      /\ sent'[Len(sent) + 1] = "heartbeat"
  BY <1>1, <1>2, AppendProperties, LenProperties
<1>5. TypeOK'
  <2>1. StartTypeOK'
    BY <1>1, <1>4 DEF IInv, TypeOK, StartTypeOK, bodyVars, handleVars
  <2>2. QED
    BY <1>1, <2>1 DEF IInv, TypeOK, handoffVars, threadVars, mutexVars, globalVars, historyVars
<1>6. LoginFirst'
  <2>1. ASSUME NEW n \in DOMAIN sent'  PROVE sent'[n] = "login" <=> n = 1
    BY <1>3, <1>4 DEF IInv, LoginFirst
  <2>2. QED  BY <1>1, <2>1 DEF IInv, LoginFirst, bodyVars
<1>7. HandlesAccounted' /\ RequestInv' /\ SendInv'
  BY <1>1, <1>4 DEF IInv, HandlesAccounted, RequestInv, SendInv, bodyVars, handleVars
<1>8. AnnounceInv' /\ (main' = "gift" => i' < GiftTries)
  BY <1>1 DEF IInv, AnnounceInv, handoffVars, threadVars, mutexVars
<1>9. QED  BY <1>5, <1>6, <1>7, <1>8 DEF IInv

-----------------------------------------------------------------------------
(* The receiving threads                                                    *)

(* A step of a receiver or of the waiting main thread leaves the start alone.  *)
LEMMA StartKept ==
  ASSUME IInv, UNCHANGED <<bodyVars, handleVars, callbacks, connected, sent, beating>>,
         alive' \in BOOLEAN,
         \/ main' = main
         \/ /\ main \in {"wait", "waiting", "woken", "read", "gift"}
            /\ main' \in {"wait", "waiting", "woken", "read", "gift"} /\ ~ performing
         \/ ~ callbacks /\ connected # {} /\ main' = "ended"
  PROVE  StartTypeOK' /\ main' \in Places /\ LoginFirst' /\ HandlesAccounted' /\ RequestInv' /\ SendInv'
<1>1. StartTypeOK' /\ LoginFirst' /\ HandlesAccounted'
  BY DEF IInv, TypeOK, StartTypeOK, LoginFirst, HandlesAccounted, bodyVars, handleVars
<1>2. CASE main' = main
  <2>1. main' \in Places
    BY <1>2, PlaceFacts DEF IInv, TypeOK
  <2>2. RequestInv' /\ SendInv'
    BY <1>2 DEF IInv, RequestInv, SendInv, bodyVars, handleVars
  <2>3. QED  BY <1>1, <2>1, <2>2
<1>3. CASE /\ main \in {"wait", "waiting", "woken", "read", "gift"}
           /\ main' \in {"wait", "waiting", "woken", "read", "gift"} /\ ~ performing
  BY <1>1, <1>3 DEF IInv, RequestInv, SendInv, bodyVars, handleVars, Places, Requesting, Connecting
<1>4. CASE ~ callbacks /\ connected # {} /\ main' = "ended"
  <2>1. main \in {"set", "ended"}
    BY <1>4 DEF IInv, SendInv
  <2>2. RequestInv'
    BY <1>4, <2>1 DEF IInv, RequestInv, bodyVars, handleVars, Requesting, Connecting
  <2>3. SendInv'
    BY <1>4, <2>1 DEF IInv, SendInv, Requesting, Connecting
  <2>4. QED  BY <1>1, <1>4, <2>2, <2>3 DEF Places
<1>5. QED  BY <1>2, <1>3, <1>4

(* What a step of a receiver t changes of the rest.                           *)
LEMMA ReceiverStep ==
  ASSUME IInv, NEW t \in Receivers, UNCHANGED <<i, bodyVars, handleVars>>,
         StartTypeOK', main' \in Places, main' = "gift" => main = "gift",
         LoginFirst', HandlesAccounted', RequestInv', SendInv', AnnounceInv',
         pc' \in [Receivers ->
                 {"recv", "lock601", "command", "assign", "ring", "unlock601", "release"}],
         job' \in [Receivers -> {0, 601}], token' \in [Receivers -> {0} \cup Tokens],
         received' \in 0..MaxPackages,
         {g_mtx_601', g_mtx'} \subseteq {g_mtx_601, g_mtx, t, NoOne},
         g_commandid' \in {0, 601}, g_key' \in {0} \cup Tokens,
         redeemed' = redeemed, rung' \subseteq Tokens, overtaken' \subseteq rung'
  PROVE  IInv'
<1>1. TypeOK'
  BY PlaceFacts DEF IInv, TypeOK
<1>2. QED  BY <1>1 DEF IInv

LEMMA RecvInv == ASSUME IInv, NEW t \in Receivers, Recv(t)  PROVE IInv'
<1> USE BoundAssumption DEF Tokens
<1>1. /\ pc[t] = "recv" /\ t \in connected /\ alive' = TRUE /\ received' = received + 1
      /\ received < MaxPackages
      /\ UNCHANGED <<i, bodyVars, handleVars, callbacks, connected, sent, beating,
                     mutexVars, globalVars, historyVars>>
  BY DEF Recv
<1>2. alive' \in BOOLEAN
  BY <1>1, Zenon
<1>3. \/ main' = main
      \/ ~ callbacks /\ connected # {} /\ main' = "ended"
  BY <1>1 DEF Recv
<1>4. /\ StartTypeOK' /\ main' \in Places /\ LoginFirst' /\ HandlesAccounted' /\ RequestInv'
      /\ SendInv'
  BY <1>1, <1>2, <1>3, StartKept
<1>5. /\ pc \in [Receivers ->
                 {"recv", "lock601", "command", "assign", "ring", "unlock601", "release"}]
      /\ job \in [Receivers -> {0, 601}] /\ token \in [Receivers -> {0} \cup Tokens]
      /\ received \in 0..MaxPackages /\ AnnounceInv
  BY DEF IInv, TypeOK
<1>6. \/ UNCHANGED <<pc, job, token>>
      \/ /\ pc' = [pc EXCEPT ![t] = "lock601"] /\ job' = [job EXCEPT ![t] = 0]
         /\ \E key \in {0, received + 1} : token' = [token EXCEPT ![t] = key]
  BY DEF Recv, Goto
<1>7. /\ pc' \in [Receivers ->
                  {"recv", "lock601", "command", "assign", "ring", "unlock601", "release"}]
      /\ job' \in [Receivers -> {0, 601}] /\ token' \in [Receivers -> {0} \cup Tokens]
      /\ received' \in 0..MaxPackages
  BY <1>1, <1>5, <1>6
<1>8. AnnounceInv'
  BY <1>1, <1>5, <1>6 DEF AnnounceInv, Inside601, Inside, mutexVars
<1>9. /\ rung' \subseteq Tokens /\ overtaken' \subseteq rung' /\ g_commandid' \in {0, 601}
      /\ g_key' \in {0} \cup Tokens
  BY <1>1 DEF IInv, TypeOK, globalVars, historyVars
<1>10. QED
  BY <1>1, <1>3, <1>4, <1>7, <1>8, <1>9, ReceiverStep DEF mutexVars, historyVars

(* The steps of Notify.                                                      *)
LEMMA NotifyInv == ASSUME IInv, NEW t \in Receivers, Notify(t)  PROVE IInv'
<1>1. /\ pc \in [Receivers ->
                 {"recv", "lock601", "command", "assign", "ring", "unlock601", "release"}]
      /\ job \in [Receivers -> {0, 601}] /\ token \in [Receivers -> {0} \cup Tokens]
      /\ received \in 0..MaxPackages /\ AnnounceInv
      /\ {g_mtx_601, g_mtx} \subseteq Receivers \cup {NoOne}
      /\ g_commandid \in {0, 601} /\ g_key \in {0} \cup Tokens
      /\ rung \subseteq Tokens /\ overtaken \subseteq rung
      /\ alive \in BOOLEAN
  BY DEF IInv, TypeOK, StartTypeOK
<1>2. NoOne \notin Receivers
  BY DEF Receivers, NoOne
<1>3. /\ UNCHANGED <<i, bodyVars, handleVars, callbacks, connected, sent, beating, alive>>
      /\ token' = token /\ received' = received /\ redeemed' = redeemed
  <2>1. CASE NotifyOne(t)
    BY <2>1 DEF NotifyOne, netVars
  <2>2. CASE Lock601(t) \/ Unlock601(t) \/ Release(t)
    BY <2>2 DEF Lock601, Unlock601, Release, startVars, netVars, historyVars
  <2>3. CASE SetCommand(t) \/ AssignKey(t)
    BY <2>3 DEF SetCommand, AssignKey, startVars, netVars, historyVars
  <2>4. QED  BY <2>1, <2>2, <2>3 DEF Notify
<1>4. \/ main' = main
      \/ main = "waiting" /\ main' = "woken"
  BY DEF Notify, Lock601, SetCommand, AssignKey, NotifyOne, Unlock601, Release, startVars
<1>5. ~ performing \/ main # "waiting"
  BY DEF IInv, RequestInv, Requesting
<1>6. /\ StartTypeOK' /\ main' \in Places /\ LoginFirst' /\ HandlesAccounted' /\ RequestInv'
      /\ SendInv'
  BY <1>1, <1>3, <1>4, <1>5, StartKept
<1>7. /\ pc' \in [Receivers ->
                  {"recv", "lock601", "command", "assign", "ring", "unlock601", "release"}]
      /\ job' \in [Receivers -> {0, 601}]
  BY <1>1 DEF Notify, Lock601, SetCommand, AssignKey, NotifyOne, Unlock601, Release, Goto
<1>8. {g_mtx_601', g_mtx'} \subseteq {g_mtx_601, g_mtx, t, NoOne}
  BY DEF Notify, Lock601, SetCommand, AssignKey, NotifyOne, Unlock601, Release, mutexVars
<1>9. g_commandid' \in {0, 601} /\ g_key' \in {0} \cup Tokens
  BY <1>1 DEF Notify, Lock601, SetCommand, AssignKey, NotifyOne, Unlock601, Release, globalVars
<1>10. rung' \subseteq Tokens /\ overtaken' \subseteq rung'
  <2>1. job[t] = 601 => token[t] \in Tokens
    BY <1>1 DEF AnnounceInv
  <2>2. QED
    BY <1>1, <2>1
    DEF Notify, Lock601, SetCommand, AssignKey, NotifyOne, Unlock601, Release, historyVars
<1>11. AnnounceInv'
  <2>1. CASE Lock601(t)
    BY <1>1, <1>2, <1>3, <2>1 DEF Lock601, Goto, AnnounceInv, Inside601, Inside
  <2>2. CASE SetCommand(t)
    BY <1>1, <1>2, <1>3, <2>2 DEF SetCommand, Goto, AnnounceInv, Inside601, Inside, mutexVars
  <2>3. CASE AssignKey(t)
    BY <1>1, <1>2, <1>3, <2>3 DEF AssignKey, Goto, AnnounceInv, Inside601, Inside, mutexVars
  <2>4. CASE NotifyOne(t)
    BY <1>1, <1>2, <1>3, <2>4 DEF NotifyOne, Goto, AnnounceInv, Inside601, Inside
  <2>5. CASE Unlock601(t)
    BY <1>1, <1>2, <1>3, <2>5 DEF Unlock601, Goto, AnnounceInv, Inside601, Inside
  <2>6. CASE Release(t)
    BY <1>1, <1>2, <1>3, <2>6 DEF Release, Goto, AnnounceInv, Inside601, Inside
  <2>7. QED  BY <2>1, <2>2, <2>3, <2>4, <2>5, <2>6 DEF Notify
<1>12. QED
  BY <1>1, <1>3, <1>4, <1>6, <1>7, <1>8, <1>9, <1>10, <1>11, ReceiverStep

-----------------------------------------------------------------------------
(* The main thread                                                          *)

(* Waiting, and reading the command.                                         *)
LEMMA WaitInv ==
  ASSUME IInv, WaitBegins \/ SpuriousWake \/ WaitEnds \/ ReadCommand
  PROVE  IInv'
<1>1. /\ UNCHANGED <<bodyVars, handleVars, netVars, threadVars, mutexVars, globalVars, historyVars>>
      /\ main \in {"wait", "waiting", "woken", "read"}
      /\ main' \in {"wait", "waiting", "woken", "read", "gift"}
      /\ i' = i \/ i' = 0
      /\ main' = "gift" => i' = 0
  BY DEF WaitBegins, SpuriousWake, WaitEnds, ReadCommand, Step
<1>2. ~ performing /\ alive \in BOOLEAN
  BY <1>1 DEF IInv, RequestInv, Requesting, TypeOK, StartTypeOK
<1>3. /\ StartTypeOK' /\ main' \in Places /\ LoginFirst' /\ HandlesAccounted' /\ RequestInv'
      /\ SendInv'
  <2>1. /\ UNCHANGED <<bodyVars, handleVars, callbacks, connected, sent, beating>>
        /\ alive' \in BOOLEAN
    BY <1>1, <1>2 DEF netVars
  <2>2. QED  BY <1>1, <1>2, <2>1, StartKept
<1>4. i' \in 0..GiftTries /\ (main' = "gift" => i' < GiftTries)
  BY <1>1, BoundAssumption DEF IInv, TypeOK
<1>5. TypeOK'
  BY <1>1, <1>3, <1>4, PlaceFacts
  DEF IInv, TypeOK, threadVars, mutexVars, globalVars, historyVars
<1>6. AnnounceInv'
  BY <1>1 DEF IInv, AnnounceInv, threadVars, mutexVars
<1>7. QED  BY <1>3, <1>4, <1>5, <1>6 DEF IInv

(* What the loop reads of g_key is a token, no token or a torn string.         *)
LEMMA KeysReadFacts == IInv => KeysRead \subseteq {0, Torn} \cup Tokens
BY DEF KeysRead, IInv, TypeOK

(* The gift loop.                                                            *)
LEMMA GiftInv ==
  ASSUME IInv, GiftService \/ GiftReturns
  PROVE  IInv'
<1> USE BoundAssumption, StartAssumption
<1>1. /\ main = "gift" /\ i \in 0..GiftTries /\ i < GiftTries
      /\ handles \in Nat /\ failures \in 0..MaxFailures /\ decodes \in 0..1
      /\ performing \in BOOLEAN /\ response \subseteq {"enter"}
  <2>1. main = "gift"
    BY DEF GiftService, GiftReturns
  <2>2. QED  BY <2>1 DEF IInv, TypeOK, StartTypeOK, RequestInv
<1>2. UNCHANGED <<user, netVars, threadVars, mutexVars, globalVars, rung, overtaken>>
  BY DEF GiftService, GiftReturns, historyVars
<1>3. redeemed' \subseteq {0, Torn} \cup Tokens
  <2>1. redeemed \subseteq {0, Torn} \cup Tokens
    BY DEF IInv, TypeOK
  <2>2. CASE GiftService
    <3>1. PICK key \in KeysRead : redeemed' = redeemed \cup {key}
      BY <2>2 DEF GiftService
    <3>2. QED  BY <2>1, <3>1, KeysReadFacts
  <2>3. CASE GiftReturns
    BY <2>1, <2>3 DEF GiftReturns, historyVars
  <2>4. QED  BY <2>2, <2>3
<1>4. NextTry \/ UNCHANGED <<main, i>>
  BY DEF GiftService, GiftReturns
<1>5. /\ main' \in {"gift", "wait"} /\ i' \in 0..GiftTries
      /\ main' = "gift" => i' < GiftTries
  <2>1. CASE NextTry
    BY <1>1, <2>1 DEF NextTry, Step
  <2>2. CASE UNCHANGED <<main, i>>
    BY <1>1, <2>2
  <2>3. QED  BY <1>4, <2>1, <2>2
<1>6. /\ performing' \in BOOLEAN /\ (performing' => main' = "gift")
      /\ {currentWriteData', response'} \subseteq SUBSET {"mydata", "enter"}
      /\ response' \subseteq {"enter"}
      /\ handles' \in Nat /\ failures' \in 0..MaxFailures /\ decodes' = decodes
      /\ handles' = failures' + decodes' + (IF performing' THEN 1 ELSE 0)
  <2>1. CASE Unsent \/ Broken({}) \/ Answered({}, FALSE)
    <3>1. FALSE \in BOOLEAN
      BY Zenon
    <3>2. /\ performing' = FALSE
          /\ {currentWriteData', response'} \subseteq SUBSET {"mydata", "enter"}
          /\ response' \subseteq {"enter"}
          /\ handles' \in Nat /\ failures' \in 0..MaxFailures /\ decodes' = decodes
          /\ handles' = failures' + decodes'
      BY <1>1, <2>1, <3>1, ReturnFacts
    <3>3. performing' \in BOOLEAN
      BY <3>2, Zenon
    <3>4. handles' = failures' + decodes' + (IF performing' THEN 1 ELSE 0)
      <4>1. failures' \in Int /\ decodes' \in Int
        BY <1>1, <3>2
      <4>2. QED  BY <3>2, <4>1
    <3>5. QED  BY <3>2, <3>3, <3>4
  <2>2. CASE Perform(TRUE) /\ UNCHANGED <<main, i>>
    <3>1. /\ performing' = TRUE /\ handles' = handles + 1 /\ currentWriteData' = {}
          /\ UNCHANGED <<main, failures, decodes, response>> /\ ~ performing
      BY <2>2 DEF Perform
    <3>2. performing' \in BOOLEAN
      BY <3>1, Zenon
    <3>3. handles = failures + decodes
      BY <1>1, <3>1 DEF IInv, HandlesAccounted
    <3>4. QED  BY <1>1, <3>1, <3>2, <3>3
  <2>3. QED  BY <2>1, <2>2 DEF GiftService, GiftReturns
<1>7. StartTypeOK'
  <2>1. /\ user' \in [1..Len(Fields) -> SUBSET {"mydata", "enter"}]
        /\ callbacks' \in BOOLEAN /\ connected' \subseteq {843, 8080}
        /\ sent' \in Seq({"login", "heartbeat"})
        /\ alive' \in BOOLEAN /\ beating' \in BOOLEAN
    BY <1>2 DEF IInv, TypeOK, StartTypeOK, netVars
  <2>2. decodes' \in 0..1 /\ performing' \in BOOLEAN
    BY <1>1, <1>6
  <2>3. /\ handles' \in Nat /\ failures' \in 0..MaxFailures
        /\ {currentWriteData', response'} \subseteq SUBSET {"mydata", "enter"}
    BY <1>6
  <2>4. QED  BY <2>1, <2>2, <2>3 DEF StartTypeOK
<1>8. TypeOK'
  <2>1. main' \in Places
    BY <1>5 DEF Places
  <2>2. QED
    BY <1>2, <1>3, <1>5, <1>7, <2>1, PlaceFacts
    DEF IInv, TypeOK, threadVars, mutexVars, globalVars
<1>9. LoginFirst' /\ HandlesAccounted'
  BY <1>2, <1>6 DEF IInv, LoginFirst, HandlesAccounted, netVars
<1>10. RequestInv' /\ SendInv'
  BY <1>1, <1>2, <1>5, <1>6 DEF IInv, RequestInv, SendInv, netVars, Requesting, Connecting
<1>11. AnnounceInv'
  BY <1>2 DEF IInv, AnnounceInv, threadVars, mutexVars
<1>12. QED  BY <1>5, <1>8, <1>9, <1>10, <1>11 DEF IInv

-----------------------------------------------------------------------------
(* The theorems                                                             *)

(* The inductive invariant holds in every state of every behaviour.            *)
THEOREM InvCorrect == Spec => []IInv
<1>1. ASSUME IInv, [Next]_vars  PROVE IInv'
  <2>1. CASE Start /\ UNCHANGED handoffVars
    BY <1>1, <2>1, StartInv
  <2>2. CASE WaitBegins \/ SpuriousWake \/ WaitEnds \/ ReadCommand
    BY <1>1, <2>2, WaitInv
  <2>3. CASE GiftService \/ GiftReturns
    BY <1>1, <2>3, GiftInv
  <2>4. CASE SendHeartBeat /\ UNCHANGED handoffVars
    BY <1>1, <2>4, SendHeartBeatInv
  <2>5. ASSUME NEW t \in Receivers, Recv(t) \/ Notify(t)  PROVE IInv'
    BY <1>1, <2>5, RecvInv, NotifyInv
  <2>6. CASE UNCHANGED vars
    <3>1. UNCHANGED <<startVars, handoffVars>>
      BY <2>6 DEF vars
    <3>2. TypeOK' /\ LoginFirst' /\ HandlesAccounted'
      BY <1>1, <3>1
      DEF IInv, TypeOK, StartTypeOK, LoginFirst, HandlesAccounted, startVars, bodyVars, handleVars,
          netVars, handoffVars, threadVars, mutexVars, globalVars, historyVars
    <3>3. RequestInv' /\ SendInv' /\ AnnounceInv' /\ (main' = "gift" => i' < GiftTries)
      BY <1>1, <3>1
      DEF IInv, RequestInv, SendInv, AnnounceInv, startVars, bodyVars, handleVars, netVars,
          handoffVars, threadVars, mutexVars
    <3>4. QED  BY <3>2, <3>3 DEF IInv
  <2>7. QED
    BY <1>1, <2>1, <2>2, <2>3, <2>4, <2>5, <2>6 DEF Next, RunTest, MainRuns
<1>2. QED  BY InitInv, <1>1, PTL DEF Spec

(* The variables have their types: the main thread is at a place of RunTest,    *)
(* the announcers hand over tokens that came.                                *)
THEOREM TypeCorrect == Spec => []TypeOK
<1>1. IInv => TypeOK
  BY DEF IInv
<1>2. QED  BY <1>1, InvCorrect, PTL

(* Whatever failed before, the login package is the first on 8080 and sent     *)
(* once, with user data of one answer.                                       *)
THEOREM LoginFirstCorrect == Spec => []LoginFirst
<1>1. IInv => LoginFirst
  BY DEF IInv
<1>2. QED  BY <1>1, InvCorrect, PTL

(* The easy handles left are those of the failed requests and of UrlDecode.    *)
THEOREM HandlesCorrect == Spec => []HandlesAccounted
<1>1. IInv => HandlesAccounted
  BY DEF IInv
<1>2. QED  BY <1>1, InvCorrect, PTL

(* The globals are written by one announcer at a time, whatever the order of    *)
(* the packages on the two connections (FanxingMain.cpp:52-76).               *)
OneAnnouncer ==
  \A s, t \in Receivers : pc[s] \in Inside601 /\ pc[t] \in Inside601 => s = t

(* Announcers exclude each other.                                            *)
THEOREM ExclusionCorrect == Spec => []OneAnnouncer
<1>1. IInv => OneAnnouncer
  BY DEF IInv, AnnounceInv, OneAnnouncer
<1>2. QED  BY <1>1, InvCorrect, PTL
=============================================================================
