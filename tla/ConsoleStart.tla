---------------------------- MODULE ConsoleStart ----------------------------
(***************************************************************************)
(* The start of the console prototype (FanxingMain): RunTest makes six       *)
(* requests with one CurlWrapper, takes the user data out of the answer to    *)
(* the last, connects to 843, sets the callbacks, connects to 8080, sends     *)
(* the login package and starts the heartbeat thread.  What each call        *)
(* returned is only asserted, and a release build asserts nothing: every step *)
(* is followed by the next.                                                *)
(*                                                                         *)
(* FanxingMain/CurlWrapper.cpp is an older copy of the one under Network.  A  *)
(* body is named by its request; what the wrapper and RunTest never read       *)
(* again is forgotten.                                                     *)
(***************************************************************************)
EXTENDS Integers, Sequences

CONSTANTS
  Lacking,       \* bound: how many of the user data an answer has that lacks some
  MaxFailures,   \* bound: requests whose perform fails
  MaxBeats       \* bound: heartbeats

Fields == <<"userid", "nickname", "richlevel", "staruserid", "key", "ext">>

ASSUME StartAssumption ==
  Lacking \subseteq 0..4 /\ MaxFailures \in Nat /\ MaxBeats \in Nat

VARIABLES
  main,               \* where RunTest is
  performing,         \* its request has an easy handle and is being performed
  handles,            \* easy handles that exist
  currentWriteData,   \* requests whose body currentWriteData_ has bytes of
  response,           \* ... and the response member of enterRoom
  user,               \* locals userid ... ext: the requests each comes from
  callbacks,          \* notify601_ and normalNotify_ are set
  connected,          \* ports whose receiving thread runs
  sent,               \* what was sent on 8080
  alive, beating,     \* a package came; the heartbeat thread runs
  failures, decodes   \* history: performs that failed, calls of UrlDecode

bodyVars == <<currentWriteData, response, user>>
handleVars == <<performing, handles, failures, decodes>>
netVars == <<callbacks, connected, sent, alive, beating>>
startVars == <<main, bodyVars, handleVars, netVars>>

Unset == [f \in 1..Len(Fields) |-> {}]

StartInit ==
  /\ main = "login"
  /\ performing = FALSE /\ handles = 0 /\ failures = 0 /\ decodes = 0
  /\ currentWriteData = {} /\ response = {} /\ user = Unset
  /\ callbacks = FALSE /\ connected = {} /\ sent = << >>
  /\ alive = FALSE /\ beating = FALSE

Step(from, to) == main = from /\ main' = to

-----------------------------------------------------------------------------
(* A request: the names of RunTest's six, each with the step after it, and     *)
(* whether its body goes to currentWriteData_.                              *)
LoginRequestWithCookies == [then |-> "mydata", collects |-> FALSE]
getMyUserDataInfo == [then |-> "center", collects |-> TRUE]
getUserCenter == [then |-> "page", collects |-> FALSE]
EnterRoomPage == [then |-> "current", collects |-> FALSE]
getCurrentUserInfo == [then |-> "enter", collects |-> FALSE]
enterRoom == [then |-> "extract", collects |-> TRUE]

Requests == [login |-> LoginRequestWithCookies, mydata |-> getMyUserDataInfo,
             center |-> getUserCenter, page |-> EnterRoomPage,
             current |-> getCurrentUserInfo, enter |-> enterRoom]

(* No cookie is found or no handle is given: the request returns.           *)
Unsent == ~ performing /\ UNCHANGED <<handleVars, currentWriteData, response>>

(* An easy handle is made, its options are set, perform begins.             *)
Perform(collects) ==
  /\ ~ performing /\ performing' = TRUE /\ handles' = handles + 1
  /\ currentWriteData' = IF collects THEN {} ELSE currentWriteData
  /\ UNCHANGED <<failures, decodes, response>>

(* What the write callback got before perform ended.                        *)
WriteCallback(bodies) == currentWriteData' \in {currentWriteData, currentWriteData \cup bodies}

(* perform fails: the request returns, its handle stays.                     *)
Broken(bodies) ==
  /\ performing /\ performing' = FALSE
  /\ failures < MaxFailures /\ failures' = failures + 1
  /\ WriteCallback(bodies)
  /\ UNCHANGED <<handles, decodes, response>>

(* Mutant: the handle is cleaned up after a 200 only.                       *)
AnsweredKeepsHandle(bodies, saves) ==
  /\ performing /\ performing' = FALSE /\ handles' \in {handles, handles - 1}
  /\ WriteCallback(bodies)
  /\ response' = IF saves THEN currentWriteData' ELSE response
  /\ UNCHANGED <<failures, decodes>>

(* The server answers, with whatever code: the body is kept by enterRoom, and  *)
(* the handle is cleaned up.                                               *)
Answered(bodies, saves) ==
  /\ performing /\ performing' = FALSE /\ handles' = handles - 1
  /\ WriteCallback(bodies)
  /\ response' = IF saves THEN currentWriteData' ELSE response
  /\ UNCHANGED <<failures, decodes>>

Begins(k) == main = k /\ Perform(Requests[k].collects) /\ UNCHANGED <<main, user, netVars>>

Returns(k) ==
  LET bodies == IF Requests[k].collects THEN {k} ELSE {}
  IN  /\ Step(k, Requests[k].then)
      /\ Unsent \/ Broken(bodies) \/ Answered(bodies, k = "enter")
      /\ UNCHANGED <<user, netVars>>

-----------------------------------------------------------------------------
(* The user data                                                           *)

(* ExtractUsefulInfo_ writes the locals one after the other until a member is  *)
(* missing or no number (of which it writes what could be read); after the     *)
(* fourth and socketConfig nothing fails any more.                           *)
Extract ==
  /\ Step("extract", "connect843")
  /\ \E n \in {0} \cup Lacking \cup {Len(Fields)} :
       /\ response = {} => n = 0
       /\ user' = [f \in DOMAIN user |-> IF f <= n THEN response ELSE {}]
  /\ currentWriteData' = {} /\ response' = {}
  /\ UNCHANGED <<handleVars, netVars>>

(* A member of another type throws, and nobody catches it.                   *)
ExtractThrows ==
  /\ Step("extract", "ended") /\ response # {}
  /\ UNCHANGED <<bodyVars, handleVars, netVars>>

-----------------------------------------------------------------------------
(* The connections                                                         *)

(* TcpClient::Connect: the receiving thread runs if the server accepts.       *)
TcpConnect(port, accepted) == connected' = IF accepted THEN connected \cup {port} ELSE connected

Connect843 ==
  /\ Step("connect843", "set")
  /\ \E accepted \in BOOLEAN : TcpConnect(843, accepted)
  /\ UNCHANGED <<bodyVars, handleVars, callbacks, sent, alive, beating>>

SetCallbacks ==
  /\ Step("set", "connect8080") /\ callbacks' = TRUE
  /\ UNCHANGED <<bodyVars, handleVars, connected, sent, alive, beating>>

(* UrlDecode, which leaves its easy handle (here it is always given one; that  *)
(* it may not be is in CurlRequests) ...                                     *)
UrlDecode == handles' = handles + 1 /\ decodes' = decodes + 1

(* ... the connection, on which nothing is sent if it is not made ...         *)
Connect8080 ==
  /\ UrlDecode
  /\ \E accepted \in BOOLEAN :
       /\ TcpConnect(8080, accepted)
       /\ Step("connect8080", IF accepted THEN "send" ELSE "wait")
       /\ user' = IF accepted THEN user ELSE Unset
  /\ UNCHANGED <<currentWriteData, response, performing, failures, callbacks, sent, alive, beating>>

(* Mutant: the heartbeat thread is started first.                           *)
StartHeartbeatFirst ==
  /\ \/ Step("send", "start") /\ beating' = TRUE /\ UNCHANGED <<user, sent>>
     \/ Step("start", "wait") /\ sent' = Append(sent, "login") /\ user' = Unset
        /\ UNCHANGED beating
  /\ UNCHANGED <<currentWriteData, response, handleVars, callbacks, connected, alive>>

(* ... the login package, and the heartbeat thread.                          *)
LoginThenHeartbeat ==
  /\ \/ Step("send", "start") /\ sent' = Append(sent, "login") /\ user' = Unset
        /\ UNCHANGED beating
     \/ Step("start", "wait") /\ beating' = TRUE /\ UNCHANGED <<user, sent>>
  /\ UNCHANGED <<currentWriteData, response, handleVars, callbacks, connected, alive>>

Start ==
  \/ \E k \in DOMAIN Requests : Begins(k) \/ Returns(k)
  \/ Extract \/ ExtractThrows
  \/ Connect843 \/ SetCallbacks \/ Connect8080 \/ LoginThenHeartbeat

(* The heartbeat thread: every ten seconds, once a package has come.          *)
SendHeartBeat ==
  /\ beating /\ alive /\ main # "ended"
  /\ Len(sent) < MaxBeats + 1
  /\ sent' = Append(sent, "heartbeat")
  /\ UNCHANGED <<main, bodyVars, handleVars, callbacks, connected, alive, beating>>

-----------------------------------------------------------------------------
StartTypeOK ==
  /\ performing \in BOOLEAN /\ handles \in Nat /\ failures \in 0..MaxFailures /\ decodes \in 0..1
  /\ {currentWriteData, response} \subseteq SUBSET {"mydata", "enter"}
  /\ user \in [1..Len(Fields) -> SUBSET {"mydata", "enter"}]
  /\ callbacks \in BOOLEAN /\ connected \subseteq {843, 8080}
  /\ sent \in Seq({"login", "heartbeat"})
  /\ alive \in BOOLEAN /\ beating \in BOOLEAN

(* FanxingMain.cpp:84-118, GiftNotifyManager.cpp:155-193: whatever failed      *)
(* before, the first package on 8080 is the login package, sent once, though   *)
(* 843 may already have set alive; its user data are of the answer to the     *)
(* enterRoom request, no bytes of another body, and with a key it has all.    *)
LoginFirst ==
  /\ \A i \in DOMAIN sent : sent[i] = "login" <=> i = 1
  /\ \A f \in DOMAIN user : user[f] \subseteq {"enter"}
  /\ user[5] # {} => \A f \in DOMAIN user : user[f] # {}

(* RunTest goes on after every failure; what it leaves behind is one easy      *)
(* handle for each perform that failed and one for the UrlDecode, in the       *)
(* start and in the gift loop alike.                                       *)
HandlesAccounted == handles = failures + decodes + (IF performing THEN 1 ELSE 0)
=============================================================================
