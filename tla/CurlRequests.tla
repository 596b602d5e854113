---------------------------- MODULE CurlRequests ----------------------------
(***************************************************************************)
(* The HTTP side of the NetworkHelpers, one after another: the CurlWrapper   *)
(* of each, its two callers NetworkHelper::EnterRoom (UI thread) and         *)
(* NotifyCallback601 (the receiving thread of 8080), the user data EnterRoom  *)
(* takes out of an answer into statics, and the login package made of them.   *)
(* The login requests of the class, which only a program like the console     *)
(* prototype calls, are there too.  The callers do not overlap, and the next   *)
(* helper begins when the threads of the last one are gone: CurlNotShared and  *)
(* NothingRunsAfterFinalize of RoomSession.                                 *)
(*                                                                         *)
(* All requests of the class have one shape: look up the cookies, make an    *)
(* easy handle, set its options, perform, keep the response, clean up.       *)
(* A body is abstracted to the parts the write callback gets, each named by  *)
(* its request and its place; urls and headers are left out.  A piece of user  *)
(* data is named by the request whose answer it came from.                   *)
(***************************************************************************)
EXTENDS Integers, Sequences

CONSTANTS
  GiftTries,     \* tries per token: 20 in the code
  OtherKinds,    \* bound: which of the requests only other programs call
  MaxRequests,   \* bound: requests made, with all wrappers
  MaxParts       \* bound: calls of the write callback per request

ASSUME BoundAssumption ==
  /\ GiftTries \in Nat \ {0} /\ MaxRequests \in Nat \ {0} /\ MaxParts \in Nat

Requests == 1..MaxRequests

(* What tells the requests apart: how many lookups of cookies, whether the   *)
(* body goes to currentWriteData_ (or to the default of libcurl, stdout),    *)
(* and when it is copied to the response member.                            *)
Shape(lookups, collects, saves) ==
  [lookups |-> lookups, collects |-> collects, saves |-> saves]
LoginRequestWithCookies == Shape(1, FALSE, "never")
LoginRequestWithUsernameAndPassword == Shape(0, FALSE, "never")
getMyUserDataInfo == Shape(1, TRUE, "before")
getUserCenter == Shape(1, FALSE, "never")
EnterRoomPage == Shape(2, FALSE, "never")
getCurrentUserInfo == Shape(2, FALSE, "never")
enterRoom == Shape(2, TRUE, "after")
GiftService == Shape(2, TRUE, "after")

Kinds == {"login", "password", "mydata", "center", "page", "current", "enter", "gift"}
Kind(k) == CASE k = "login" -> LoginRequestWithCookies
             [] k = "password" -> LoginRequestWithUsernameAndPassword
             [] k = "mydata" -> getMyUserDataInfo
             [] k = "center" -> getUserCenter
             [] k = "page" -> EnterRoomPage
             [] k = "current" -> getCurrentUserInfo
             [] k = "enter" -> enterRoom
             [] k = "gift" -> GiftService
Saving == {"mydata", "enter", "gift"}

(* What ExtractUsefulInfo_ takes out of an answer, in its order.            *)
Fields == <<"userid", "nickname", "richlevel", "staruserid", "key", "ext">>
Nothing == [f \in 1..Len(Fields) |-> 0]
NoTask == [by |-> 0, user |-> Nothing]

ASSUME OtherAssumption == OtherKinds \subseteq Kinds \ {"enter", "gift"}

VARIABLES
  pc,          \* where the wrapper is in a request
  kind,        \* kind of the request being made
  made,        \* requests made so far; the number of the current one
  looked,      \* lookups of cookies done
  handles,     \* easy handles that exist: n of request n, -n of the UrlDecode for
               \* the room entered by request n
  currentWriteData,   \* parts in currentWriteData_
  response,    \* the response members, by kind
  code,        \* response code is 200
  result,      \* what the request returned
  caller,      \* "none", "other", "enter", "extract", "gift"
  try,         \* the i of NotifyCallback601
  responsedata,   \* its responsedata has the notice of a success
  user,        \* the statics userid ... ext: the request each comes from, 0 before any
  task,        \* DoConnect8080 with its copies, and the request of its EnterRoom
  online,      \* the 8080 connection of this helper is made
  kindOf, parts, granted,   \* history: of the requests, what came and which had a 200
  failed, killed,           \* history: requests whose perform failed, whose thread was ended
  decoded, logins, reports  \* history: UrlDecodes, login packages, reports of this token

wrapperVars == <<pc, kind, made, looked, handles, currentWriteData, response, code, result>>
callerVars == <<caller, try, responsedata>>
roomVars == <<user, task, online, decoded, logins, killed>>
history == <<kindOf, parts, failed, granted, reports>>
vars == <<wrapperVars, callerVars, roomVars, history>>

Init ==
  /\ pc = "idle" /\ kind = "login" /\ made = 0 /\ looked = 0 /\ handles = {}
  /\ currentWriteData = {} /\ response = [k \in Saving |-> {}]
  /\ code = FALSE /\ result = FALSE
  /\ caller = "none" /\ try = 0 /\ responsedata = FALSE
  /\ user = Nothing /\ task = NoTask /\ online = FALSE
  /\ killed = {} /\ decoded = {} /\ logins = {}
  /\ kindOf = [n \in Requests |-> "login"] /\ parts = [n \in Requests |-> 0]
  /\ failed = {} /\ granted = {} /\ reports = << >>

-----------------------------------------------------------------------------
(* A request of CurlWrapper                                                *)

Begin(k) ==
  /\ made < MaxRequests
  /\ made' = made + 1
  /\ kind' = k /\ kindOf' = [kindOf EXCEPT ![made'] = k]
  /\ looked' = 0
  /\ pc' = "cookies"
  /\ UNCHANGED <<handles, code, result>>

Return(value) == pc' = "returned" /\ result' = value

(* CookiesManager::GetCookies, for the next url; FALSE ends the request.   *)
GetCookies(found) ==
  /\ pc = "cookies" /\ looked < Kind(kind).lookups
  /\ looked' = looked + 1
  /\ \/ found /\ UNCHANGED <<pc, result>>
     \/ ~ found /\ Return(FALSE)
  /\ UNCHANGED <<kind, made, handles, currentWriteData, response, code, callerVars, roomVars, history>>

(* curl_easy_init, which may give no handle.                               *)
EasyInit(given) ==
  /\ pc = "cookies" /\ looked = Kind(kind).lookups
  /\ \/ given /\ handles' = handles \cup {made} /\ pc' = "setopt" /\ UNCHANGED result
     \/ ~ given /\ Return(FALSE) /\ UNCHANGED handles
  /\ UNCHANGED <<kind, made, looked, currentWriteData, response, code, callerVars, roomVars, history>>

(* Mutant: the body of the last request is not cleared.                    *)
SetOptKeepsData ==
  /\ pc = "setopt" /\ pc' = "perform"
  /\ response' = IF Kind(kind).saves = "before" THEN [response EXCEPT ![kind] = {}] ELSE response
  /\ UNCHANGED <<kind, made, looked, handles, currentWriteData, code, result, callerVars, roomVars, history>>

(* currentWriteData_.clear(), and getMyUserDataInfo copies it already here. *)
SetOpt ==
  /\ pc = "setopt" /\ pc' = "perform"
  /\ currentWriteData' = IF Kind(kind).collects THEN {} ELSE currentWriteData
  /\ response' = IF Kind(kind).saves = "before" THEN [response EXCEPT ![kind] = {}] ELSE response
  /\ UNCHANGED <<kind, made, looked, handles, code, result, callerVars, roomVars, history>>

(* WriteCallback appends a part of the body.                               *)
WriteCallback ==
  /\ pc = "perform" /\ Kind(kind).collects /\ parts[made] < MaxParts
  /\ parts' = [parts EXCEPT ![made] = @ + 1]
  /\ currentWriteData' = currentWriteData \cup {<<made, parts'[made]>>}
  /\ UNCHANGED <<pc, kind, made, looked, handles, response, code, result,
                 callerVars, roomVars, kindOf, failed, granted, reports>>

(* curl_easy_perform fails, perhaps with some of the body read: the request *)
(* returns at once.                                                        *)
PerformFails ==
  /\ pc = "perform" /\ Return(FALSE)
  /\ failed' = failed \cup {made}
  /\ UNCHANGED <<kind, made, looked, handles, currentWriteData, response, code,
                 callerVars, roomVars, kindOf, parts, granted, reports>>

(* ... or succeeds, with some response code: the body is copied ...         *)
PerformReturns(ok) ==
  /\ pc = "perform" /\ pc' = "cleanup"
  /\ code' = ok
  /\ response' = IF Kind(kind).saves = "after"
                 THEN [response EXCEPT ![kind] = currentWriteData] ELSE response
  /\ UNCHANGED <<kind, made, looked, handles, currentWriteData, result, callerVars, roomVars, history>>

(* Mutant: the handle is cleaned up after a 200 only.                      *)
CleanUpSuccess ==
  /\ pc = "cleanup"
  /\ handles' = IF code THEN handles \ {made} ELSE handles
  /\ Return(code)
  /\ granted' = IF code THEN granted \cup {made} ELSE granted
  /\ UNCHANGED <<kind, made, looked, currentWriteData, response, code, callerVars, roomVars,
                 kindOf, parts, failed, reports>>

(* ... curl_easy_cleanup, and TRUE for a 200.                              *)
CleanUp ==
  /\ pc = "cleanup"
  /\ handles' = handles \ {made}
  /\ Return(code)
  /\ granted' = IF code THEN granted \cup {made} ELSE granted
  /\ UNCHANGED <<kind, made, looked, currentWriteData, response, code, callerVars, roomVars,
                 kindOf, parts, failed, reports>>

Wrapper ==
  \/ \E b \in BOOLEAN : GetCookies(b) \/ EasyInit(b) \/ PerformReturns(b)
  \/ SetOpt \/ WriteCallback \/ PerformFails \/ CleanUp

-----------------------------------------------------------------------------
(* The callers                                                             *)

CallOther(k) ==
  /\ caller = "none" /\ caller' = "other" /\ Begin(k)
  /\ UNCHANGED <<currentWriteData, response, try, responsedata, roomVars, parts, failed, granted,
                 reports>>

OtherReturned ==
  /\ caller = "other" /\ pc = "returned"
  /\ caller' = "none" /\ pc' = "idle"
  /\ UNCHANGED <<kind, made, looked, handles, currentWriteData, response, code,
                 result, try, responsedata, roomVars, history>>

(* The Nav button: the threads of the last helper are ended, the receiving   *)
(* one in the middle of a gift request perhaps, its wrapper is deleted, and   *)
(* NetworkHelper::EnterRoom makes the request of the room service ...        *)
Nav ==
  /\ caller \in {"none", "gift"} /\ task = NoTask
  /\ caller' = "enter" /\ Begin("enter")
  /\ killed' = IF caller = "gift" THEN killed \cup {made} ELSE killed
  /\ currentWriteData' = {} /\ response' = [k \in Saving |-> {}]
  /\ online' = FALSE
  /\ UNCHANGED <<try, responsedata, user, task, decoded, logins, parts, failed, granted, reports>>

(* ... and if it fails the room is not entered; else ...                   *)
EnterReturned ==
  /\ caller = "enter" /\ pc = "returned"
  /\ pc' = "idle" /\ caller' = IF result THEN "extract" ELSE "none"
  /\ UNCHANGED <<kind, made, looked, handles, currentWriteData, response, code,
                 result, try, responsedata, roomVars, history>>

(* ... ExtractUsefulInfo writes the statics one after the other, until a      *)
(* member is missing or is no number (of which it writes what could be read);  *)
(* the last two cannot fail ...                                            *)
Written(n) ==
  /\ n # 0 => response["enter"] # {}
  /\ user' = [f \in DOMAIN user |->
                IF f <= n THEN (CHOOSE p \in response["enter"] : TRUE)[1] ELSE user[f]]

(* Mutant: what ExtractUsefulInfo returned is not looked at.                *)
ExtractIgnored(n) ==
  /\ caller = "extract" /\ caller' = "none"
  /\ Written(n) /\ task' = [by |-> made, user |-> user']
  /\ UNCHANGED <<wrapperVars, try, responsedata, online, decoded, logins, killed, history>>

(* ... and only when it wrote them all the task is posted, with copies of     *)
(* the statics.  (A member of another type throws, which nobody catches:      *)
(* behaviours that stop here.)                                             *)
Extract(n) ==
  /\ caller = "extract" /\ caller' = "none"
  /\ Written(n) /\ task' = IF n = Len(Fields) THEN [by |-> made, user |-> user'] ELSE NoTask
  /\ UNCHANGED <<wrapperVars, try, responsedata, online, decoded, logins, killed, history>>

(* UrlDecode makes an easy handle, if it is given one, and leaves it.         *)
UrlDecode(n, given) == handles' = IF given THEN handles \cup {-n} ELSE handles

(* DoConnect8080 on the base thread: ext is decoded, for nothing, and the      *)
(* login package is sent if the connection is made.                          *)
DoConnect8080(given, connected) ==
  /\ task # NoTask /\ task' = NoTask
  /\ UrlDecode(task.by, given)
  /\ decoded' = decoded \cup {task.by}
  /\ online' = connected
  /\ logins' = IF connected THEN logins \cup {task} ELSE logins
  /\ UNCHANGED <<pc, kind, made, looked, currentWriteData, response, code, result,
                 callerVars, user, killed, history>>

(* NotifyCallback601: with an empty responsedata, GiftTries requests ...    *)
Token ==
  /\ caller = "none" /\ online
  /\ caller' = "gift" /\ try' = 0 /\ responsedata' = FALSE /\ reports' = << >>
  /\ Begin("gift")
  /\ UNCHANGED <<currentWriteData, response, roomVars, parts, failed, granted>>

(* Mutant: the notice is there whatever the request returned.              *)
NoticeAlways == responsedata' = TRUE

(* GiftService_GiftService writes the notice of a 200 to *responsedata.     *)
Notice == responsedata' = (responsedata \/ result)

(* ... each followed by a report of responsedata, whatever it returned.     *)
Reported(tries) ==
  /\ caller = "gift" /\ pc = "returned"
  /\ Notice
  /\ reports' = Append(reports, [notice |-> responsedata', of |-> made])
  /\ try' = try + 1
  /\ \/ /\ try + 1 < tries
        /\ pc' = "again" /\ UNCHANGED caller
     \/ /\ try + 1 = tries
        /\ pc' = "idle" /\ caller' = "none"
  /\ UNCHANGED <<kind, made, looked, handles, currentWriteData, response, code,
                 result, roomVars, kindOf, parts, failed, granted>>

(* Mutant: one try too many.                                               *)
GiftReturnedOneMore == Reported(GiftTries + 1)

GiftReturned == Reported(GiftTries)

GiftAgain ==
  /\ caller = "gift" /\ pc = "again" /\ made < MaxRequests
  /\ made' = made + 1 /\ kindOf' = [kindOf EXCEPT ![made'] = "gift"]
  /\ looked' = 0 /\ pc' = "cookies"
  /\ UNCHANGED <<kind, handles, currentWriteData, response, code, result,
                 callerVars, roomVars, parts, failed, granted, reports>>

Callers ==
  \/ \E k \in OtherKinds : CallOther(k)
  \/ OtherReturned \/ Nav \/ EnterReturned
  \/ \E n \in (0..4) \cup {Len(Fields)} : Extract(n)
  \/ \E given, connected \in BOOLEAN : DoConnect8080(given, connected)
  \/ Token \/ GiftReturned \/ GiftAgain

Next == Wrapper \/ Callers
Spec == Init /\ [][Next]_vars

-----------------------------------------------------------------------------
(* The variables have their types.                                         *)
TypeOK ==
  /\ pc \in {"idle", "cookies", "setopt", "perform", "cleanup", "returned", "again"}
  /\ kind \in Kinds /\ made \in 0..MaxRequests /\ looked \in 0..Kind(kind).lookups
  /\ handles \subseteq -made..made
  /\ currentWriteData \subseteq (1..made) \X (1..MaxParts)
  /\ response \in [Saving -> SUBSET (Requests \X (1..MaxParts))]
  /\ code \in BOOLEAN /\ result \in BOOLEAN /\ responsedata \in BOOLEAN
  /\ caller \in {"none", "other", "enter", "extract", "gift"}
  /\ try \in 0..GiftTries /\ online \in BOOLEAN
  /\ \A u \in {user, task.user} : DOMAIN u = DOMAIN Fields /\ \A f \in DOMAIN u : u[f] \in 0..made
  /\ task.by \in 0..made
  /\ Len(reports) <= GiftTries

(* A response member is the whole body of one request of its kind that was  *)
(* performed without error: no bytes of an attempt that broke off, though    *)
(* all requests collect in the one currentWriteData_.                       *)
ResponseOfOneRequest ==
  \A k \in Saving : response[k] # {} =>
    \E n \in Requests \ failed :
      kindOf[n] = k /\ response[k] = {n} \X (1..parts[n])

(* NetworkHelper.cpp:14-22, 77-96: the statics live through all rooms and an  *)
(* answer that lacks a member leaves them half written; still every login     *)
(* package is made, field by field, of the one answer with 200 that its own   *)
(* EnterRoom got.                                                          *)
LoginOfOneResponse == \A l \in logins :
  l.by \in granted /\ kindOf[l.by] = "enter" /\ \A f \in DOMAIN l.user : l.user[f] = l.by

(* Which easy handles are never cleaned up: one per perform that failed or    *)
(* whose thread Finalize ended, and one per UrlDecode of DoConnect8080; a     *)
(* code other than 200 or a missing cookie leaks nothing.                    *)
LeakedOnlyByFailure ==
  caller = "none" => handles \subseteq failed \cup killed \cup {-n : n \in decoded}

(* A report to the dialog has the notice only if this try or an earlier one  *)
(* of the token was answered with 200 (responsedata lives as long as the     *)
(* loop).                                                                  *)
NoticeAfterSuccess ==
  \A i \in DOMAIN reports : reports[i].notice =>
    \E j \in 1..i : reports[j].of \in granted

(* Comment "always cleanup" at each of the eight requests: when the request  *)
(* has returned, its handle is gone.                                        *)
AlwaysCleanup == pc = "returned" => made \notin handles
=============================================================================
