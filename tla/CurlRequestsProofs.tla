------------------------- MODULE CurlRequestsProofs -------------------------
(***************************************************************************)
(* Proofs about CurlRequests, for any number of requests, of parts of a body   *)
(* and of tries per token, and any of the other requests.                    *)
(***************************************************************************)
EXTENDS CurlRequests, SequenceTheorems, TLAPS

Asked == {"cookies", "setopt", "perform"}      \* the request has no answer yet
Open == {"setopt", "perform", "cleanup"}       \* its easy handle exists

(* Who calls, and what; a wrapper without a caller makes no request.         *)
CallInv ==
  /\ caller \in {"none", "extract"} <=> pc = "idle"
  /\ caller # "none" => made \in Requests /\ kindOf[made] = kind
  /\ caller = "gift" => kind = "gift" /\ try < GiftTries /\ Len(reports) = try
  /\ caller \in {"enter", "extract"} => kind = "enter"
  /\ pc = "again" => caller = "gift"

(* History: what a request got, and how it ended.                            *)
HistoryInv ==
  /\ kindOf \in [Requests -> Kinds] /\ parts \in [Requests -> 0..MaxParts]
  /\ reports \in Seq([notice : BOOLEAN, of : Requests])
  /\ failed \subseteq 1..made /\ granted \subseteq 1..made
  /\ \A n \in Requests : n > made => parts[n] = 0
  /\ pc \in Asked \cup {"cleanup"} => made \notin failed
  /\ pc \in {"cookies", "setopt"} => parts[made] = 0

(* While a request is performed currentWriteData_ has what its callback got.  *)
CollectInv ==
  pc = "perform" /\ Kind(kind).collects => currentWriteData = {made} \X (1..parts[made])

(* A response member is that of an earlier request until the current one has  *)
(* its answer.                                                             *)
ResponseInv == \A k \in Saving : response[k] # {} =>
  \E n \in (1..made) \ failed :
    kindOf[n] = k /\ response[k] = {n} \X (1..parts[n]) /\ (pc \in Asked => n < made)

(* What EnterRoom extracts from is the answer to its own request.            *)
EnterInv ==
  /\ pc = "returned" /\ result => made \in granted
  /\ caller = "extract" => made \in granted
  /\ (kind = "enter" /\ (pc = "cleanup" \/ (pc = "returned" /\ result) \/ caller = "extract")) =>
       \A p \in response["enter"] : p[1] = made

(* A task, and a login package, is of one answer.                            *)
OfOneResponse(l) ==
  l.by \in granted /\ kindOf[l.by] = "enter" /\ \A f \in DOMAIN l.user : l.user[f] = l.by
TaskInv == task # NoTask => OfOneResponse(task)

(* Every easy handle has its reason.                                        *)
HandleInv ==
  handles \subseteq failed \cup killed \cup {-n : n \in decoded}
                    \cup (IF pc \in Open THEN {made} ELSE {})

(* responsedata has the notice of a try of this token.                       *)
NoticeInv == (caller = "gift" /\ responsedata) =>
  \E j \in DOMAIN reports : reports[j].of \in granted

(* The inductive invariant.                                                  *)
IInv ==
  /\ TypeOK /\ CallInv /\ HistoryInv /\ CollectInv /\ ResponseInv /\ EnterInv /\ TaskInv
  /\ HandleInv /\ NoticeInv /\ LoginOfOneResponse /\ NoticeAfterSuccess

-----------------------------------------------------------------------------
(* The kinds of requests                                                    *)

(* What the shapes have in common: a request whose body is kept collects it.  *)
LEMMA KindFacts ==
  /\ \A k \in Kinds : /\ Kind(k).lookups \in Nat /\ Kind(k).collects \in BOOLEAN
                      /\ Kind(k).saves = "after" => k \in Saving /\ Kind(k).collects
                      /\ Kind(k).saves = "before" => k \in Saving /\ k # "enter"
  /\ Kind("enter").saves = "after"
<1> USE DEF Kind, Saving, Shape, LoginRequestWithCookies, LoginRequestWithUsernameAndPassword,
            getMyUserDataInfo, getUserCenter, EnterRoomPage, getCurrentUserInfo, enterRoom,
            GiftService
<1>1. \A k \in Kinds : Kind(k).lookups \in Nat /\ Kind(k).collects \in BOOLEAN
  BY DEF Kinds
<1>2. \A k \in Kinds : Kind(k).saves = "after" => k \in Saving /\ Kind(k).collects
  BY DEF Kinds
<1>3. \A k \in Kinds : Kind(k).saves = "before" => k \in Saving /\ k # "enter"
  BY DEF Kinds
<1>4. Kind("enter").saves = "after"
  OBVIOUS
<1>5. QED  BY <1>1, <1>2, <1>3, <1>4

(* ExtractUsefulInfo takes six fields.                                      *)
LEMMA FieldFacts == DOMAIN Fields = 1..6 /\ Len(Fields) = 6
BY DEF Fields

(* Before any request.                                                       *)
LEMMA InitInv == Init => IInv
<1> SUFFICES ASSUME Init  PROVE IInv
  OBVIOUS
<1> USE BoundAssumption, KindFacts, FieldFacts DEF Init
<1>1. TypeOK
  <2>1. kind \in Kinds /\ looked \in 0..Kind(kind).lookups
    BY DEF Kinds
  <2>2. response \in [Saving -> SUBSET (Requests \X (1..MaxParts))]
    OBVIOUS
  <2>3. \A u \in {user, task.user} : DOMAIN u = DOMAIN Fields /\ \A f \in DOMAIN u : u[f] \in 0..made
    BY DEF Nothing, NoTask
  <2>4. task.by \in 0..made
    BY DEF NoTask
  <2>5. /\ code \in BOOLEAN /\ result \in BOOLEAN /\ responsedata \in BOOLEAN
        /\ online \in BOOLEAN
    BY Zenon
  <2>6. QED  BY <2>1, <2>2, <2>3, <2>4, <2>5 DEF TypeOK
<1>2. CallInv /\ HistoryInv /\ CollectInv
  BY DEF CallInv, HistoryInv, CollectInv, Kinds, Requests, Asked
<1>3. ResponseInv /\ EnterInv /\ TaskInv /\ HandleInv /\ NoticeInv
  BY DEF ResponseInv, EnterInv, TaskInv, HandleInv, NoticeInv, Open
<1>4. LoginOfOneResponse /\ NoticeAfterSuccess
  BY DEF LoginOfOneResponse, NoticeAfterSuccess
<1>5. QED  BY <1>1, <1>2, <1>3, <1>4 DEF IInv

-----------------------------------------------------------------------------
(* Types                                                                   *)

(* The actions of the wrapper.                                              *)
LEMMA WrapperType ==
  ASSUME IInv, Wrapper  PROVE TypeOK'
<1> USE BoundAssumption, KindFacts DEF IInv, TypeOK, Return, callerVars, roomVars, history
<1>1. ASSUME NEW b \in BOOLEAN, GetCookies(b)  PROVE TypeOK'
  <2>1. looked' \in 0..Kind(kind).lookups
    BY <1>1 DEF GetCookies
  <2>2. pc' \in {"cookies", "returned"} /\ result' \in {FALSE, result}
    BY <1>1 DEF GetCookies
  <2>3. result' \in BOOLEAN
    BY <2>2
  <2>4. QED  BY <1>1, <2>1, <2>2, <2>3 DEF GetCookies
<1>2. ASSUME NEW b \in BOOLEAN, EasyInit(b)  PROVE TypeOK'
  <2>1. made \in -made..made
    OBVIOUS
  <2>2. handles' \in {handles, handles \cup {made}}
    BY <1>2 DEF EasyInit
  <2>3. handles' \subseteq -made..made
    BY <2>1, <2>2
  <2>4. QED  BY <1>2, <2>3 DEF EasyInit
<1>3. CASE SetOpt
  BY <1>3 DEF SetOpt
<1>4. CASE WriteCallback
  <2>1. made \in 1..made /\ parts'[made] \in 1..MaxParts
    BY <1>4 DEF WriteCallback, CallInv, HistoryInv, Requests
  <2>2. currentWriteData' \subseteq (1..made) \X (1..MaxParts)
    BY <1>4, <2>1 DEF WriteCallback
  <2>3. QED  BY <1>4, <2>2 DEF WriteCallback
<1>5. CASE PerformFails
  BY <1>5 DEF PerformFails
<1>6. ASSUME NEW b \in BOOLEAN, PerformReturns(b)  PROVE TypeOK'
  <2>1. currentWriteData \in SUBSET (Requests \X (1..MaxParts))
    BY DEF Requests
  <2>2. response' \in [Saving -> SUBSET (Requests \X (1..MaxParts))]
    BY <1>6, <2>1 DEF PerformReturns
  <2>3. QED  BY <1>6, <2>2 DEF PerformReturns
<1>7. CASE CleanUp
  <2>1. handles' \subseteq -made..made
    BY <1>7 DEF CleanUp
  <2>2. QED  BY <1>7, <2>1 DEF CleanUp
<1>8. QED
  BY <1>1, <1>2, <1>3, <1>4, <1>5, <1>6, <1>7 DEF Wrapper

(* What the begin of a request does to the types.                            *)
LEMMA BeginType ==
  ASSUME IInv, NEW k \in Kinds, made < MaxRequests, made' = made + 1, looked' = 0
  PROVE  /\ made' \in 0..MaxRequests /\ looked' \in 0..Kind(k).lookups
         /\ handles \subseteq -made'..made'
         /\ currentWriteData \subseteq (1..made') \X (1..MaxParts)
         /\ \A u \in {user, task.user} : \A f \in DOMAIN u : u[f] \in 0..made'
         /\ task.by \in 0..made'
<1>1. made \in 0..MaxRequests /\ MaxRequests \in Nat
  BY BoundAssumption DEF IInv, TypeOK
<1>2. made' \in 0..MaxRequests /\ 0..made \subseteq 0..made' /\ -made..made \subseteq -made'..made'
      /\ 1..made \subseteq 1..made'
  BY <1>1
<1>3. looked' \in 0..Kind(k).lookups
  BY KindFacts
<1>4. handles \subseteq -made'..made' /\ currentWriteData \subseteq (1..made') \X (1..MaxParts)
  BY <1>2 DEF IInv, TypeOK
<1>5. task.by \in 0..made' /\ \A u \in {user, task.user} : \A f \in DOMAIN u : u[f] \in 0..made'
  BY <1>2 DEF IInv, TypeOK
<1>6. QED  BY <1>2, <1>3, <1>4, <1>5

(* What ExtractUsefulInfo writes are numbers of requests.                    *)
LEMMA ExtractType ==
  ASSUME IInv, NEW n \in (0..4) \cup {Len(Fields)}, Extract(n)
  PROVE  /\ DOMAIN user' = DOMAIN user
         /\ \A f \in DOMAIN user : user'[f] \in {user[f], made}
         /\ n = Len(Fields) => \A f \in DOMAIN user : user'[f] = made
<1>1. user' = [f \in DOMAIN user |->
                 IF f <= n THEN (CHOOSE p \in response["enter"] : TRUE)[1] ELSE user[f]]
  BY DEF Extract, Written
<1>2. n # 0 => (CHOOSE p \in response["enter"] : TRUE)[1] = made
  <2>1. \A p \in response["enter"] : p[1] = made
    BY DEF IInv, EnterInv, CallInv, Extract
  <2>2. QED  BY <2>1 DEF Extract, Written
<1>3. DOMAIN user = 1..6
  BY FieldFacts DEF IInv, TypeOK
<1>4. \A f \in 1..6 : f <= n => n # 0
  OBVIOUS
<1>5. QED  BY <1>1, <1>2, <1>3, <1>4, FieldFacts

(* The actions of the callers.                                              *)
LEMMA CallersType ==
  ASSUME IInv, Callers  PROVE TypeOK'
<1> USE BoundAssumption, OtherAssumption, KindFacts, FieldFacts
    DEF IInv, TypeOK, wrapperVars, callerVars, roomVars, history
<1>1. ASSUME NEW k \in OtherKinds, CallOther(k)  PROVE TypeOK'
  BY <1>1, BeginType DEF CallOther, Begin
<1>2. CASE OtherReturned
  BY <1>2 DEF OtherReturned
<1>3. CASE Nav
  <2>1. "enter" \in Kinds
    BY DEF Kinds
  <2>2. response' \in [Saving -> SUBSET (Requests \X (1..MaxParts))] /\ currentWriteData' = {}
    BY <1>3 DEF Nav
  <2>3. QED  BY <1>3, <2>1, <2>2, BeginType DEF Nav, Begin
<1>4. CASE EnterReturned
  BY <1>4 DEF EnterReturned
<1>5. ASSUME NEW n \in (0..4) \cup {Len(Fields)}, Extract(n)  PROVE TypeOK'
  <2>1. \A u \in {user', task'.user} : DOMAIN u = DOMAIN Fields /\ \A f \in DOMAIN u : u[f] \in 0..made
    <3>1. DOMAIN user' = DOMAIN Fields /\ \A f \in DOMAIN user' : user'[f] \in 0..made
      <4>1. made \in 0..made
        OBVIOUS
      <4>2. DOMAIN user = DOMAIN Fields /\ \A f \in DOMAIN user : user[f] \in 0..made
        OBVIOUS
      <4>3. DOMAIN user' = DOMAIN user /\ \A f \in DOMAIN user : user'[f] \in {user[f], made}
        BY <1>5, ExtractType, Zenon
      <4>4. ASSUME NEW f \in DOMAIN user  PROVE user'[f] \in 0..made
        <5>1. user'[f] = user[f] \/ user'[f] = made
          BY <4>3, Zenon
        <5>2. QED  BY <5>1, <4>1, <4>2, Zenon
      <4>5. QED  BY <4>2, <4>3, <4>4, Zenon
    <3>2. task'.user = user' \/ task'.user = Nothing
      BY <1>5 DEF Extract, NoTask
    <3>3. DOMAIN Nothing = DOMAIN Fields /\ \A f \in DOMAIN Nothing : Nothing[f] \in 0..made
      BY DEF Nothing
    <3>4. QED  BY <3>1, <3>2, <3>3
  <2>2. task'.by \in 0..made
    BY <1>5 DEF Extract, NoTask
  <2>3. QED  BY <1>5, <2>1, <2>2 DEF Extract
<1>6. ASSUME NEW given \in BOOLEAN, NEW connected \in BOOLEAN, DoConnect8080(given, connected)
      PROVE  TypeOK'
  <2>1. -task.by \in -made..made
    OBVIOUS
  <2>2. handles' \subseteq -made..made
    BY <1>6, <2>1 DEF DoConnect8080, UrlDecode
  <2>3. \A u \in {user', task'.user} : DOMAIN u = DOMAIN Fields /\ \A f \in DOMAIN u : u[f] \in 0..made
    <3>1. user' = user /\ task'.user = Nothing
      BY <1>6 DEF DoConnect8080, NoTask
    <3>2. DOMAIN user = DOMAIN Fields /\ \A f \in DOMAIN user : user[f] \in 0..made
      OBVIOUS
    <3>3. DOMAIN Nothing = DOMAIN Fields /\ \A f \in DOMAIN Nothing : Nothing[f] \in 0..made
      BY DEF Nothing
    <3>4. QED  BY <3>1, <3>2, <3>3, Zenon
  <2>4. task'.by \in 0..made
    BY <1>6 DEF DoConnect8080, NoTask
  <2>5. QED  BY <1>6, <2>2, <2>3, <2>4 DEF DoConnect8080
<1>7. CASE Token
  <2>1. "gift" \in Kinds
    BY DEF Kinds
  <2>2. Len(reports') <= GiftTries /\ try' \in 0..GiftTries
    BY <1>7 DEF Token
  <2>3. QED  BY <1>7, <2>1, <2>2, BeginType DEF Token, Begin
<1>8. CASE GiftReturned
  BY <1>8 DEF GiftReturned, Reported, Notice, CallInv, HistoryInv
<1>9. CASE GiftAgain
  BY <1>9, BeginType DEF GiftAgain
<1>10. QED
  BY <1>1, <1>2, <1>3, <1>4, <1>5, <1>6, <1>7, <1>8, <1>9 DEF Callers

-----------------------------------------------------------------------------
(* The parts of the invariant, for the steps of the wrapper                  *)

(* A request is made for the caller that began it.                          *)
LEMMA WrapperCall ==
  ASSUME IInv, Wrapper  PROVE CallInv'
<1> USE DEF IInv, CallInv, Return, callerVars, history
<1>1. ASSUME NEW b \in BOOLEAN, GetCookies(b) \/ EasyInit(b) \/ PerformReturns(b)
      PROVE  CallInv'
  BY <1>1 DEF GetCookies, EasyInit, PerformReturns
<1>2. CASE SetOpt \/ WriteCallback
  BY <1>2 DEF SetOpt, WriteCallback
<1>3. CASE PerformFails \/ CleanUp
  BY <1>3 DEF PerformFails, CleanUp
<1>4. QED  BY <1>1, <1>2, <1>3 DEF Wrapper

(* A part, an error and a 200 are of the request being made.                *)
LEMMA WrapperHistory ==
  ASSUME IInv, Wrapper  PROVE HistoryInv'
<1> USE BoundAssumption DEF IInv, TypeOK, CallInv, HistoryInv, Return, history, Asked, Requests
<1>1. ASSUME NEW b \in BOOLEAN, GetCookies(b) \/ EasyInit(b) \/ PerformReturns(b)
      PROVE  HistoryInv'
  BY <1>1 DEF GetCookies, EasyInit, PerformReturns
<1>2. CASE SetOpt
  BY <1>2 DEF SetOpt
<1>3. CASE WriteCallback
  <2>1. made \in Requests /\ parts' = [parts EXCEPT ![made] = parts[made] + 1]
        /\ parts[made] + 1 \in 0..MaxParts
    BY <1>3 DEF WriteCallback
  <2>2. parts' \in [Requests -> 0..MaxParts] /\ \A n \in Requests : n > made => parts'[n] = 0
    BY <2>1
  <2>3. QED  BY <1>3, <2>2 DEF WriteCallback
<1>4. CASE PerformFails
  BY <1>4 DEF PerformFails
<1>5. CASE CleanUp
  <2>1. made \in 1..made
    BY <1>5 DEF CleanUp
  <2>2. granted' \subseteq 1..made
    BY <1>5, <2>1 DEF CleanUp
  <2>3. QED  BY <1>5, <2>2 DEF CleanUp
<1>6. QED  BY <1>1, <1>2, <1>3, <1>4, <1>5 DEF Wrapper

(* The parts come one by one, into a body SetOpt has cleared.               *)
LEMMA WrapperCollect ==
  ASSUME IInv, Wrapper  PROVE CollectInv'
<1> USE DEF IInv, CollectInv, Return, history
<1>1. ASSUME NEW b \in BOOLEAN, GetCookies(b) \/ EasyInit(b) \/ PerformReturns(b)
      PROVE  CollectInv'
  BY <1>1 DEF GetCookies, EasyInit, PerformReturns
<1>2. CASE SetOpt
  <2>1. parts'[made] = 0 /\ made' = made /\ kind' = kind
    BY <1>2 DEF SetOpt, HistoryInv
  <2>2. Kind(kind).collects => currentWriteData' = {}
    BY <1>2 DEF SetOpt
  <2>3. QED  BY <2>1, <2>2
<1>3. CASE WriteCallback
  <2>1. /\ currentWriteData = {made} \X (1..parts[made])
        /\ currentWriteData' = currentWriteData \cup {<<made, parts'[made]>>}
        /\ made' = made
    BY <1>3 DEF WriteCallback
  <2>2. parts[made] \in Nat /\ parts'[made] = parts[made] + 1
    BY <1>3, BoundAssumption DEF WriteCallback, HistoryInv, CallInv
  <2>3. 1..parts'[made] = (1..parts[made]) \cup {parts'[made]}
    BY <2>2
  <2>4. QED  BY <2>1, <2>3
<1>4. CASE PerformFails \/ CleanUp
  BY <1>4 DEF PerformFails, CleanUp
<1>5. QED  BY <1>1, <1>2, <1>3, <1>4 DEF Wrapper

(* What is saved is whole; before that, the answers are of earlier requests. *)
LEMMA WrapperResponse ==
  ASSUME IInv, Wrapper  PROVE ResponseInv'
<1> USE DEF IInv, TypeOK, ResponseInv, Return, history, Asked
<1>1. ASSUME NEW b \in BOOLEAN, GetCookies(b) \/ EasyInit(b)  PROVE ResponseInv'
  <2>1. UNCHANGED <<response, made, failed, kindOf, parts>> /\ (pc' \in Asked => pc \in Asked)
    BY <1>1 DEF GetCookies, EasyInit
  <2>2. QED  BY <2>1
<1>2. CASE SetOpt
  <2>1. \A k \in Saving : response'[k] \in {{}, response[k]}
    BY <1>2, KindFacts DEF SetOpt
  <2>2. QED  BY <1>2, <2>1 DEF SetOpt
<1>3. CASE WriteCallback
  <2>1. \A n \in 1..made : n < made => parts'[n] = parts[n]
    BY <1>3 DEF WriteCallback, HistoryInv
  <2>2. UNCHANGED <<pc, response, made, kindOf, failed>> /\ pc \in Asked
    BY <1>3 DEF WriteCallback
  <2>3. ASSUME NEW k \in Saving, response[k] # {}
        PROVE  \E n \in (1..made) \ failed :
                 kindOf[n] = k /\ response[k] = {n} \X (1..parts'[n]) /\ n < made
    <3>1. PICK n \in (1..made) \ failed :
            kindOf[n] = k /\ response[k] = {n} \X (1..parts[n]) /\ n < made
      BY <2>2, <2>3
    <3>2. parts'[n] = parts[n]
      BY <2>1, <3>1
    <3>3. QED  BY <3>1, <3>2
  <2>4. QED  BY <2>2, <2>3
<1>4. CASE PerformFails
  <2>1. \A n \in (1..made) \ failed : n < made => n \in (1..made) \ failed'
    BY <1>4 DEF PerformFails
  <2>2. QED  BY <1>4, <2>1 DEF PerformFails
<1>5. ASSUME NEW b \in BOOLEAN, PerformReturns(b), NEW k \in Saving, response'[k] # {}
      PROVE  \E n \in (1..made') \ failed' : kindOf'[n] = k /\ response'[k] = {n} \X (1..parts'[n])
  <2>1. UNCHANGED <<made, failed, kindOf, parts>>
    BY <1>5 DEF PerformReturns
  <2>2. CASE response'[k] = response[k]
    BY <1>5, <2>1, <2>2
  <2>3. CASE response'[k] # response[k]
    <3>1. k = kind /\ Kind(kind).saves = "after" /\ response'[k] = currentWriteData
      BY <1>5, <2>3 DEF PerformReturns
    <3>2. currentWriteData = {made} \X (1..parts[made])
      BY <1>5, <3>1, KindFacts DEF PerformReturns, CollectInv
    <3>3. made \in (1..made) \ failed /\ kindOf[made] = k
      BY <1>5, <3>1 DEF PerformReturns, HistoryInv, CallInv, Requests
    <3>4. QED  BY <2>1, <3>1, <3>2, <3>3
  <2>4. QED  BY <2>2, <2>3
<1>6. ASSUME NEW b \in BOOLEAN, PerformReturns(b)  PROVE ResponseInv'
  BY <1>5, <1>6 DEF PerformReturns
<1>7. CASE CleanUp
  BY <1>7 DEF CleanUp
<1>8. QED  BY <1>1, <1>2, <1>3, <1>4, <1>6, <1>7 DEF Wrapper

(* TRUE is returned for a 200, with the answer saved.                       *)
LEMMA WrapperEnter ==
  ASSUME IInv, Wrapper  PROVE EnterInv'
<1> USE DEF IInv, EnterInv, CallInv, Return, callerVars, history
<1>1. ASSUME NEW b \in BOOLEAN, GetCookies(b) \/ EasyInit(b)  PROVE EnterInv'
  BY <1>1 DEF GetCookies, EasyInit
<1>2. CASE SetOpt \/ WriteCallback \/ PerformFails
  BY <1>2 DEF SetOpt, WriteCallback, PerformFails
<1>3. ASSUME NEW b \in BOOLEAN, PerformReturns(b)  PROVE EnterInv'
  <2>1. kind = "enter" => response'["enter"] = {made} \X (1..parts[made])
    BY <1>3, KindFacts DEF PerformReturns, CollectInv, TypeOK, Saving
  <2>2. QED  BY <1>3, <2>1 DEF PerformReturns
<1>4. CASE CleanUp
  BY <1>4 DEF CleanUp
<1>5. QED  BY <1>1, <1>2, <1>3, <1>4 DEF Wrapper

(* The wrapper touches no task and no report, and takes back no 200.         *)
LEMMA WrapperRest ==
  ASSUME IInv, Wrapper
  PROVE  /\ TaskInv' /\ LoginOfOneResponse' /\ NoticeInv' /\ NoticeAfterSuccess'
         /\ HandleInv'
<1>1. UNCHANGED <<task, logins, reports, responsedata, caller, killed, decoded, kindOf>>
      /\ granted \subseteq granted'
  BY DEF Wrapper, GetCookies, EasyInit, SetOpt, WriteCallback, PerformFails, PerformReturns, CleanUp,
         callerVars, roomVars, history
<1>2. TaskInv' /\ LoginOfOneResponse' /\ NoticeInv' /\ NoticeAfterSuccess'
  BY <1>1 DEF IInv, TaskInv, LoginOfOneResponse, NoticeInv, NoticeAfterSuccess, OfOneResponse
<1>3. HandleInv'
  <2> USE DEF IInv, HandleInv, Return, roomVars, history, Open
  <2>1. ASSUME NEW b \in BOOLEAN, GetCookies(b) \/ EasyInit(b) \/ PerformReturns(b)
        PROVE  HandleInv'
    BY <2>1 DEF GetCookies, EasyInit, PerformReturns
  <2>2. CASE SetOpt \/ WriteCallback \/ PerformFails \/ CleanUp
    BY <2>2 DEF SetOpt, WriteCallback, PerformFails, CleanUp
  <2>3. QED  BY <2>1, <2>2 DEF Wrapper
<1>4. QED  BY <1>2, <1>3

-----------------------------------------------------------------------------
(* ... and for the steps of the callers                                      *)

(* A request begins: its number is new, nothing has come for it.             *)
LEMMA Begins ==
  ASSUME IInv, NEW k \in Kinds, made < MaxRequests, made' = made + 1,
         kindOf' = [kindOf EXCEPT ![made'] = k]
  PROVE  /\ made' \in Requests /\ made \in Nat
         /\ kindOf'[made'] = k /\ kindOf' \in [Requests -> Kinds]
         /\ \A n \in 1..made : n \in Requests /\ kindOf'[n] = kindOf[n]
         /\ parts[made'] = 0 /\ made' \notin failed
         /\ failed \subseteq 1..made' /\ granted \subseteq 1..made'
<1>1. made \in 0..MaxRequests /\ MaxRequests \in Nat /\ kindOf \in [Requests -> Kinds]
  BY BoundAssumption DEF IInv, TypeOK, HistoryInv
<1>2. made' \in Requests /\ made \in Nat /\ \A n \in 1..made : n \in Requests /\ n # made'
  BY <1>1 DEF Requests
<1>3. /\ kindOf'[made'] = k /\ kindOf' \in [Requests -> Kinds]
      /\ \A n \in 1..made : kindOf'[n] = kindOf[n]
  BY <1>1, <1>2
<1>4. failed \subseteq 1..made /\ granted \subseteq 1..made /\ \A n \in Requests : n > made => parts[n] = 0
  BY DEF IInv, HistoryInv
<1>5. made' > made /\ made' \notin 1..made /\ 1..made \subseteq 1..made'
  BY <1>2
<1>6. QED  BY <1>2, <1>3, <1>4, <1>5

(* The four actions that begin a request, with its kind.                     *)
Beginning(k) ==
  \/ k \in OtherKinds /\ CallOther(k)
  \/ k = "enter" /\ Nav
  \/ k = "gift" /\ (Token \/ GiftAgain)

(* What they have in common: the answers of earlier requests stay, or all go. *)
LEMMA BeginningFacts ==
  ASSUME IInv, NEW k, Beginning(k)
  PROVE  /\ k \in Kinds /\ made < MaxRequests /\ made' = made + 1
         /\ kindOf' = [kindOf EXCEPT ![made'] = k] /\ kind' = k /\ pc' = "cookies"
         /\ UNCHANGED <<user, task, decoded, logins, parts, failed, granted, handles, result>>
         /\ \A r \in Saving : response'[r] \in {response[r], {}}
         /\ pc \notin Open \/ (killed' = killed \cup {made} /\ k = "enter")
         /\ killed \subseteq killed'
<1> USE OtherAssumption DEF Beginning, Begin, roomVars, history, Kinds, IInv, CallInv, Open
<1>1. CASE k \in OtherKinds /\ CallOther(k)
  BY <1>1 DEF CallOther
<1>2. CASE k = "enter" /\ Nav
  BY <1>2 DEF Nav
<1>3. CASE k = "gift" /\ Token
  BY <1>3 DEF Token
<1>4. CASE k = "gift" /\ GiftAgain
  BY <1>4 DEF GiftAgain, callerVars
<1>5. QED  BY <1>1, <1>2, <1>3, <1>4

(* A request that begins takes nothing from the earlier ones.               *)
LEMMA BeginningPreserves ==
  ASSUME IInv, NEW k, Beginning(k)
  PROVE  /\ CallInv' /\ HistoryInv' /\ CollectInv' /\ ResponseInv' /\ EnterInv' /\ TaskInv'
         /\ HandleInv' /\ NoticeInv' /\ LoginOfOneResponse' /\ NoticeAfterSuccess'
<1>1. /\ k \in Kinds /\ made < MaxRequests /\ made' = made + 1
      /\ kindOf' = [kindOf EXCEPT ![made'] = k] /\ kind' = k /\ pc' = "cookies"
      /\ UNCHANGED <<user, task, decoded, logins, parts, failed, granted, handles, result>>
      /\ \A r \in Saving : response'[r] \in {response[r], {}}
      /\ pc \notin Open \/ (killed' = killed \cup {made} /\ k = "enter")
      /\ killed \subseteq killed'
  BY BeginningFacts
<1>2. /\ made' \in Requests /\ made \in Nat
      /\ kindOf'[made'] = k /\ kindOf' \in [Requests -> Kinds]
      /\ \A n \in 1..made : n \in Requests /\ kindOf'[n] = kindOf[n]
      /\ parts[made'] = 0 /\ made' \notin failed
      /\ failed \subseteq 1..made' /\ granted \subseteq 1..made'
  BY <1>1, Begins
<1>3. /\ caller' = IF k = "enter" THEN "enter" ELSE IF k = "gift" THEN "gift" ELSE "other"
      /\ k = "gift" => \/ try' = 0 /\ reports' = << >> /\ responsedata' = FALSE
                       \/ caller = "gift" /\ UNCHANGED <<try, reports, responsedata>>
      /\ k # "gift" => reports' = reports
  BY OtherAssumption
     DEF Beginning, CallOther, Nav, Token, GiftAgain, callerVars, roomVars, IInv, CallInv
<1>4. CallInv'
  BY <1>1, <1>2, <1>3, BoundAssumption DEF IInv, CallInv
<1>5. HistoryInv'
  <2>1. reports' \in Seq([notice : BOOLEAN, of : Requests])
    <3>1. reports' = reports \/ reports' = << >>
      BY <1>3
    <3>2. reports \in Seq([notice : BOOLEAN, of : Requests])
      BY DEF IInv, HistoryInv
    <3>3. \A S : << >> \in Seq(S)
      OBVIOUS
    <3>4. QED  BY <3>1, <3>2, <3>3, Zenon
  <2>2. \A n \in Requests : n > made' => parts'[n] = 0
    BY <1>1, <1>2 DEF IInv, HistoryInv, Requests
  <2>3. QED  BY <1>1, <1>2, <2>1, <2>2 DEF IInv, HistoryInv
<1>6. CollectInv'
  BY <1>1 DEF CollectInv
<1>7. ResponseInv'
  <2> SUFFICES ASSUME NEW r \in Saving, response'[r] # {}
               PROVE  \E n \in (1..made') \ failed' :
                        /\ kindOf'[n] = r /\ response'[r] = {n} \X (1..parts'[n])
                        /\ pc' \in Asked => n < made'
    BY DEF ResponseInv
  <2>1. response'[r] = response[r]
    BY <1>1
  <2>2. PICK n \in (1..made) \ failed : kindOf[n] = r /\ response[r] = {n} \X (1..parts[n])
    BY <2>1 DEF IInv, ResponseInv
  <2>3. n \in (1..made') \ failed' /\ kindOf'[n] = r /\ n < made' /\ parts'[n] = parts[n]
    BY <1>1, <1>2, <2>2
  <2>4. QED  BY <2>1, <2>2, <2>3
<1>8. EnterInv'
  BY <1>1, <1>3 DEF EnterInv
<1>9. TaskInv' /\ LoginOfOneResponse'
  <2>1. \A l : OfOneResponse(l) => OfOneResponse(l)'
    BY <1>1, <1>2 DEF OfOneResponse, IInv, HistoryInv
  <2>2. TaskInv'
    BY <1>1, <2>1 DEF IInv, TaskInv
  <2>3. \A l \in logins : OfOneResponse(l)
    BY DEF IInv, LoginOfOneResponse, OfOneResponse
  <2>4. \A l \in logins' : OfOneResponse(l)'
    BY <1>1, <2>1, <2>3
  <2>5. QED  BY <2>2, <2>4 DEF LoginOfOneResponse, OfOneResponse
<1>10. HandleInv'
  <2>1. handles \subseteq failed \cup killed' \cup {-n : n \in decoded}
    BY <1>1 DEF IInv, HandleInv
  <2>2. QED  BY <1>1, <2>1 DEF HandleInv, Open
<1>11. NoticeInv'
  BY <1>1, <1>3 DEF IInv, NoticeInv
<1>12. NoticeAfterSuccess'
  BY <1>1, <1>3 DEF IInv, NoticeAfterSuccess
<1>13. QED
  BY <1>4, <1>5, <1>6, <1>7, <1>8, <1>9, <1>10, <1>11, <1>12

(* The other returns, and DoConnect8080.                                    *)
LEMMA ReturnPreserves ==
  ASSUME IInv, OtherReturned \/ EnterReturned  PROVE IInv'
<1>1. /\ UNCHANGED <<made, handles, currentWriteData, response, code, result, try, responsedata,
                     roomVars, history, kind, looked>>
      /\ pc = "returned" /\ pc' = "idle"
      /\ \/ caller' = "none"
         \/ caller = "enter" /\ result /\ caller' = "extract"
  BY DEF OtherReturned, EnterReturned, IInv, TypeOK
<1> USE DEF roomVars, history
<1>2. TypeOK'
  BY <1>1 DEF IInv, TypeOK
<1>3. CallInv' /\ HistoryInv' /\ CollectInv' /\ ResponseInv'
  BY <1>1 DEF IInv, CallInv, HistoryInv, CollectInv, ResponseInv, Asked
<1>4. EnterInv' /\ TaskInv' /\ HandleInv' /\ NoticeInv'
  BY <1>1 DEF IInv, EnterInv, CallInv, TaskInv, OfOneResponse, HandleInv, NoticeInv, Open
<1>5. LoginOfOneResponse' /\ NoticeAfterSuccess'
  BY <1>1 DEF IInv, LoginOfOneResponse, NoticeAfterSuccess
<1>6. QED  BY <1>2, <1>3, <1>4, <1>5 DEF IInv

(* The task that is posted has the fields of one answer, all of them.       *)
LEMMA ExtractPreserves ==
  ASSUME IInv, NEW n \in (0..4) \cup {Len(Fields)}, Extract(n)  PROVE IInv'
<1>1. /\ UNCHANGED <<wrapperVars, try, responsedata, online, decoded, logins, killed, history>>
      /\ caller = "extract" /\ caller' = "none"
  BY DEF Extract
<1> USE DEF wrapperVars, history
<1>2. TypeOK'
  BY CallersType DEF Callers
<1>3. CallInv' /\ HistoryInv' /\ CollectInv' /\ ResponseInv'
  BY <1>1 DEF IInv, CallInv, HistoryInv, CollectInv, ResponseInv, Asked
<1>4. EnterInv' /\ HandleInv' /\ NoticeInv'
  BY <1>1 DEF IInv, EnterInv, CallInv, HandleInv, NoticeInv, Open
<1>5. TaskInv'
  <2>1. CASE n = Len(Fields)
    <3>1. task' = [by |-> made, user |-> user']
      BY <2>1 DEF Extract
    <3>2. \A f \in DOMAIN user' : user'[f] = made
      BY <2>1, ExtractType
    <3>3. made \in granted /\ kindOf[made] = "enter"
      BY <1>1 DEF IInv, EnterInv, CallInv
    <3>4. QED  BY <1>1, <3>1, <3>2, <3>3 DEF TaskInv, OfOneResponse
  <2>2. CASE n # Len(Fields)
    BY <2>2 DEF Extract, TaskInv
  <2>3. QED  BY <2>1, <2>2
<1>6. LoginOfOneResponse' /\ NoticeAfterSuccess'
  BY <1>1 DEF IInv, LoginOfOneResponse, NoticeAfterSuccess
<1>7. QED  BY <1>2, <1>3, <1>4, <1>5, <1>6 DEF IInv

(* The task is taken; its login package goes out if it connects.            *)
LEMMA ConnectPreserves ==
  ASSUME IInv, NEW given \in BOOLEAN, NEW connected \in BOOLEAN, DoConnect8080(given, connected)
  PROVE  IInv'
<1>1. /\ UNCHANGED <<pc, kind, made, looked, currentWriteData, response, code, result,
                     callerVars, user, killed, history>>
      /\ task # NoTask /\ task' = NoTask
      /\ handles' \subseteq handles \cup {-task.by} /\ decoded' = decoded \cup {task.by}
      /\ logins' \subseteq logins \cup {task}
  BY DEF DoConnect8080, UrlDecode
<1> USE DEF callerVars, history
<1>2. TypeOK'
  BY CallersType DEF Callers
<1>3. CallInv' /\ HistoryInv' /\ CollectInv' /\ ResponseInv'
  BY <1>1 DEF IInv, CallInv, HistoryInv, CollectInv, ResponseInv, Asked
<1>4. EnterInv' /\ TaskInv' /\ NoticeInv'
  BY <1>1 DEF IInv, EnterInv, CallInv, TaskInv, NoticeInv
<1>5. HandleInv'
  <2>1. {-n : n \in decoded'} = {-n : n \in decoded} \cup {-task.by}
    BY <1>1
  <2>2. QED  BY <1>1, <2>1 DEF IInv, HandleInv
<1>6. LoginOfOneResponse'
  <2>1. OfOneResponse(task)
    BY <1>1 DEF IInv, TaskInv
  <2>2. QED  BY <1>1, <2>1 DEF IInv, LoginOfOneResponse, OfOneResponse
<1>7. NoticeAfterSuccess'
  BY <1>1 DEF IInv, NoticeAfterSuccess
<1>8. QED  BY <1>2, <1>3, <1>4, <1>5, <1>6, <1>7 DEF IInv

(* A try of the gift loop returns.                                          *)
LEMMA GiftPreserves ==
  ASSUME IInv, GiftReturned  PROVE IInv'
<1> DEFINE report == [notice |-> responsedata', of |-> made]
<1>1. /\ UNCHANGED <<kind, made, looked, handles, currentWriteData, response, code, result,
                     roomVars, kindOf, parts, failed, granted>>
      /\ caller = "gift" /\ pc = "returned"
      /\ responsedata' = (responsedata \/ result)
      /\ reports' = Append(reports, report) /\ try' = try + 1
      /\ \/ try + 1 < GiftTries /\ pc' = "again" /\ caller' = "gift"
         \/ try + 1 = GiftTries /\ pc' = "idle" /\ caller' = "none"
  BY DEF GiftReturned, Reported, Notice
<1> USE DEF roomVars
<1>2. TypeOK'
  BY CallersType DEF Callers
<1>3. /\ reports \in Seq([notice : BOOLEAN, of : Requests]) /\ Len(reports) = try
      /\ made \in Requests /\ report \in [notice : BOOLEAN, of : Requests]
  BY <1>1, <1>2 DEF IInv, CallInv, HistoryInv, TypeOK
<1>4. /\ reports' \in Seq([notice : BOOLEAN, of : Requests]) /\ Len(reports') = try + 1
      /\ \A i \in 1..try : reports'[i] = reports[i]
      /\ reports'[try + 1] = report
      /\ DOMAIN reports' = 1..(try + 1) /\ DOMAIN reports = 1..try /\ try \in Nat
  BY <1>1, <1>3, AppendProperties
<1>5. CallInv' /\ HistoryInv'
  BY <1>1, <1>4 DEF IInv, CallInv, HistoryInv, Asked
<1>6. CollectInv' /\ ResponseInv' /\ EnterInv'
  BY <1>1 DEF IInv, CollectInv, ResponseInv, EnterInv, CallInv, Asked
<1>7. TaskInv' /\ HandleInv' /\ LoginOfOneResponse'
  BY <1>1 DEF IInv, TaskInv, OfOneResponse, HandleInv, LoginOfOneResponse, Open
<1>8. responsedata' => \E j \in 1..(try + 1) : reports'[j].of \in granted
  <2>1. CASE result
    BY <1>1, <1>4, <2>1 DEF IInv, EnterInv
  <2>2. CASE ~ result /\ responsedata
    <3>1. PICK j \in 1..try : reports[j].of \in granted
      BY <1>1, <1>4, <2>2 DEF IInv, NoticeInv
    <3>2. QED  BY <1>4, <3>1
  <2>3. QED  BY <1>1, <2>1, <2>2
<1>9. NoticeInv'
  BY <1>1, <1>4, <1>8 DEF NoticeInv
<1>10. NoticeAfterSuccess'
  <2> SUFFICES ASSUME NEW i \in 1..(try + 1), reports'[i].notice
               PROVE  \E j \in 1..i : reports'[j].of \in granted
    BY <1>1, <1>4 DEF NoticeAfterSuccess
  <2>1. CASE i \in 1..try
    <3>1. PICK j \in 1..i : reports[j].of \in granted
      BY <1>4, <2>1 DEF IInv, NoticeAfterSuccess
    <3>2. j \in 1..try
      BY <1>4, <2>1
    <3>3. QED  BY <1>4, <3>1, <3>2
  <2>2. CASE i = try + 1
    BY <1>4, <1>8, <2>2
  <2>3. QED  BY <1>4, <2>1, <2>2
<1>11. QED
  BY <1>2, <1>5, <1>6, <1>7, <1>9, <1>10 DEF IInv

(* The invariant is inductive.                                              *)
LEMMA StepInv ==
  IInv /\ [Next]_vars => IInv'
<1> SUFFICES ASSUME IInv, [Next]_vars  PROVE IInv'
  OBVIOUS
<1>1. CASE Wrapper
  BY <1>1, WrapperType, WrapperCall, WrapperHistory, WrapperCollect, WrapperResponse, WrapperEnter,
     WrapperRest DEF IInv
<1>2. ASSUME NEW k, Beginning(k)  PROVE IInv'
  <2>1. Callers
    BY <1>2 DEF Beginning, Callers
  <2>2. QED  BY <1>2, <2>1, CallersType, BeginningPreserves DEF IInv
<1>3. CASE OtherReturned \/ EnterReturned
  BY <1>3, ReturnPreserves
<1>4. ASSUME NEW n \in (0..4) \cup {Len(Fields)}, Extract(n)  PROVE IInv'
  BY <1>4, ExtractPreserves
<1>5. ASSUME NEW given \in BOOLEAN, NEW connected \in BOOLEAN, DoConnect8080(given, connected)
      PROVE  IInv'
  BY <1>5, ConnectPreserves
<1>6. CASE GiftReturned
  BY <1>6, GiftPreserves
<1>7. CASE UNCHANGED vars
  <2> USE DEF vars, wrapperVars, callerVars, roomVars, history
  <2>1. TypeOK' /\ CallInv' /\ HistoryInv'
    BY <1>7 DEF IInv, TypeOK, CallInv, HistoryInv
  <2>2. CollectInv' /\ ResponseInv' /\ EnterInv'
    BY <1>7 DEF IInv, CollectInv, ResponseInv, EnterInv
  <2>3. TaskInv' /\ HandleInv' /\ NoticeInv' /\ LoginOfOneResponse' /\ NoticeAfterSuccess'
    BY <1>7 DEF IInv, TaskInv, OfOneResponse, HandleInv, NoticeInv, LoginOfOneResponse,
       NoticeAfterSuccess
  <2>4. QED  BY <2>1, <2>2, <2>3 DEF IInv
<1>8. ASSUME Callers  PROVE IInv'
  BY <1>2, <1>3, <1>4, <1>5, <1>6, <1>8 DEF Callers, Beginning
<1>9. QED  BY <1>1, <1>7, <1>8 DEF Next

-----------------------------------------------------------------------------
(* Theorems                                                                *)

(* The invariant holds through any number of helpers and requests.           *)
THEOREM InvCorrect == Spec => []IInv
BY InitInv, StepInv, PTL DEF Spec

(* Every variable keeps its type (all of CurlRequests).                      *)
THEOREM TypeCorrect == Spec => []TypeOK
<1>1. IInv => TypeOK
  BY DEF IInv
<1>2. QED  BY <1>1, InvCorrect, PTL

(* currentWriteData_, one for all requests of a CurlWrapper: a response        *)
(* member is always the whole body of one request that was performed.         *)
THEOREM ResponseCorrect == Spec => []ResponseOfOneRequest
<1>1. IInv => ResponseOfOneRequest
  BY BoundAssumption DEF IInv, ResponseInv, ResponseOfOneRequest, TypeOK, Requests
<1>2. QED  BY <1>1, InvCorrect, PTL

(* NetworkHelper::EnterRoom writes the statics in place; a login package is    *)
(* still made of one answer, the one its own request got with a 200.          *)
THEOREM LoginCorrect == Spec => []LoginOfOneResponse
<1>1. IInv => LoginOfOneResponse
  BY DEF IInv
<1>2. QED  BY <1>1, InvCorrect, PTL

(* CurlWrapper leaks an easy handle for a perform that failed, for a thread     *)
(* ended in a request, and for a UrlDecode: for nothing else.                 *)
THEOREM LeakCorrect == Spec => []LeakedOnlyByFailure
<1>1. IInv => LeakedOnlyByFailure
  BY DEF IInv, HandleInv, CallInv, LeakedOnlyByFailure, Open
<1>2. QED  BY <1>1, InvCorrect, PTL

(* NotifyCallback601 reports a success only behind an answer with 200.        *)
THEOREM NoticeCorrect == Spec => []NoticeAfterSuccess
<1>1. IInv => NoticeAfterSuccess
  BY DEF IInv
<1>2. QED  BY <1>1, InvCorrect, PTL
=============================================================================
