-------------------------- MODULE NotifyQueueProofs --------------------------
(***************************************************************************)
(* Proofs about NotifyQueue, for any set of producers, any of which may be *)
(* terminated, any number of messages and any size of the window queue.    *)
(***************************************************************************)
EXTENDS NotifyQueue, SequenceTheorems, TLAPS

IInv == TypeOK /\ MutexInv /\ QueueInv

(* Inserting behind the last line appends.                                 *)
LEMMA InsertAtEnd ==
  ASSUME NEW S, NEW list \in Seq(S), NEW str \in S
  PROVE  InsertString(list, Len(list), str) = Append(list, str)
<1>1. Len(list) \in Nat
  OBVIOUS
<1>2. SubSeq(list, 1, Len(list)) = list
  BY SubSeqFull
<1>3. SubSeq(list, Len(list) + 1, Len(list)) = << >>
  BY <1>1, SubSeqEmpty
<1>4. list \o <<str>> \in Seq(S)
  OBVIOUS
<1>5. (list \o <<str>>) \o << >> = list \o <<str>>
  BY <1>4, ConcatEmptySeq
<1>6. QED  BY <1>2, <1>3, <1>5, AppendIsConcat DEF InsertString

LEMMA InitInv == Init => IInv
BY ThreadAssumption, BoundAssumption DEF Init, IInv, TypeOK, Places, MutexInv, QueueInv

(* What push_back stores, and behind what.                                 *)
LEMMA Stored ==
  ASSUME IInv, NEW p \in Producers, PushWrite(p)
  PROVE  /\ made[p] \in Nat /\ <<p, made[p]>> \in Message
         /\ messageQueen' = Append(messageQueen, <<p, made[p]>>)
<1>1. pc[p] = "write" /\ messageQueen' = Append(seen[p], <<p, made[p]>>)
  BY DEF PushWrite, Goto
<1>2. made[p] \in 0..MaxNotify
  BY DEF IInv, TypeOK
<1>3. made[p] > 0 /\ seen[p] = messageQueen
  BY <1>1 DEF IInv, QueueInv
<1>4. made[p] \in 1..MaxNotify
  BY <1>2, <1>3, BoundAssumption
<1>5. QED  BY <1>1, <1>3, <1>4 DEF Message

(* A producer's step keeps the invariant.                                  *)
LEMMA ProducerStep ==
  ASSUME IInv, NEW p \in Producers, Call(p) \/ Notify(p) \/ Terminate(p)
  PROVE  IInv'
<1> USE ThreadAssumption, BoundAssumption DEF IInv, Goto, producerVars, uiVars
<1>1. CASE Call(p)
  BY <1>1 DEF Call, TypeOK, Places, MutexInv, QueueInv
<1>2. CASE Lock(p)
  <2>1. TypeOK'
    BY <1>2 DEF Lock, TypeOK, Places
  <2>2. MutexInv'
    BY <1>2 DEF Lock, TypeOK, MutexInv
  <2>3. QueueInv'
    BY <1>2 DEF Lock, TypeOK, QueueInv
  <2>4. QED  BY <2>1, <2>2, <2>3
<1>3. CASE PushRead(p)
  <2>1. TypeOK'
    BY <1>3 DEF PushRead, TypeOK, Places
  <2>2. MutexInv'
    BY <1>3 DEF PushRead, TypeOK, MutexInv
  <2>3. QueueInv'
    BY <1>3 DEF PushRead, TypeOK, QueueInv
  <2>4. QED  BY <2>1, <2>2, <2>3
<1>4. CASE PushWrite(p)
  <2>a. messageQueen' \in Seq(Message)
    <3>1. messageQueen \in Seq(Message)
      BY DEF TypeOK
    <3>2. /\ messageQueen' = Append(messageQueen, <<p, made[p]>>)
          /\ <<p, made[p]>> \in Message
      BY <1>4, Stored
    <3>3. QED  BY <3>1, <3>2, AppendProperties
  <2>b. pc' \in [Producers -> Places]
    BY <1>4 DEF PushWrite, TypeOK, Places
  <2>1. TypeOK'
    <3>. HIDE DEF Goto
    <3>1. QED  BY <1>4, <2>a, <2>b DEF PushWrite, TypeOK
  <2>2. MutexInv'
    BY <1>4 DEF PushWrite, TypeOK, MutexInv
  <2>3. QueueInv'
    BY <1>4 DEF PushWrite, TypeOK, MutexInv, QueueInv
  <2>4. QED  BY <2>1, <2>2, <2>3
<1>5. CASE Unlock(p)
  <2>1. TypeOK'
    BY <1>5 DEF Unlock, TypeOK, Places
  <2>2. MutexInv'
    BY <1>5 DEF Unlock, TypeOK, MutexInv
  <2>3. QueueInv'
    BY <1>5 DEF Unlock, TypeOK, QueueInv
  <2>4. QED  BY <2>1, <2>2, <2>3
<1>6. CASE PostMessage(p)
  BY <1>6 DEF PostMessage, TypeOK, Places, MutexInv, QueueInv
<1>7. CASE Terminate(p)
  BY <1>7 DEF Terminate, TypeOK, Places, MutexInv, QueueInv
<1>8. QED
  BY <1>1, <1>2, <1>3, <1>4, <1>5, <1>6, <1>7 DEF Notify

(* A step of the UI thread keeps the invariant.                            *)
LEMMA HandlerStep ==
  ASSUME IInv, OnNotifyMessage
  PROVE  IInv'
<1> USE ThreadAssumption, BoundAssumption DEF IInv, producerVars
<1>1. CASE Dispatch
  BY <1>1 DEF Dispatch, TypeOK, MutexInv, QueueInv
<1>2. CASE UILock
  BY <1>2 DEF UILock, TypeOK, MutexInv, QueueInv
<1>3. CASE Swap
  <2>1. TypeOK'
    BY <1>3 DEF Swap, TypeOK
  <2>2. MutexInv'
    BY <1>3 DEF Swap, MutexInv
  <2>3. QueueInv'
    BY <1>3 DEF Swap, TypeOK, MutexInv, QueueInv
  <2>4. QED  BY <2>1, <2>2, <2>3
<1>4. CASE UIUnlock
  BY <1>4 DEF UIUnlock, TypeOK, MutexInv, QueueInv
<1>5. CASE Insert
  <2>1. Head(messages) \in Message /\ Tail(messages) \in Seq(Message)
    BY <1>5 DEF Insert, TypeOK
  <2>2. InfoList' = Append(InfoList, Head(messages))
    BY <1>5, <2>1, InsertAtEnd DEF Insert, TypeOK, QueueInv
  <2>3. InfoList' \in Seq(Message) /\ count' = Len(InfoList')
    <3>1. InfoList \in Seq(Message) /\ count = Len(InfoList) /\ count' = count + 1
      BY <1>5 DEF Insert, TypeOK, QueueInv
    <3>2. QED  BY <2>1, <2>2, <3>1, AppendProperties
  <2>4. TypeOK'
    BY <1>5, <2>1, <2>3 DEF Insert, TypeOK
  <2>5. MutexInv' /\ QueueInv'
    BY <1>5, <2>3 DEF Insert, MutexInv, QueueInv
  <2>6. QED  BY <2>4, <2>5
<1>6. CASE Finish
  BY <1>6 DEF Finish, TypeOK, MutexInv, QueueInv
<1>7. QED
  BY <1>1, <1>2, <1>3, <1>4, <1>5, <1>6 DEF OnNotifyMessage

(* Types, mutual exclusion on the vector and the invariant the refinement  *)
(* rests on, whichever thread is terminated at whichever step.             *)
THEOREM InvCorrect == Safety => [](TypeOK /\ MutexInv /\ QueueInv)
<1>1. IInv /\ [Next]_vars => IInv'
  <2>1. IInv /\ UNCHANGED vars => IInv'
    BY DEF IInv, TypeOK, MutexInv, QueueInv, vars, producerVars, uiVars
  <2>2. QED  BY <2>1, ProducerStep, HandlerStep DEF Next
<1>2. QED  BY <1>1, InitInv, PTL DEF Safety, IInv

(* Every variable keeps its type (all of NotifyQueue).                      *)
THEOREM TypeCorrect == Safety => []TypeOK
BY InvCorrect, PTL

(* messageMutex_ excludes: one thread at a time between its lock and unlock. *)
THEOREM MutexCorrect == Safety => []MutexInv
BY InvCorrect, PTL

-----------------------------------------------------------------------------
(* A message in the vector is announced: a WM_USER_01 is on its way, or being *)
(* handled, or a thread is between its push_back and its PostMessage.        *)
AnnouncedInv == messageQueen # << >> =>
  \/ posted > 0 \/ ui \in {"lock", "swap"}
  \/ \E p \in Producers : pc[p] \in {"unlock", "post"}

(* A full window queue, which refuses the message, has one for it already.    *)
LEMMA AnnouncedStep ==
  ASSUME IInv, AnnouncedInv, [Next]_vars  PROVE AnnouncedInv'
<1> USE BoundAssumption DEF IInv, TypeOK, AnnouncedInv, Goto, producerVars, uiVars
<1>1. ASSUME NEW p \in Producers, Call(p) \/ Lock(p) \/ PushRead(p)  PROVE AnnouncedInv'
  <2>1. /\ UNCHANGED <<messageQueen, posted, ui>> /\ pc[p] \notin {"unlock", "post"}
        /\ \A q \in Producers : q # p => pc'[q] = pc[q]
    BY <1>1 DEF Call, Lock, PushRead
  <2>2. QED  BY <2>1
<1>2. ASSUME NEW p \in Producers, PushWrite(p) \/ Unlock(p)  PROVE AnnouncedInv'
  <2>1. pc'[p] \in {"unlock", "post"}
    BY <1>2 DEF PushWrite, Unlock
  <2>2. QED  BY <2>1
<1>3. ASSUME NEW p \in Producers, PostMessage(p)  PROVE AnnouncedInv'
  BY <1>3 DEF PostMessage
<1>4. ASSUME NEW p \in Producers, Terminate(p)  PROVE AnnouncedInv'
  BY <1>4 DEF Terminate
<1>5. CASE Dispatch \/ UILock \/ UIUnlock \/ Insert \/ Finish
  BY <1>5 DEF Dispatch, UILock, UIUnlock, Insert, Finish
<1>6. CASE Swap
  BY <1>6 DEF Swap, QueueInv
<1>7. CASE UNCHANGED vars
  BY <1>7 DEF vars
<1>8. QED
  BY <1>1, <1>2, <1>3, <1>4, <1>5, <1>6, <1>7 DEF Next, Notify, OnNotifyMessage

(* CFanXingDlg::Notify ignores that PostMessage fails, and OnNotifyMessage     *)
(* takes the whole vector: still no message is left behind, but by a thread   *)
(* terminated between its push_back and its PostMessage.                     *)
THEOREM StrandedCorrect == Safety => []StrandedOnlyByTermination
<1>1. Init => AnnouncedInv
  BY DEF Init, AnnouncedInv
<1>2. IInv /\ AnnouncedInv => StrandedOnlyByTermination
  BY DEF AnnouncedInv, StrandedOnlyByTermination, Stranded
<1>3. QED
  BY <1>1, <1>2, AnnouncedStep, InvCorrect, PTL DEF Safety, IInv

-----------------------------------------------------------------------------
(* A step of a producer is a step of the abstract log, or nothing.         *)
LEMMA ProducerRefines ==
  ASSUME IInv, NEW p \in Producers, Call(p) \/ Notify(p) \/ Terminate(p)
  PROVE  [Log!Next]_(Log!vars)
<1> DEFINE G == [q \in Producers |-> Given(q)]
<1> USE DEF IInv, Goto, producerVars, uiVars
<1>1. CASE PushWrite(p)
  <2>1. made[p] \in Nat /\ <<p, made[p]>> \in Message
    BY <1>1, Stored
  <2>2. messageQueen' = Append(messageQueen, <<p, made[p]>>)
    BY <1>1, Stored
  <2>3. Accepted' = Append(Accepted, <<p, made[p]>>)
    <3>. DEFINE m == <<p, made[p]>>
    <3>1. /\ InfoList \in Seq(Message) /\ messages \in Seq(Message)
          /\ messageQueen \in Seq(Message) /\ <<m>> \in Seq(Message)
          /\ InfoList \o messages \in Seq(Message)
      BY <2>1 DEF TypeOK
    <3>2. Accepted' = (InfoList \o messages) \o (messageQueen \o <<m>>)
      BY <1>1, <2>1, <2>2, <3>1, AppendIsConcat DEF PushWrite, Accepted
    <3>3. Accepted' = Accepted \o <<m>>
      BY <3>1, <3>2, ConcatAssociative DEF Accepted
    <3>4. Accepted \in Seq(Message)
      BY <3>1 DEF Accepted
    <3>5. QED  BY <2>1, <3>3, <3>4, AppendIsConcat
  <2>4. G' = [G EXCEPT ![p] = @ + 1] /\ G'[p] = made[p]
    <3>1. pc[p] = "write" /\ pc'[p] = "unlock" /\ made' = made
      BY <1>1 DEF PushWrite, TypeOK
    <3>2. \A q \in Producers : q # p => pc'[q] = pc[q]
      BY <1>1 DEF PushWrite, TypeOK
    <3>3. Given(p)' = made[p] /\ Given(p) + 1 = made[p]
      BY <2>1, <3>1 DEF Given
    <3>4. \A q \in Producers : q # p => Given(q)' = Given(q)
      BY <3>1, <3>2 DEF Given
    <3>5. QED  BY <3>3, <3>4
  <2>5. InfoList' = InfoList
    BY <1>1 DEF PushWrite
  <2>6. Log!Accept(p)
    BY <2>3, <2>4, <2>5 DEF Log!Accept
  <2>7. QED  BY <2>6 DEF Log!Next
<1>2. CASE Call(p) \/ Lock(p) \/ PushRead(p) \/ Unlock(p) \/ PostMessage(p) \/ Terminate(p)
  <2>1. InfoList' = InfoList /\ Accepted' = Accepted
    BY <1>2 DEF Call, Lock, PushRead, Unlock, PostMessage, Terminate, Accepted
  <2>2. ASSUME NEW q \in Producers PROVE Given(q)' = Given(q)
    <3>1. CASE Call(p)
      BY <3>1 DEF Call, Given, TypeOK
    <3>2. CASE Lock(p) \/ PushRead(p)
      BY <3>2 DEF Lock, PushRead, Given, TypeOK
    <3>3. CASE Unlock(p) \/ PostMessage(p) \/ Terminate(p)
      BY <3>3 DEF Unlock, PostMessage, Terminate, Given, TypeOK
    <3>4. QED  BY <1>2, <3>1, <3>2, <3>3
  <2>3. G' = G
    BY <2>2
  <2>4. QED  BY <2>1, <2>3 DEF Log!vars
<1>3. QED  BY <1>1, <1>2 DEF Notify

(* A step of the UI thread shows one line, or nothing.                     *)
LEMMA HandlerRefines ==
  ASSUME IInv, OnNotifyMessage
  PROVE  [Log!Next]_(Log!vars)
<1> DEFINE G == [q \in Producers |-> Given(q)]
<1> USE DEF IInv, producerVars
<1>0. /\ InfoList \in Seq(Message) /\ messages \in Seq(Message)
      /\ messageQueen \in Seq(Message)
  BY DEF TypeOK
<1>1. CASE Insert
  <2>1. Head(messages) \in Message /\ Tail(messages) \in Seq(Message)
        /\ messages = <<Head(messages)>> \o Tail(messages)
    BY <1>0, <1>1 DEF Insert
  <2>2. InfoList' = Append(InfoList, Head(messages))
    BY <1>0, <1>1, <2>1, InsertAtEnd DEF Insert, QueueInv
  <2>3. Accepted' = Accepted
    <3>1. (InfoList \o <<Head(messages)>>) \o Tail(messages) = InfoList \o messages
      BY <1>0, <2>1, ConcatAssociative
    <3>2. InfoList' = InfoList \o <<Head(messages)>>
      BY <1>0, <2>1, <2>2, AppendIsConcat
    <3>3. QED  BY <1>1, <3>1, <3>2 DEF Insert, Accepted
  <2>4. Len(InfoList) < Len(Accepted) /\ Accepted[Len(InfoList) + 1] = Head(messages)
    BY <1>0, <1>1 DEF Insert, Accepted
  <2>5. G' = G
    BY <1>1 DEF Insert, Given
  <2>6. Log!Show
    BY <2>2, <2>3, <2>4, <2>5 DEF Log!Show
  <2>7. QED  BY <2>6 DEF Log!Next
<1>2. CASE Swap
  <2>1. messages = << >> /\ messages' = messageQueen /\ messageQueen' = << >>
        /\ InfoList' = InfoList
    BY <1>2 DEF Swap, QueueInv
  <2>2. Accepted' = Accepted
    <3>1. Accepted = InfoList \o messageQueen
      BY <1>0, <2>1, ConcatEmptySeq DEF Accepted
    <3>2. Accepted' = (InfoList \o messageQueen) \o << >>
      BY <2>1 DEF Accepted
    <3>3. InfoList \o messageQueen \in Seq(Message)
      BY <1>0
    <3>4. QED  BY <3>1, <3>2, <3>3, ConcatEmptySeq
  <2>3. G' = G
    BY <1>2 DEF Swap, Given
  <2>4. QED  BY <2>1, <2>2, <2>3 DEF Log!vars
<1>3. CASE Dispatch
  BY <1>3 DEF Dispatch, QueueInv, Accepted, Given, Log!vars
<1>4. CASE UILock \/ UIUnlock \/ Finish
  BY <1>4 DEF UILock, UIUnlock, Finish, Accepted, Given, Log!vars
<1>5. QED
  BY <1>1, <1>2, <1>3, <1>4 DEF OnNotifyMessage

(* The list of the dialog implements the abstract log: nothing lost,       *)
(* repeated or reordered between Notify and the list, with any number of    *)
(* threads, of which any may be terminated.                                *)
THEOREM Refinement == Safety => ImplementsLogSafety
<1>1. Init => Log!Init
  <2>1. SUFFICES ASSUME Init PROVE Log!Init
    OBVIOUS
  <2>2. Accepted = << >>
    BY <2>1, ConcatEmptySeq DEF Init, Accepted
  <2>3. [q \in Producers |-> Given(q)] = [q \in Producers |-> 0]
    BY <2>1 DEF Init, Given
  <2>4. QED  BY <2>1, <2>2, <2>3 DEF Init, Log!Init
<1>2. IInv /\ [Next]_vars => [Log!Next]_(Log!vars)
  <2>1. UNCHANGED vars => UNCHANGED Log!vars
    BY DEF vars, producerVars, uiVars, Log!vars, Accepted, Given
  <2>2. QED  BY <2>1, ProducerRefines, HandlerRefines DEF Next
<1>3. QED  BY <1>1, <1>2, InvCorrect, PTL DEF Safety, ImplementsLogSafety, Log!Safety, IInv
=============================================================================
