----------------------------- MODULE NotifyQueue -----------------------------
(***************************************************************************)
(* The way of a message from a worker thread to the list of the dialog:    *)
(* CFanXingDlg::Notify, which any thread calls, and                        *)
(* CFanXingDlg::OnNotifyMessage, which the UI thread runs for each posted   *)
(* WM_USER_01 (FanXingUI/FanXingDlg.cpp).                                   *)
(*                                                                         *)
(* The producers are the receiving thread (packages and gift results) and   *)
(* the base thread (heartbeats).  A receiving thread may be terminated      *)
(* between any two of its steps (TcpClient::Finalize, Thread::Stop).        *)
(*                                                                         *)
(* push_back on the shared vector is a read and a write, so that what the   *)
(* mutex is there to prevent can happen without it.                         *)
(***************************************************************************)
EXTENDS Integers, Sequences

CONSTANTS
  Producers,   \* threads that call Notify
  Killable,    \* those of them TerminateThread may end
  UI,          \* the UI thread, as an owner of the mutex
  NoOne,       \* the mutex is free
  MaxNotify,   \* bound: calls of Notify per producer
  PostLimit    \* how many posted messages the window queue holds

ASSUME ThreadAssumption ==
  /\ Killable \subseteq Producers
  /\ UI \notin Producers /\ NoOne \notin Producers \cup {UI}
ASSUME BoundAssumption == MaxNotify \in Nat /\ PostLimit \in Nat \ {0}

VARIABLES
  pc,             \* pc[p]: where producer p is in Notify
  made,           \* made[p]: messages p has made
  killed,         \* producers that were terminated
  seen,           \* seen[p]: the vector as p's push_back read it
  messageMutex,   \* the thread that holds messageMutex_
  messageQueen,   \* messageQueen_
  posted,         \* WM_USER_01 messages in the window's queue
  ui,             \* where the UI thread is in OnNotifyMessage
  messages,       \* its local vector
  InfoList,       \* the list box
  count           \* member count: where the next line goes

producerVars == <<pc, made, seen, killed>>
uiVars == <<ui, messages, InfoList, count>>
vars == <<producerVars, messageMutex, messageQueen, posted, uiVars>>

Message == Producers \X (1..MaxNotify)

Init ==
  /\ pc = [p \in Producers |-> "idle"]
  /\ made = [p \in Producers |-> 0]
  /\ seen = [p \in Producers |-> << >>]
  /\ killed = {}
  /\ messageMutex = NoOne
  /\ messageQueen = << >>
  /\ posted = 0
  /\ ui = "loop" /\ messages = << >> /\ InfoList = << >> /\ count = 0

Goto(p, from, to) ==
  /\ p \notin killed /\ pc[p] = from
  /\ pc' = [pc EXCEPT ![p] = to]

-----------------------------------------------------------------------------
(* CFanXingDlg::Notify                                                     *)

Call(p) ==
  /\ Goto(p, "idle", "lock")
  /\ made[p] < MaxNotify
  /\ made' = [made EXCEPT ![p] = @ + 1]
  /\ UNCHANGED <<seen, killed, messageMutex, messageQueen, posted, uiVars>>

(* Mutant: the mutex is not waited for.                                    *)
LockAnyTime(p) ==
  /\ Goto(p, "lock", "push")
  /\ messageMutex' = p
  /\ UNCHANGED <<made, seen, killed, messageQueen, posted, uiVars>>

Lock(p) ==
  /\ Goto(p, "lock", "push")
  /\ messageMutex = NoOne
  /\ messageMutex' = p
  /\ UNCHANGED <<made, seen, killed, messageQueen, posted, uiVars>>

(* push_back looks at the vector ...                                       *)
PushRead(p) ==
  /\ Goto(p, "push", "write")
  /\ seen' = [seen EXCEPT ![p] = messageQueen]
  /\ UNCHANGED <<made, killed, messageMutex, messageQueen, posted, uiVars>>

(* ... and stores it one element longer.                                   *)
PushWrite(p) ==
  /\ Goto(p, "write", "unlock")
  /\ messageQueen' = Append(seen[p], <<p, made[p]>>)
  /\ UNCHANGED <<made, seen, killed, messageMutex, posted, uiVars>>

Unlock(p) ==
  /\ Goto(p, "unlock", "post")
  /\ messageMutex' = NoOne
  /\ UNCHANGED <<made, seen, killed, messageQueen, posted, uiVars>>

(* PostMessage fails when the queue is full; Notify ignores its result.    *)
PostMessage(p) ==
  /\ Goto(p, "post", "idle")
  /\ posted' = IF posted < PostLimit THEN posted + 1 ELSE posted
  /\ UNCHANGED <<made, seen, killed, messageMutex, messageQueen, uiVars>>

(* TerminateThread, from the UI thread, which is then not in its handler.  *)
Terminate(p) ==
  /\ p \in Killable \ killed
  /\ ui = "loop"
  /\ killed' = killed \cup {p}
  /\ UNCHANGED <<pc, made, seen, messageMutex, messageQueen, posted, uiVars>>

-----------------------------------------------------------------------------
(* CFanXingDlg::OnNotifyMessage                                            *)

Dispatch ==
  /\ ui = "loop" /\ posted > 0
  /\ posted' = posted - 1
  /\ ui' = "lock"
  /\ messages' = << >>
  /\ UNCHANGED <<producerVars, messageMutex, messageQueen, InfoList, count>>

(* Mutant: the handler does not wait for the mutex.                        *)
UILockAnyTime ==
  /\ ui = "lock"
  /\ messageMutex' = UI
  /\ ui' = "swap"
  /\ UNCHANGED <<producerVars, messageQueen, posted, messages, InfoList, count>>

UILock ==
  /\ ui = "lock" /\ messageMutex = NoOne
  /\ messageMutex' = UI
  /\ ui' = "swap"
  /\ UNCHANGED <<producerVars, messageQueen, posted, messages, InfoList, count>>

(* Mutant: the handler takes one message only.                             *)
SwapOne ==
  /\ ui = "swap"
  /\ messages' = SubSeq(messageQueen, 1, 1)
  /\ messageQueen' = SubSeq(messageQueen, 2, Len(messageQueen))
  /\ ui' = "unlock"
  /\ UNCHANGED <<producerVars, messageMutex, posted, InfoList, count>>

Swap ==
  /\ ui = "swap"
  /\ messages' = messageQueen
  /\ messageQueen' = messages
  /\ ui' = "unlock"
  /\ UNCHANGED <<producerVars, messageMutex, posted, InfoList, count>>

(* Mutant: the handler keeps the mutex.                                    *)
UIKeepsLock ==
  /\ ui = "unlock"
  /\ ui' = "insert"
  /\ UNCHANGED <<producerVars, messageMutex, messageQueen, posted, messages, InfoList, count>>

UIUnlock ==
  /\ ui = "unlock"
  /\ messageMutex' = NoOne
  /\ ui' = "insert"
  /\ UNCHANGED <<producerVars, messageQueen, posted, messages, InfoList, count>>

(* CListBox::InsertString: the new line stands at index i, counted from 0. *)
InsertString(list, i, str) ==
  SubSeq(list, 1, i) \o <<str>> \o SubSeq(list, i + 1, Len(list))

(* Mutant: the newest line goes to the top.                                *)
InsertAtTop ==
  /\ ui = "insert" /\ messages # << >>
  /\ InfoList' = InsertString(InfoList, 0, Head(messages))
  /\ count' = count + 1
  /\ messages' = Tail(messages)
  /\ UNCHANGED <<producerVars, messageMutex, messageQueen, posted, ui>>

Insert ==
  /\ ui = "insert" /\ messages # << >>
  /\ InfoList' = InsertString(InfoList, count, Head(messages))
  /\ count' = count + 1
  /\ messages' = Tail(messages)
  /\ UNCHANGED <<producerVars, messageMutex, messageQueen, posted, ui>>

(* Mutant: the loop runs one element past the end of the vector.            *)
FinishPastEnd ==
  /\ ui = "insert" /\ messages = << >>
  /\ InfoList' = InsertString(InfoList, count, <<NoOne, count>>)
  /\ count' = count + 1
  /\ ui' = "loop"
  /\ UNCHANGED <<producerVars, messageMutex, messageQueen, posted, messages>>

(* SetCurSel and return to the message loop.                               *)
Finish ==
  /\ ui = "insert" /\ messages = << >>
  /\ ui' = "loop"
  /\ UNCHANGED <<producerVars, messageMutex, messageQueen, posted, messages,
                 InfoList, count>>

OnNotifyMessage == Dispatch \/ UILock \/ Swap \/ UIUnlock \/ Insert \/ Finish
Notify(p) ==
  Lock(p) \/ PushRead(p) \/ PushWrite(p) \/ Unlock(p) \/ PostMessage(p)

Next ==
  \/ OnNotifyMessage
  \/ \E p \in Producers : Call(p) \/ Notify(p) \/ Terminate(p)

(* The scheduler runs every thread that can run; nobody has to call Notify, *)
(* and nobody has to terminate a thread.                                    *)
Fairness == WF_vars(OnNotifyMessage) /\ \A p \in Producers : WF_vars(Notify(p))

Safety == Init /\ [][Next]_vars
Spec == Safety /\ Fairness

-----------------------------------------------------------------------------
Places == {"idle", "lock", "push", "write", "unlock", "post"}

(* Types of the variables.                                                 *)
TypeOK ==
  /\ pc \in [Producers -> Places]
  /\ made \in [Producers -> 0..MaxNotify]
  /\ seen \in [Producers -> Seq(Message)]
  /\ killed \subseteq Killable
  /\ messageMutex \in Producers \cup {UI, NoOne}
  /\ messageQueen \in Seq(Message)
  /\ posted \in 0..PostLimit
  /\ ui \in {"loop", "lock", "swap", "unlock", "insert"}
  /\ messages \in Seq(Message)
  /\ InfoList \in Seq(Message)
  /\ count \in Nat

(* A thread inside its critical section holds the mutex.                   *)
MutexInv ==
  /\ \A p \in Producers : pc[p] \in {"push", "write", "unlock"} => messageMutex = p
  /\ ui \in {"swap", "unlock"} => messageMutex = UI

(* What the refinement rests on: nobody changes the vector between the two *)
(* halves of a push_back, a producer in Notify has made a message, the     *)
(* handler's vector is empty when it swaps, and count is where the list     *)
(* ends.                                                                   *)
QueueInv ==
  /\ \A p \in Producers : /\ pc[p] = "write" => seen[p] = messageQueen
                          /\ pc[p] # "idle" => made[p] > 0
  /\ ui \in {"loop", "lock", "swap"} => messages = << >>
  /\ count = Len(InfoList)

(* The messages Notify has accepted: in the list, taken out by the handler *)
(* or still in the shared vector.                                          *)
Accepted == InfoList \o messages \o messageQueen

(* How many of p's messages were accepted: those made, less one that p has *)
(* not stored yet, or was terminated before it stored.                     *)
Given(p) == IF pc[p] \in {"lock", "push", "write"} THEN made[p] - 1 ELSE made[p]

Log == INSTANCE MessageLog WITH accepted <- Accepted, shown <- InfoList,
                                given <- [p \in Producers |-> Given(p)]

(* The list shows every message that was accepted, once, in the order of   *)
(* acceptance, each producer's in the order it made them, whatever the      *)
(* interleaving and whichever thread is terminated.                        *)
ImplementsLogSafety == Log!Safety

(* When no thread is ever terminated, every accepted message gets to the     *)
(* list, also when PostMessage fails on a full queue (line 340): all of       *)
(* MessageLog is implemented, its fairness too.                              *)
ImplementsLogFairness == [](killed = {}) => Log!Fairness

(* A message that no producer will announce any more: the vector holds it,  *)
(* no WM_USER_01 is on its way and no thread is about to post one.          *)
Stranded ==
  /\ messageQueen # << >> /\ posted = 0 /\ ui = "loop"
  /\ \A p \in Producers : pc[p] \in {"unlock", "post"} => p \in killed

(* Only a termination between push_back and PostMessage strands a message;  *)
(* in particular a handler never returns leaving one behind.               *)
StrandedOnlyByTermination ==
  Stranded => \E p \in killed : pc[p] \in {"unlock", "post"}

(* The mutex was left locked by a terminated thread: nobody will unlock it. *)
Orphaned == \E p \in killed : messageMutex = p

(* The UI thread gets out of OnNotifyMessage unless a thread was terminated *)
(* inside its critical section.                                            *)
HandlerReturns == (ui # "loop") ~> (ui = "loop" \/ Orphaned)
=============================================================================
