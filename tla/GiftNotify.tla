----------------------------- MODULE GiftNotify -----------------------------
(***************************************************************************)
(* From the bytes of the 8080 stream to the callbacks: MixPackage composed *)
(* with GiftNotifyManager::Notify, which takes the packages of one chunk    *)
(* one after another, parses each and calls notify601_ and normalNotify_.   *)
(*                                                                         *)
(* An object of the server is abstracted to its command and to what is in   *)
(* its content: "token" (a token that is text), "plain" (no token), "null", *)
(* or "odd" (a member that should be text and is not: asString throws).     *)
(* The package of an object that arrived torn is a tail of its text; Json,   *)
(* whose root is not strict, may refuse it, may find another value at its    *)
(* start, or find one that has no members, and then the behaviour of `get'   *)
(* is not defined (its assert is compiled out).                             *)
(***************************************************************************)
EXTENDS MixPackage

CONSTANTS
  Cmd,       \* Cmd[o]: the member cmd of object o
  Content    \* Content[o]: what its member content is

ASSUME ObjectAssumption ==
  /\ Cmd \in [Objects -> Nat]
  /\ Content \in [Objects -> {"token", "plain", "null", "odd"}]

VARIABLES
  next,      \* the package Notify looks at next
  calls,     \* history: the calls it made, <<callback, package>>
  cuts,      \* history: numbers of packages handed over by each Return
  alive      \* FALSE after undefined behaviour has stopped the process

notifyVars == <<next, calls, cuts, alive>>

InitNotify == Init /\ next = 1 /\ calls = << >> /\ cuts = {} /\ alive = TRUE

-----------------------------------------------------------------------------
(* The object a package ends.                                              *)
ObjectOf(p) == CHOOSE o \in Objects : o[2] \in p.text /\ \A n \in p.text : n <= o[2]
Complete(p) == p.text = ObjectOf(p)[1]..ObjectOf(p)[2]

(* Mutant: a 601 with no token is taken for a gift.                        *)
GiftByCommand(o) == Cmd[o] = 601

(* A 601 with a token: the key is not empty.                               *)
Gift(o) == Cmd[o] = 601 /\ Content[o] = "token"

(* Reading the token of a 601 throws out of the try block.                 *)
Throws(o) == Cmd[o] = 601 /\ Content[o] = "odd"

(* The command handlers that leave a message in outmsg: 201, 501, 601 and   *)
(* 602, when the content is there and has the types expected.  The others   *)
(* (315, 606) return false, and 100 is not called.                         *)
Outmsg(o) == Cmd[o] \in {201, 501, 601, 602} /\ Content[o] \in {"token", "plain"}

(* Mutant: the raw text goes out before the token.                         *)
CallsRawFirst(i, o) ==
  << <<"raw", i>> >>
  \o (IF Gift(o) THEN << <<"601", i>> >> ELSE << >>)
  \o (IF Outmsg(o) THEN << <<"message", i>> >> ELSE << >>)

(* What Notify calls for the complete object o, in package i.               *)
CallsFor(i, o) ==
  IF Throws(o) THEN << >>
  ELSE (IF Gift(o) THEN << <<"601", i>> >> ELSE << >>)
       \o << <<"raw", i>> >>
       \o (IF Outmsg(o) THEN << <<"message", i>> >> ELSE << >>)

InBatch == alive /\ phase = "recv" /\ next <= handed

(* Mutant: Notify returns after a gift.                                    *)
ReturnAfterGift ==
  /\ InBatch
  /\ Complete(packages[next])
  /\ calls' = calls \o CallsFor(next, ObjectOf(packages[next]))
  /\ next' = IF Gift(ObjectOf(packages[next])) THEN handed + 1 ELSE next + 1
  /\ UNCHANGED <<vars, cuts, alive>>

(* A complete object parses.                                               *)
HandleObject ==
  /\ InBatch
  /\ Complete(packages[next])
  /\ calls' = calls \o CallsFor(next, ObjectOf(packages[next]))
  /\ next' = next + 1
  /\ UNCHANGED <<vars, cuts, alive>>

Torn == InBatch /\ ~ Complete(packages[next])

(* Mutant: one more package is dropped with it.                            *)
DropNextToo ==
  /\ Torn
  /\ next' = handed + 2
  /\ UNCHANGED <<vars, calls, cuts, alive>>

(* A torn one is refused, and Notify returns: the rest of the batch is      *)
(* dropped ...                                                             *)
DropBatch ==
  /\ Torn
  /\ next' = handed + 1
  /\ UNCHANGED <<vars, calls, cuts, alive>>

(* ... or its tail begins with an inner object (or null), of no command:    *)
(* the tail is reported ...                                                *)
ReportTail ==
  /\ Torn
  /\ calls' = Append(calls, <<"raw", next>>)
  /\ next' = next + 1
  /\ UNCHANGED <<vars, cuts, alive>>

(* ... or with a string or a number, and `get' reads what is not there.     *)
Undefined ==
  /\ Torn
  /\ alive' = FALSE
  /\ UNCHANGED <<vars, next, calls, cuts>>

Notify == HandleObject \/ DropBatch \/ ReportTail \/ Undefined

(* The steps of MixPackage: the thread is in recv again when the batch is   *)
(* through, and a new connection starts from nothing.                      *)
RecvNext(k) == alive /\ next > handed /\ Recv(k) /\ UNCHANGED notifyVars
ScanNext == Scan /\ UNCHANGED notifyVars
HandOver == Return /\ cuts' = cuts \cup {handed} /\ UNCHANGED <<next, calls, alive>>
Reconnect ==
  /\ alive /\ Connect
  /\ next' = 1 /\ calls' = << >> /\ cuts' = {}
  /\ UNCHANGED alive

NextNotify ==
  \/ \E k \in 1..BufferSize : RecvNext(k)
  \/ ScanNext
  \/ HandOver
  \/ Reconnect
  \/ Notify

SpecNotify == InitNotify /\ [][NextNotify]_<<vars, notifyVars>>

-----------------------------------------------------------------------------
Callbacks == {"601", "raw", "message"}

(* The variables of Notify have their types.                                *)
TypeOKNotify ==
  /\ next \in 1..(handed + 1)
  /\ calls \in Seq(Callbacks \X DOMAIN packages)
  /\ cuts \subseteq 0..handed
  /\ alive \in BOOLEAN

Called(c, i) == \E n \in DOMAIN calls : calls[n] = <<c, i>>
SameBatch(i, j) == \A c \in cuts : ~ (i <= c /\ c < j)

(* Packages i whose batch holds a torn package at or before i.             *)
Exposed(i) == \E j \in 1..i : SameBatch(j, i) /\ ~ Complete(packages[j])

(* An object that Notify is past and that was not reported, or a gift token *)
(* that was not passed on, has a cause: the object throws, or something in   *)
(* the batch up to it was torn by the framing.  In particular nothing of one *)
(* chunk is lost for what happened in an earlier one.                        *)
LossOnlyByTear ==
  \A i \in 1..(next - 1) :
    ~ Exposed(i) => LET o == ObjectOf(packages[i])
                    IN  ~ Throws(o) => /\ Called("raw", i)
                                       /\ Cmd[o] = 601 /\ Content[o] = "token" => Called("601", i)

(* A token is redeemed for a gift only, never for a torn package, and no     *)
(* callback is made twice for a package.                                    *)
TokenOnce ==
  \A m, n \in DOMAIN calls :
    /\ calls[m][1] = "601" => LET p == packages[calls[m][2]]
                              IN  Complete(p) /\ Content[ObjectOf(p)] = "token"
    /\ calls[m] = calls[n] => m = n

(* What the dialog is told comes in the order of the stream, and of one      *)
(* package the redeemed token first, then the raw text, then the message.   *)
Rank(c) == CASE c = "601" -> 1 [] c = "raw" -> 2 [] c = "message" -> 3
CallsInOrder ==
  \A m, n \in DOMAIN calls : m < n =>
    \/ calls[m][2] < calls[n][2]
    \/ calls[m][2] = calls[n][2] /\ Rank(calls[m][1]) < Rank(calls[n][1])
=============================================================================
