----------------------------- MODULE MixPackage -----------------------------
(***************************************************************************)
(* Framing of the 8080 gift stream: HandleMixPackage of                    *)
(* Network/GiftNotifyManager.cpp.  The server writes one JSON object after *)
(* another on a TCP connection; every recv of the receiving thread returns *)
(* some bytes of that stream (a chunk), and HandleMixPackage cuts the      *)
(* chunk into packages by counting braces.  The count `pos' and the text   *)
(* of an unfinished package, `Packet', are globals that live from one call *)
(* to the next.                                                            *)
(*                                                                         *)
(* Data abstraction: a character is "open" ({), "close" (}) or "other" (any  *)
(* other character), and a piece of text is the set of the stream          *)
(* positions it holds.  The code only appends text of the current chunk to *)
(* text kept from an earlier one, so the order of the characters is the    *)
(* order of their positions.                                               *)
(***************************************************************************)
EXTENDS Integers, Sequences

CONSTANTS
  Stream,       \* what the server writes on the connection
  Level,        \* Level[n]: braces opened minus braces closed in the first n
  Objects,      \* the objects the server means: pairs <<first, last>> of positions
  BufferSize,   \* the receive buffer: most characters one recv returns
  MaxConnects   \* bound: number of connections after the first

Delta(c) == CASE c = "open" -> 1 [] c = "close" -> -1 [] OTHER -> 0

ASSUME StreamAssumption ==
  /\ Stream \in Seq({"open", "close", "other"})
  /\ Level \in [0..Len(Stream) -> Int]
  /\ Level[0] = 0
  /\ \A n \in 1..Len(Stream) : Level[n] = Level[n-1] + Delta(Stream[n])
  /\ Objects \subseteq (1..Len(Stream)) \X (1..Len(Stream))

ASSUME BoundAssumption == BufferSize \in Nat \ {0} /\ MaxConnects \in Nat

VARIABLES
  phase,      \* "recv": in recv(); "scan": in HandleMixPackage
  begin,      \* first position of the chunk (package.begin())
  end,        \* position after the chunk (package.end()), the next to receive
  it,         \* the iterator: the next character to look at
  sentinel,   \* where the text to keep starts
  Packet,     \* global: text of the unfinished package
  pos,        \* global: brace count
  packages,   \* packages pushed into a retVec on this connection
  handed,     \* how many of them HandleMixPackage has returned to Notify
  prev,       \* history: first position of the chunk before the current one
  connects    \* connections made after the first

globals == <<Packet, pos>>
vars == <<phase, begin, end, it, sentinel, Packet, pos, packages, handed,
          prev, connects>>

Chars == 1..Len(Stream)
Text == SUBSET Chars
Package == [text : Text, from : Nat]

Init ==
  /\ phase = "recv"
  /\ begin = 1 /\ end = 1 /\ it = 1 /\ sentinel = 1 /\ prev = 1
  /\ Packet = {} /\ pos = 0
  /\ packages = << >> /\ handed = 0
  /\ connects = 0

-----------------------------------------------------------------------------
(* Mutant: the whole receive buffer is passed on, not the k bytes received. *)
RecvWholeBuffer(k) ==
  /\ phase = "recv"
  /\ end - 1 + k <= Len(Stream)
  /\ phase' = "scan"
  /\ prev' = begin /\ begin' = end
  /\ end' = end + BufferSize
  /\ it' = end /\ sentinel' = end
  /\ UNCHANGED <<Packet, pos, packages, handed, connects>>

(* DoRecv: recv returns k > 0 bytes and HandleData passes them, through     *)
(* TcpNotify, to Notify, which calls HandleMixPackage.                      *)
Recv(k) ==
  /\ phase = "recv"
  /\ end - 1 + k <= Len(Stream)
  /\ phase' = "scan"
  /\ prev' = begin
  /\ begin' = end
  /\ end' = end + k
  /\ it' = end
  /\ sentinel' = end
  /\ UNCHANGED <<Packet, pos, packages, handed, connects>>

Scanning(c) == phase = "scan" /\ it < end /\ Stream[it] = c

(* case '{'                                                                *)
ScanOpen ==
  /\ Scanning("open")
  /\ pos' = pos + 1
  /\ sentinel' = IF pos + 1 = 1 THEN it ELSE sentinel
  /\ it' = it + 1
  /\ UNCHANGED <<phase, begin, end, Packet, packages, handed, prev, connects>>

(* Mutant: the closing brace is left out.                                  *)
PushBackShort == packages' = Append(packages, [text |-> Packet \cup (sentinel..(it - 1)), from |-> prev])

(* What case '}' pushes into retVec when the count is back at zero.        *)
PushBack == packages' = Append(packages, [text |-> Packet \cup (sentinel..it), from |-> prev])

(* case '}'                                                                *)
ScanClose ==
  /\ Scanning("close")
  /\ pos' = pos - 1
  /\ \/ /\ pos - 1 = 0
        /\ PushBack
        /\ Packet' = {}
     \/ /\ pos - 1 # 0
        /\ UNCHANGED <<packages, Packet>>
  /\ it' = it + 1
  /\ UNCHANGED <<phase, begin, end, sentinel, handed, prev, connects>>

(* default                                                                 *)
ScanOther ==
  /\ Scanning("other")
  /\ it' = it + 1
  /\ UNCHANGED <<phase, begin, end, sentinel, Packet, pos, packages, handed,
                 prev, connects>>

(* Mutant: the text of an unfinished package is not kept.                  *)
KeepNothing == {}

(* Text kept for the next chunk, lines 101-104.                            *)
Keep == IF pos # 0 THEN sentinel..(it - 1) ELSE Packet

(* The end of HandleMixPackage: Notify gets retVec, the thread is back in   *)
(* recv.                                                                    *)
Return ==
  /\ phase = "scan" /\ it = end
  /\ Packet' = Keep
  /\ handed' = Len(packages)
  /\ phase' = "recv"
  /\ UNCHANGED <<begin, end, it, sentinel, pos, packages, prev, connects>>

(* Mutant: the count of the last connection lives on.                      *)
ResetPacketOnly == Packet' = {} /\ UNCHANGED pos

(* DoConnect8080 forgets what the last connection left in the globals.     *)
ResetFraming == Packet' = {} /\ pos' = 0

(* A new connection.  The receiving thread of the old one has been          *)
(* terminated, perhaps in the middle of HandleMixPackage.                   *)
Connect ==
  /\ connects < MaxConnects
  /\ connects' = connects + 1
  /\ ResetFraming
  /\ phase' = "recv"
  /\ begin' = 1 /\ end' = 1 /\ it' = 1 /\ sentinel' = 1 /\ prev' = 1
  /\ packages' = << >> /\ handed' = 0

Scan == ScanOpen \/ ScanClose \/ ScanOther

Next ==
  \/ \E k \in 1..BufferSize : Recv(k)
  \/ Scan
  \/ Return
  \/ Connect

Spec == Init /\ [][Next]_vars

-----------------------------------------------------------------------------
(* The assumption under which counting braces is a way to find the objects:*)
(* the count is zero exactly outside them.  A brace inside a JSON string   *)
(* may break it.                                                           *)
Inside(o, n) == o[1] <= n /\ n < o[2]
BracesDelimitObjects ==
  /\ \A o \in Objects : /\ o[1] < o[2]
                        /\ Level[o[1] - 1] = 0 /\ Level[o[2]] = 0
                        /\ \A n \in o[1]..(o[2] - 1) : Level[n] > 0
  /\ \A n \in Chars : Level[n] # 0 => \E o \in Objects : Inside(o, n)

(* The variables have their types; the iterators stay in the chunk.        *)
TypeOK ==
  /\ phase \in {"recv", "scan"}
  /\ begin \in Nat \ {0} /\ end \in begin..(Len(Stream) + 1)
  /\ it \in begin..end
  /\ sentinel \in begin..end
  /\ prev \in 1..begin
  /\ Packet \in Text
  /\ pos \in Int
  /\ packages \in Seq(Package)
  /\ handed \in 0..Len(packages)
  /\ connects \in 0..MaxConnects

(* Every package HandleMixPackage makes is the text of one object, cut at   *)
(* the front to what arrived in the chunk it ends in and the chunk before:  *)
(* Packet is assigned at the end of a call, not appended to, so text older  *)
(* than that is gone (lines 85-93 and 101-104).                             *)
PackageIsTailOfObject ==
  \A i \in DOMAIN packages : \E o \in Objects :
    packages[i].text = {n \in o[1]..o[2] : n >= packages[i].from}

(* No object is lost, delivered twice or delivered out of order, however    *)
(* the stream is cut into chunks: an object scanned to its end has given    *)
(* exactly one package, and packages come in the order of the stream.       *)
EachObjectOnce ==
  /\ \A o \in Objects :
       o[2] < it => \E i \in DOMAIN packages : o[2] \in packages[i].text
  /\ \A i, j \in DOMAIN packages : i < j =>
       \A m \in packages[i].text, n \in packages[j].text : m < n

(* Comments at GiftNotifyManager.cpp:69 and :101: the call returns complete *)
(* packages, and an incomplete one waits for the data still to come.        *)
EveryPackageComplete ==
  \A i \in DOMAIN packages : \E o \in Objects : packages[i].text = o[1]..o[2]

(* The same comments for a stream that arrives in a single recv, so that    *)
(* nothing is torn: the packages are the objects of the server.             *)
UntornPackageComplete ==
  begin = 1 /\ end = Len(Stream) + 1 => EveryPackageComplete

(* Why the two invariants hold: the count is the nesting depth of what has  *)
(* been scanned, and inside an object `Packet' and `sentinel' hold exactly  *)
(* the part of it that the last call, and this one, have seen.              *)
Pending(o) ==
  IF phase = "scan" THEN {n \in o[1]..(begin - 1) : n >= prev}
                    ELSE {n \in o[1]..(it - 1) : n >= begin}
Current(o) ==
  /\ Inside(o, it - 1)
  /\ Packet = Pending(o)
  /\ phase = "scan" => sentinel = IF o[1] < begin THEN begin ELSE o[1]
TailOf(p, o) ==
  /\ o[2] < it
  /\ p.from <= o[2]
  /\ p.text = {n \in o[1]..o[2] : n >= p.from}
FrameInv ==
  /\ phase = "recv" => it = end
  /\ pos = Level[it - 1]
  /\ pos = 0 => Packet = {}
  /\ pos # 0 => \E o \in Objects : Current(o)
  /\ \A i \in DOMAIN packages : \E o \in Objects : TailOf(packages[i], o)
=============================================================================
