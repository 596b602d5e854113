-------------------------- MODULE MixPackageProofs --------------------------
(***************************************************************************)
(* Proofs about MixPackage, for every stream, every set of objects, every  *)
(* buffer size and any number of reconnects.                               *)
(***************************************************************************)
EXTENDS MixPackage, TLAPS

(* What a character does to the brace count.                               *)
LEMMA DeltaOf ==
  /\ Delta("open") = 1
  /\ Delta("close") = -1
  /\ Delta("other") = 0
BY DEF Delta

(* The stream read at a position that has not been scanned.                *)
LEMMA StreamFacts ==
  /\ Len(Stream) \in Nat
  /\ \A n \in Chars : Stream[n] \in {"open", "close", "other"}
BY StreamAssumption DEF Chars

(* Type correctness: in particular the iterator and the sentinel never      *)
(* leave the chunk, and the text kept is text of the stream.                *)
THEOREM TypeCorrect == Spec => []TypeOK
<1>1. Init => TypeOK
  BY StreamFacts, BoundAssumption DEF Init, TypeOK, Text, Package
<1>2. TypeOK /\ [Next]_vars => TypeOK'
  <2> SUFFICES ASSUME TypeOK, [Next]_vars PROVE TypeOK'
    OBVIOUS
  <2> USE StreamFacts, BoundAssumption
  <2>1. ASSUME NEW k \in 1..BufferSize, Recv(k) PROVE TypeOK'
    BY <2>1 DEF Recv, TypeOK
  <2>2. CASE ScanOpen
    BY <2>2 DEF ScanOpen, Scanning, TypeOK
  <2>3. CASE ScanClose
    <3>0. /\ begin \in Nat \ {0} /\ end \in begin..(Len(Stream) + 1)
          /\ it \in begin..end /\ sentinel \in begin..end /\ prev \in 1..begin
          /\ it < end
      BY <2>3 DEF ScanClose, Scanning, TypeOK
    <3>1. Packet \cup (sentinel..it) \in Text
      BY <3>0 DEF TypeOK, Text, Chars
    <3>2. [text |-> Packet \cup (sentinel..it), from |-> prev] \in Package
      BY <3>0, <3>1 DEF Package
    <3>3. packages' \in Seq(Package) /\ handed' \in 0..Len(packages')
      <4>1. CASE PushBack
        BY <2>3, <3>2, <4>1 DEF ScanClose, PushBack, TypeOK
      <4>2. CASE packages' = packages
        BY <2>3, <4>2 DEF ScanClose, TypeOK
      <4>3. QED  BY <2>3, <4>1, <4>2 DEF ScanClose
    <3>4. Packet' \in Text
      BY <2>3 DEF ScanClose, TypeOK, Text
    <3>5. it' \in begin'..end'
      BY <2>3, <3>0 DEF ScanClose
    <3>6. QED  BY <2>3, <3>3, <3>4, <3>5 DEF ScanClose, TypeOK
  <2>4. CASE ScanOther
    BY <2>4 DEF ScanOther, Scanning, TypeOK
  <2>5. CASE Return
    <3>1. Keep \in Text
      BY <2>5 DEF Return, Keep, TypeOK, Text, Chars
    <3>2. QED  BY <2>5, <3>1 DEF Return, TypeOK
  <2>6. CASE Connect
    BY <2>6 DEF Connect, ResetFraming, TypeOK, Text
  <2>7. CASE UNCHANGED vars
    BY <2>7 DEF vars, TypeOK
  <2>8. QED
    BY <2>1, <2>2, <2>3, <2>4, <2>5, <2>6, <2>7 DEF Next, Scan
<1>3. QED  BY <1>1, <1>2, PTL DEF Spec

-----------------------------------------------------------------------------
(* Under BracesDelimitObjects the count is never negative, is positive just *)
(* inside objects, and changes by one at a brace.                           *)
LEMMA CountFacts ==
  ASSUME BracesDelimitObjects
  PROVE  /\ \A n \in 0..Len(Stream) : Level[n] \in Nat
         /\ \A o \in Objects :
              /\ o[1] \in Chars /\ o[2] \in Chars /\ o[1] < o[2]
              /\ Level[o[1] - 1] = 0 /\ Level[o[2]] = 0
              /\ \A n \in o[1]..(o[2] - 1) : Level[n] > 0
         /\ \A n \in Chars : Level[n] # 0 => \E o \in Objects : Inside(o, n)
         /\ \A n \in Chars : Level[n] = Level[n - 1] + Delta(Stream[n])
<1>1. \A o \in Objects : o[1] \in Chars /\ o[2] \in Chars
  BY StreamAssumption DEF Chars
<1>2. ASSUME NEW n \in 0..Len(Stream) PROVE Level[n] \in Nat
  <2>1. Level[n] \in Int
    BY StreamAssumption
  <2>2. CASE n = 0
    BY <2>2, StreamAssumption
  <2>3. CASE n # 0 /\ Level[n] # 0
    <3>1. n \in Chars
      BY <2>3, StreamFacts DEF Chars
    <3>2. PICK o \in Objects : Inside(o, n)
      BY <3>1, <2>3 DEF BracesDelimitObjects
    <3>3. n \in o[1]..(o[2] - 1)
      BY <3>1, <3>2, <1>1, StreamFacts DEF Inside, Chars
    <3>4. QED  BY <3>3, <2>1 DEF BracesDelimitObjects
  <2>4. QED  BY <2>1, <2>2, <2>3
<1>3. QED  BY <1>1, <1>2, StreamAssumption DEF BracesDelimitObjects, Chars

(* An object the count is inside of after n - 1 characters is left at n     *)
(* exactly when the count returns to zero.                                  *)
LEMMA StepInside ==
  ASSUME BracesDelimitObjects, NEW o \in Objects, NEW n \in Chars,
         Inside(o, n - 1)
  PROVE  /\ Level[n] # 0 => Inside(o, n)
         /\ Level[n] = 0 => n = o[2]
BY CountFacts, StreamFacts DEF Inside, Chars

(* An object entered at n begins at n.                                      *)
LEMMA StepOutside ==
  ASSUME BracesDelimitObjects, NEW n \in Chars,
         Level[n - 1] = 0, Level[n] # 0
  PROVE  \E o \in Objects : Inside(o, n) /\ o[1] = n
<1>1. PICK o \in Objects : Inside(o, n)
  BY CountFacts
<1>2. ~ (o[1] <= n - 1)
  <2>1. SUFFICES ASSUME o[1] <= n - 1 PROVE FALSE
    OBVIOUS
  <2>2. n - 1 \in o[1]..(o[2] - 1)
    BY <1>1, <2>1, CountFacts, StreamFacts DEF Inside, Chars
  <2>3. QED  BY <2>2, CountFacts
<1>3. QED  BY <1>1, <1>2, CountFacts, StreamFacts DEF Inside, Chars

-----------------------------------------------------------------------------
(* The positions TypeOK speaks of, as integers with their order.           *)
Bounds ==
  /\ begin \in Nat /\ end \in Nat /\ it \in Nat /\ sentinel \in Nat
  /\ prev \in Nat /\ pos \in Int /\ Len(Stream) \in Nat
  /\ 1 <= prev /\ prev <= begin /\ begin <= it /\ it <= end
  /\ end <= Len(Stream) + 1
  /\ begin <= sentinel /\ sentinel <= end
Finished == \A i \in DOMAIN packages : \E o \in Objects : TailOf(packages[i], o)

LEMMA Positions == TypeOK => Bounds
BY StreamFacts DEF TypeOK, Bounds

(* Packages made before stay what they are when the scan goes on.          *)
LEMMA FinishedKept ==
  ASSUME BracesDelimitObjects, Bounds, Finished,
         packages' = packages, it' \in Nat, it <= it'
  PROVE  Finished'
<1>1. SUFFICES ASSUME NEW i \in DOMAIN packages PROVE \E o \in Objects : TailOf(packages[i], o)'
  BY DEF Finished
<1>2. PICK o \in Objects : TailOf(packages[i], o)
  BY DEF Finished
<1>3. o[2] \in Nat
  BY CountFacts, StreamFacts DEF Chars
<1>4. TailOf(packages[i], o)'
  BY <1>2, <1>3 DEF TailOf, Bounds
<1>5. QED  BY <1>4

(* The action property behind the theorem: every step keeps FrameInv.      *)
LEMMA FrameStep ==
  ASSUME BracesDelimitObjects, TypeOK, FrameInv, [Next]_vars
  PROVE  FrameInv'
<1>p. Bounds
  BY Positions
<1>q. Finished
  BY DEF FrameInv, Finished
<1>f. /\ phase = "recv" => it = end
      /\ pos = Level[it - 1]
      /\ pos = 0 => Packet = {}
      /\ pos # 0 => \E o \in Objects : Current(o)
  BY DEF FrameInv
<1>a. \A n \in 0..Len(Stream) : Level[n] \in Nat
  BY CountFacts
<1>b. it < end => it \in Chars
  BY <1>p DEF Chars, Bounds
<1>c. pos \in Nat
  BY <1>a, <1>f, <1>p DEF Bounds
<1>1. ASSUME NEW k \in 1..BufferSize, Recv(k) PROVE FrameInv'
  <2>1. /\ phase = "recv" /\ it = end /\ it' = it /\ begin' = it /\ prev' = begin
        /\ sentinel' = it /\ phase' = "scan"
        /\ pos' = pos /\ Packet' = Packet /\ packages' = packages
    BY <1>1, <1>f DEF Recv
  <2>2. ASSUME NEW o \in Objects, Current(o) PROVE Current(o)'
    <3>1. o[1] \in Nat /\ o[1] <= it - 1
      BY <2>2, CountFacts DEF Current, Inside, Chars
    <3>2. QED  BY <1>p, <2>1, <2>2, <3>1 DEF Current, Inside, Pending, Bounds
  <2>3. Finished'
    BY <1>p, <1>q, <2>1, FinishedKept DEF Bounds
  <2>4. QED  BY <1>f, <2>1, <2>2, <2>3 DEF FrameInv, Finished
<1>2. CASE ScanOpen
  <2>1. /\ phase = "scan" /\ phase' = "scan" /\ it < end /\ it \in Chars
        /\ it' = it + 1 /\ pos' = pos + 1 /\ Stream[it] = "open"
        /\ begin' = begin /\ prev' = prev /\ Packet' = Packet /\ packages' = packages
        /\ sentinel' = IF pos = 0 THEN it ELSE sentinel
    BY <1>2, <1>b, <1>c DEF ScanOpen, Scanning
  <2>2. Level[it] = pos + 1
    BY <1>f, <2>1, CountFacts, DeltaOf
  <2>a. it' - 1 = it
    BY <1>p, <2>1 DEF Bounds
  <2>3. \E o \in Objects : Current(o)'
    <3>1. CASE pos = 0
      <4>0. Level[it - 1] = 0 /\ Level[it] # 0
        BY <1>f, <2>2, <3>1
      <4>1. PICK o \in Objects : Inside(o, it) /\ o[1] = it
        BY <2>1, <4>0, StepOutside
      <4>2. Packet = {}
        BY <1>f, <3>1
      <4>3. Pending(o)' = {}
        BY <1>p, <2>1, <4>1 DEF Pending, Bounds
      <4>4. sentinel' = IF o[1] < begin' THEN begin' ELSE o[1]
        BY <1>p, <2>1, <3>1, <4>1 DEF Bounds
      <4>5. QED  BY <2>1, <2>a, <4>1, <4>2, <4>3, <4>4 DEF Current, Inside
    <3>2. CASE pos # 0
      <4>1. PICK o \in Objects : Current(o)
        BY <1>f, <3>2
      <4>2. Inside(o, it)
        BY <1>c, <2>1, <2>2, <4>1, StepInside DEF Current
      <4>3. Pending(o)' = Pending(o) /\ sentinel' = sentinel
        BY <2>1, <3>2 DEF Pending
      <4>4. QED  BY <2>1, <2>a, <4>1, <4>2, <4>3 DEF Current, Inside
    <3>3. QED  BY <3>1, <3>2
  <2>4. Finished'
    BY <1>p, <1>q, <2>1, FinishedKept DEF Bounds
  <2>5. QED  BY <1>c, <2>1, <2>2, <2>a, <2>3, <2>4 DEF FrameInv, Finished
<1>3. CASE ScanClose
  <2>1. /\ phase = "scan" /\ phase' = "scan" /\ it < end /\ it \in Chars
        /\ it' = it + 1 /\ pos' = pos - 1 /\ Stream[it] = "close"
        /\ begin' = begin /\ prev' = prev /\ sentinel' = sentinel
    BY <1>3, <1>b DEF ScanClose, Scanning
  <2>2. Level[it] = pos - 1
    BY <1>f, <2>1, CountFacts, DeltaOf
  <2>a. it' - 1 = it
    BY <1>p, <2>1 DEF Bounds
  <2>b. pos > 0
    BY <1>a, <1>c, <2>1, <2>2, StreamFacts DEF Chars
  <2>3. PICK o \in Objects : Current(o)
    BY <1>f, <1>c, <2>b
  <2>4. CASE pos - 1 = 0
    <3>1. it = o[2]
      BY <2>1, <2>2, <2>3, <2>4, StepInside DEF Current
    <3>2. o[1] \in Nat /\ o[1] <= it - 1
      BY <2>3, CountFacts DEF Current, Inside, Chars
    <3>. DEFINE new == [text |-> Packet \cup (sentinel..it), from |-> prev]
    <3>3. packages' = Append(packages, new) /\ Packet' = {}
      BY <1>3, <2>4 DEF ScanClose, PushBack
    <3>4. Packet \cup (sentinel..it) = {n \in o[1]..o[2] : n >= prev}
      <4>1. Packet = {n \in o[1]..(begin - 1) : n >= prev}
        BY <2>1, <2>3 DEF Current, Pending
      <4>2. sentinel = IF o[1] < begin THEN begin ELSE o[1]
        BY <2>1, <2>3 DEF Current
      <4>3. QED  BY <1>p, <3>1, <3>2, <4>1, <4>2 DEF Bounds
    <3>5. ASSUME NEW i \in DOMAIN packages' PROVE \E q \in Objects : TailOf(packages[i], q)'
      <4>0. packages \in Seq(Package)
        BY DEF TypeOK
      <4>1. CASE i = Len(packages) + 1
        <5>1. packages'[i] = new  BY <3>3, <4>0, <4>1
        <5>2. new.from = prev /\ new.text = {n \in o[1]..o[2] : n >= prev}
          BY <3>4
        <5>3. o[2] < it' /\ prev <= o[2]
          BY <1>p, <2>1, <3>1 DEF Bounds
        <5>. HIDE DEF new
        <5>4. TailOf(packages[i], o)'
          BY <5>1, <5>2, <5>3 DEF TailOf
        <5>5. QED  BY <5>4
      <4>2. CASE i # Len(packages) + 1
        <5>1. i \in DOMAIN packages /\ packages'[i] = packages[i]
          BY <3>3, <4>0, <4>2
        <5>2. PICK q \in Objects : TailOf(packages[i], q)
          BY <1>q, <5>1 DEF Finished
        <5>3. q[2] \in Nat
          BY CountFacts, StreamFacts DEF Chars
        <5>4. TailOf(packages[i], q)'
          BY <1>p, <2>1, <5>1, <5>2, <5>3 DEF TailOf, Bounds
        <5>5. QED  BY <5>4
      <4>3. QED  BY <4>1, <4>2
    <3>6. QED  BY <2>1, <2>2, <2>a, <2>4, <3>3, <3>5 DEF FrameInv
  <2>5. CASE pos - 1 # 0
    <3>1. packages' = packages /\ Packet' = Packet
      BY <1>3, <2>5 DEF ScanClose
    <3>2. Inside(o, it)
      BY <2>1, <2>2, <2>3, <2>5, StepInside DEF Current
    <3>3. Pending(o)' = Pending(o)
      BY <2>1 DEF Pending
    <3>4. Current(o)'
      BY <2>1, <2>a, <2>3, <3>1, <3>2, <3>3 DEF Current, Inside
    <3>5. Finished'
      BY <1>p, <1>q, <2>1, <3>1, FinishedKept DEF Bounds
    <3>6. QED  BY <2>1, <2>2, <2>a, <2>5, <3>4, <3>5 DEF FrameInv, Finished
  <2>6. QED  BY <2>4, <2>5
<1>4. CASE ScanOther
  <2>1. /\ phase = "scan" /\ phase' = "scan" /\ it < end /\ it \in Chars
        /\ it' = it + 1 /\ Stream[it] = "other"
        /\ begin' = begin /\ prev' = prev /\ sentinel' = sentinel
        /\ pos' = pos /\ Packet' = Packet /\ packages' = packages
    BY <1>4, <1>b DEF ScanOther, Scanning
  <2>2. Level[it] = pos
    BY <1>c, <1>f, <2>1, CountFacts, DeltaOf
  <2>a. it' - 1 = it
    BY <1>p, <2>1 DEF Bounds
  <2>3. ASSUME NEW o \in Objects, Current(o), pos # 0 PROVE Current(o)'
    <3>1. Inside(o, it)
      BY <2>1, <2>2, <2>3, StepInside DEF Current
    <3>2. Pending(o)' = Pending(o)
      BY <2>1 DEF Pending
    <3>3. QED  BY <2>1, <2>a, <2>3, <3>1, <3>2 DEF Current, Inside
  <2>4. Finished'
    BY <1>p, <1>q, <2>1, FinishedKept DEF Bounds
  <2>5. QED  BY <1>f, <2>1, <2>2, <2>a, <2>3, <2>4 DEF FrameInv, Finished
<1>5. CASE Return
  <2>1. /\ phase = "scan" /\ phase' = "recv" /\ it = end /\ Packet' = Keep
        /\ begin' = begin /\ end' = end /\ it' = it /\ pos' = pos
        /\ packages' = packages
    BY <1>5 DEF Return
  <2>2. ASSUME NEW o \in Objects, Current(o), pos # 0 PROVE Current(o)'
    <3>1. o[1] \in Nat /\ o[1] <= it - 1
      BY <2>2, CountFacts DEF Current, Inside, Chars
    <3>2. sentinel = IF o[1] < begin THEN begin ELSE o[1]
      BY <2>1, <2>2 DEF Current
    <3>3. sentinel..(it - 1) = {n \in o[1]..(it - 1) : n >= begin}
      BY <1>p, <3>1, <3>2 DEF Bounds
    <3>4. QED  BY <2>1, <2>2, <3>3 DEF Current, Inside, Pending, Keep
  <2>3. Finished'
    BY <1>p, <1>q, <2>1, FinishedKept DEF Bounds
  <2>4. QED  BY <1>f, <2>1, <2>2, <2>3 DEF FrameInv, Finished, Keep
<1>6. CASE Connect
  BY <1>6, StreamAssumption DEF Connect, ResetFraming, FrameInv
<1>7. CASE UNCHANGED vars
  BY <1>7 DEF vars, FrameInv, Current, Inside, Pending, TailOf
<1>8. QED
  BY <1>1, <1>2, <1>3, <1>4, <1>5, <1>6, <1>7 DEF Next, Scan

-----------------------------------------------------------------------------
(* Only a closing brace that brings the count to zero ends an object.      *)
LEMMA EndOfObject ==
  ASSUME BracesDelimitObjects, NEW n \in Chars, NEW o \in Objects, o[2] = n
  PROVE  Level[n] = 0 /\ Level[n - 1] > 0
<1>1. n - 1 \in o[1]..(o[2] - 1)
  BY CountFacts, StreamFacts DEF Chars
<1>2. QED  BY <1>1, CountFacts

(* Objects that do not end at the character just scanned keep the package  *)
(* they had, when no package is made.                                      *)
LEMMA OnceKept ==
  ASSUME BracesDelimitObjects, Bounds, EachObjectOnce,
         packages' = packages, it \in Chars, it' = it + 1,
         Level[it] # 0 \/ Level[it - 1] = 0
  PROVE  EachObjectOnce'
<1>1. ASSUME NEW o \in Objects, o[2] < it' PROVE o[2] < it
  <2>1. o[2] # it
    BY EndOfObject
  <2>2. QED  BY <1>1, <2>1, CountFacts, StreamFacts DEF Bounds, Chars
<1>2. QED  BY <1>1 DEF EachObjectOnce

(* Every step keeps the one-to-one correspondence of objects and packages. *)
LEMMA OnceStep ==
  ASSUME BracesDelimitObjects, TypeOK, FrameInv, EachObjectOnce, [Next]_vars
  PROVE  EachObjectOnce'
<1>p. Bounds
  BY Positions
<1>f. /\ phase = "recv" => it = end
      /\ pos = Level[it - 1]
      /\ pos # 0 => \E o \in Objects : Current(o)
      /\ Finished
  BY DEF FrameInv, Finished
<1>b. it < end => it \in Chars
  BY <1>p DEF Chars, Bounds
<1>1. ASSUME NEW k \in 1..BufferSize, Recv(k) PROVE EachObjectOnce'
  BY <1>1, <1>f DEF Recv, EachObjectOnce
<1>2. CASE ScanOpen
  <2>1. it \in Chars /\ Stream[it] = "open" /\ it' = it + 1 /\ packages' = packages
    BY <1>2, <1>b DEF ScanOpen, Scanning
  <2>2. Level[it] # 0
    <3>1. Level[it] = Level[it - 1] + 1
      BY <2>1, CountFacts, DeltaOf
    <3>2. it - 1 \in 0..Len(Stream)
      BY <2>1, StreamFacts DEF Chars
    <3>3. QED  BY <3>1, <3>2, CountFacts
  <2>3. QED  BY <1>p, <2>1, <2>2, OnceKept
<1>3. CASE ScanClose
  <2>1. /\ it \in Chars /\ Stream[it] = "close" /\ it' = it + 1
        /\ phase = "scan"
    BY <1>3, <1>b DEF ScanClose, Scanning
  <2>a. packages \in Seq(Package)
    BY DEF TypeOK
  <2>2. Level[it] = pos - 1
    <3>1. Level[it] = Level[it - 1] + (-1)
      BY <2>1, CountFacts, DeltaOf
    <3>2. QED  BY <1>f, <1>p, <3>1 DEF Bounds
  <2>3. CASE pos - 1 # 0
    <3>1. packages' = packages
      BY <1>3, <2>3 DEF ScanClose
    <3>2. QED  BY <1>p, <2>1, <2>2, <2>3, <3>1, OnceKept
  <2>4. CASE pos - 1 = 0
    <3>. DEFINE new == [text |-> Packet \cup (sentinel..it), from |-> prev]
    <3>0. packages' = Append(packages, new)
      BY <1>3, <2>4 DEF ScanClose, PushBack
    <3>1. PICK o \in Objects : Current(o)
      BY <1>f, <1>p, <2>4 DEF Bounds
    <3>2. o[1] \in Nat /\ o[1] <= it - 1 /\ it <= o[2] /\ o[2] \in Nat
      BY <3>1, <2>1, CountFacts, StreamFacts DEF Current, Inside, Chars
    <3>3. sentinel = (IF o[1] < begin THEN begin ELSE o[1]) /\ Packet = {n \in o[1]..(begin - 1) : n >= prev}
      BY <2>1, <3>1 DEF Current, Pending
    <3>4. new.text = Packet \cup (sentinel..it)
      OBVIOUS
    <3>5. it \in new.text /\ \A n \in new.text : n \in Nat /\ o[1] <= n
      BY <1>p, <3>2, <3>3, <3>4 DEF Bounds
    <3>. HIDE DEF new
    <3>6. /\ DOMAIN packages' = 1..(Len(packages) + 1) /\ Len(packages) \in Nat
          /\ DOMAIN packages = 1..Len(packages)
          /\ packages'[Len(packages) + 1] = new
          /\ \A i \in DOMAIN packages : packages'[i] = packages[i]
      BY <2>a, <3>0
    <3>7. ASSUME NEW q \in Objects, q[2] < it'
          PROVE  \E i \in DOMAIN packages' : q[2] \in packages'[i].text
      <4>1. CASE q[2] = it
        BY <3>5, <3>6, <4>1
      <4>2. CASE q[2] # it
        <5>1. q[2] < it
          BY <1>p, <2>1, <3>7, <4>2, CountFacts, StreamFacts DEF Bounds, Chars
        <5>2. PICK i \in DOMAIN packages : q[2] \in packages[i].text
          BY <5>1 DEF EachObjectOnce
        <5>3. QED  BY <3>6, <5>2
      <4>3. QED  BY <4>1, <4>2
    <3>8. ASSUME NEW i \in DOMAIN packages, NEW m \in packages[i].text
          PROVE  m \in Nat /\ m < o[1]
      <4>1. PICK q \in Objects : TailOf(packages[i], q)
        BY <1>f DEF Finished
      <4>2. q[1] \in Nat /\ q[2] \in Nat /\ Level[q[2]] = 0
        BY CountFacts, StreamFacts DEF Chars
      <4>3. q[2] \notin o[1]..(o[2] - 1)
        <5>1. \A n \in o[1]..(o[2] - 1) : Level[n] > 0
          BY CountFacts
        <5>2. QED  BY <4>2, <5>1
      <4>4. q[2] < o[1]
        BY <1>p, <3>2, <4>1, <4>2, <4>3 DEF TailOf, Bounds
      <4>5. QED  BY <3>2, <4>1, <4>2, <4>4 DEF TailOf
    <3>9. ASSUME NEW i \in DOMAIN packages', NEW j \in DOMAIN packages', i < j,
                 NEW m \in packages'[i].text, NEW n \in packages'[j].text
          PROVE  m < n
      <4>1. i \in DOMAIN packages /\ packages'[i] = packages[i]
        BY <3>6, <3>9
      <4>2. CASE j = Len(packages) + 1
        BY <3>2, <3>5, <3>6, <3>8, <3>9, <4>1, <4>2
      <4>3. CASE j # Len(packages) + 1
        <5>1. j \in DOMAIN packages /\ packages'[j] = packages[j]
          BY <3>6, <4>3
        <5>2. QED  BY <3>9, <4>1, <5>1 DEF EachObjectOnce
      <4>4. QED  BY <4>2, <4>3
    <3>10. QED  BY <3>7, <3>9 DEF EachObjectOnce
  <2>5. QED  BY <2>3, <2>4
<1>4. CASE ScanOther
  <2>1. it \in Chars /\ Stream[it] = "other" /\ it' = it + 1 /\ packages' = packages
    BY <1>4, <1>b DEF ScanOther, Scanning
  <2>2. Level[it] = Level[it - 1]
    <3>1. Level[it] = Level[it - 1] + 0
      BY <2>1, CountFacts, DeltaOf
    <3>2. it - 1 \in 0..Len(Stream)
      BY <2>1, StreamFacts DEF Chars
    <3>3. QED  BY <3>1, <3>2, CountFacts
  <2>3. QED  BY <1>p, <2>1, <2>2, OnceKept
<1>5. CASE Return
  BY <1>5 DEF Return, EachObjectOnce
<1>6. CASE Connect
  <2>1. packages' = << >> /\ it' = 1
    BY <1>6 DEF Connect
  <2>2. \A o \in Objects : ~ (o[2] < 1)
    BY CountFacts, StreamFacts DEF Chars
  <2>3. QED  BY <2>1, <2>2 DEF EachObjectOnce
<1>7. CASE UNCHANGED vars
  BY <1>7 DEF vars, EachObjectOnce
<1>8. QED
  BY <1>1, <1>2, <1>3, <1>4, <1>5, <1>6, <1>7 DEF Next, Scan

(* Framing, for every stream whose objects are delimited by braces and      *)
(* every way of cutting it: the brace count and the text kept describe the  *)
(* object being received (FrameInv), every package is the tail of one       *)
(* object, and every object gives exactly one package, in order.            *)
THEOREM FramingCorrect ==
  ASSUME BracesDelimitObjects
  PROVE  Spec => [](FrameInv /\ PackageIsTailOfObject /\ EachObjectOnce)
<1>1. Init => FrameInv
  BY StreamAssumption DEF Init, FrameInv
<1>2. Init => EachObjectOnce
  <2>1. \A o \in Objects : ~ (o[2] < 1)
    BY CountFacts, StreamFacts DEF Chars
  <2>2. QED  BY <2>1 DEF Init, EachObjectOnce
<1>3. TypeOK /\ FrameInv /\ EachObjectOnce /\ [Next]_vars => FrameInv' /\ EachObjectOnce'
  BY FrameStep, OnceStep
<1>4. FrameInv => PackageIsTailOfObject
  BY DEF FrameInv, TailOf, PackageIsTailOfObject
<1>5. QED  BY <1>1, <1>2, <1>3, <1>4, TypeCorrect, PTL DEF Spec

(* The brace count and the text kept describe the object being received.     *)
THEOREM FrameCorrect ==
  ASSUME BracesDelimitObjects  PROVE Spec => []FrameInv
BY FramingCorrect, PTL

(* However the stream is cut, no object is lost, doubled or overtaken.        *)
THEOREM OnceCorrect ==
  ASSUME BracesDelimitObjects  PROVE Spec => []EachObjectOnce
BY FramingCorrect, PTL
=============================================================================
