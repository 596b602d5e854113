-------------------------- MODULE GiftNotifyProofs --------------------------
(***************************************************************************)
(* Proofs about GiftNotify, for every stream, every objects of the server and  *)
(* every way of cutting the stream, whether its braces delimit the objects or  *)
(* not.                                                                     *)
(***************************************************************************)
EXTENDS GiftNotify, MixPackageProofs, SequenceTheorems

notifyTuple == <<vars, notifyVars>>

(* A call is of a package Notify is past, and a token is redeemed for a gift.   *)
CallInv ==
  \A n \in DOMAIN calls :
    /\ calls[n][2] < next
    /\ calls[n][1] = "601" => Complete(packages[calls[n][2]]) /\ Gift(ObjectOf(packages[calls[n][2]]))

(* The inductive invariant.  A chunk is scanned only when Notify is past the    *)
(* batch of the one before, so that no batch is cut where Notify is.            *)
NotifyInv ==
  /\ TypeOKNotify
  /\ phase = "scan" => next = handed + 1
  /\ \A c \in cuts : c < next
  /\ CallInv /\ CallsInOrder /\ LossOnlyByTear

-----------------------------------------------------------------------------
(* A step of GiftNotify is a step of the framing or leaves it alone.           *)
LEMMA FramingStep == [NextNotify]_notifyTuple => [Next]_vars
<1> SUFFICES ASSUME [NextNotify]_notifyTuple  PROVE [Next]_vars
  OBVIOUS
<1>1. ASSUME NEW k \in 1..BufferSize, RecvNext(k)  PROVE Next
  BY <1>1 DEF RecvNext, Next
<1>2. CASE ScanNext
  BY <1>2 DEF ScanNext, Next
<1>3. CASE HandOver
  BY <1>3 DEF HandOver, Next
<1>4. CASE Reconnect
  BY <1>4 DEF Reconnect, Next
<1>5. CASE Notify
  BY <1>5 DEF Notify, HandleObject, DropBatch, ReportTail, Undefined
<1>6. CASE UNCHANGED notifyTuple
  BY <1>6 DEF notifyTuple
<1>7. QED
  BY <1>1, <1>2, <1>3, <1>4, <1>5, <1>6 DEF NextNotify

(* The framing goes on under Notify as it does alone ...                       *)
THEOREM FramingKept == SpecNotify => Spec
BY FramingStep, PTL DEF SpecNotify, InitNotify, Spec, notifyTuple

(* ... so that what is proved of it holds of the packages Notify is given.      *)
THEOREM FramingOfNotify ==
  ASSUME BracesDelimitObjects
  PROVE  SpecNotify => [](FrameInv /\ PackageIsTailOfObject /\ EachObjectOnce)
BY FramingKept, FramingCorrect, PTL

(* The three callbacks in the order Notify makes them.                        *)
LEMMA RankFacts == Rank("601") = 1 /\ Rank("raw") = 2 /\ Rank("message") = 3
BY DEF Rank

(* Two calls, and three.                                                     *)
LEMMA TwoCalls ==
  ASSUME NEW S, NEW a \in S, NEW b \in S
  PROVE  /\ <<a>> \o <<b>> \in Seq(S) /\ Len(<<a>> \o <<b>>) = 2
         /\ (<<a>> \o <<b>>)[1] = a /\ (<<a>> \o <<b>>)[2] = b
<1>1. /\ <<a>> \in Seq(S) /\ Len(<<a>>) = 1 /\ <<a>>[1] = a
      /\ <<b>> \in Seq(S) /\ Len(<<b>>) = 1 /\ <<b>>[1] = b
  OBVIOUS
<1>2. QED  BY <1>1, ConcatProperties

LEMMA ThreeCalls ==
  ASSUME NEW S, NEW a \in S, NEW b \in S, NEW c \in S
  PROVE  /\ <<a>> \o <<b>> \o <<c>> \in Seq(S) /\ Len(<<a>> \o <<b>> \o <<c>>) = 3
         /\ (<<a>> \o <<b>> \o <<c>>)[1] = a /\ (<<a>> \o <<b>> \o <<c>>)[2] = b
         /\ (<<a>> \o <<b>> \o <<c>>)[3] = c
<1>1. <<c>> \in Seq(S) /\ Len(<<c>>) = 1 /\ <<c>>[1] = c
  OBVIOUS
<1>2. QED  BY <1>1, TwoCalls, ConcatProperties

(* What is called for one object.                                            *)
LEMMA CallsForFacts ==
  ASSUME NEW n, NEW o
  PROVE  /\ CallsFor(n, o) \in Seq(Callbacks \X {n})
         /\ \A k, l \in 1..Len(CallsFor(n, o)) :
              k < l => Rank(CallsFor(n, o)[k][1]) < Rank(CallsFor(n, o)[l][1])
         /\ \A k \in 1..Len(CallsFor(n, o)) : CallsFor(n, o)[k][1] = "601" => Gift(o)
         /\ ~ Throws(o) => \E k \in 1..Len(CallsFor(n, o)) : CallsFor(n, o)[k] = <<"raw", n>>
         /\ Gift(o) => \E k \in 1..Len(CallsFor(n, o)) : CallsFor(n, o)[k] = <<"601", n>>
<1> DEFINE S == Callbacks \X {n}
           gift == <<"601", n>>
           raw == <<"raw", n>>
           message == <<"message", n>>
           s == CallsFor(n, o)
<1>1. gift \in S /\ raw \in S /\ message \in S
  BY DEF Callbacks
<1>2. Gift(o) => ~ Throws(o)
  BY DEF Gift, Throws
<1>3. gift[1] = "601" /\ raw[1] = "raw" /\ message[1] = "message"
  OBVIOUS
<1>4. CASE Throws(o)
  <2>1. s = << >>
    BY <1>4 DEF CallsFor
  <2>2. QED  BY <1>2, <1>4, <2>1
<1>5. CASE ~ Throws(o) /\ ~ Gift(o) /\ ~ Outmsg(o)
  <2>1. s = << >> \o <<raw>> \o << >>
    BY <1>5 DEF CallsFor
  <2>2. <<raw>> \in Seq(S)
    BY <1>1
  <2>3. s = <<raw>>
    BY <2>1, <2>2, ConcatEmptySeq
  <2>4. QED  BY <1>1, <1>3, <1>5, <2>3
<1>6. CASE ~ Throws(o) /\ ~ Gift(o) /\ Outmsg(o)
  <2>1. s = << >> \o <<raw>> \o <<message>>
    BY <1>6 DEF CallsFor
  <2>2. << >> \o <<raw>> = <<raw>>
    <3>1. <<raw>> \in Seq(S)
      BY <1>1
    <3>2. QED  BY <3>1, ConcatEmptySeq
  <2>3. s \in Seq(S) /\ Len(s) = 2 /\ s[1] = raw /\ s[2] = message
    <3> HIDE DEF raw, message, S
    <3>1. QED  BY <1>1, <2>1, <2>2, TwoCalls
  <2>4. QED  BY <1>3, <1>6, <2>3, RankFacts
<1>7. CASE ~ Throws(o) /\ Gift(o) /\ ~ Outmsg(o)
  <2>1. s = <<gift>> \o <<raw>> \o << >>
    BY <1>7 DEF CallsFor
  <2>2. <<gift>> \o <<raw>> \in Seq(S)
    <3> HIDE DEF raw, gift, S
    <3>1. QED  BY <1>1, TwoCalls
  <2>3. s = <<gift>> \o <<raw>>
    BY <2>1, <2>2, ConcatEmptySeq
  <2>4. s \in Seq(S) /\ Len(s) = 2 /\ s[1] = gift /\ s[2] = raw
    <3> HIDE DEF raw, gift, S
    <3>1. QED  BY <1>1, <2>3, TwoCalls
  <2>5. QED  BY <1>3, <1>7, <2>4, RankFacts
<1>8. CASE ~ Throws(o) /\ Gift(o) /\ Outmsg(o)
  <2>1. s = <<gift>> \o <<raw>> \o <<message>>
    BY <1>8 DEF CallsFor
  <2>2. s \in Seq(S) /\ Len(s) = 3 /\ s[1] = gift /\ s[2] = raw /\ s[3] = message
    <3> HIDE DEF raw, gift, message, S
    <3> DEFINE t == <<gift>> \o <<raw>> \o <<message>>
    <3>1. t \in Seq(S) /\ Len(t) = 3 /\ t[1] = gift /\ t[2] = raw /\ t[3] = message
      BY <1>1, ThreeCalls
    <3>2. s = t
      BY <2>1
    <3> HIDE DEF t, s
    <3>3. QED  BY <3>1, <3>2
  <2>3. QED  BY <1>3, <1>8, <2>2, RankFacts
<1>9. QED  BY <1>4, <1>5, <1>6, <1>7, <1>8

-----------------------------------------------------------------------------
(* The steps.  The properties of the calls made stay as long as the packages    *)
(* they are of stay: the framing only appends packages.                      *)
PackagesKept ==
  /\ DOMAIN packages \subseteq DOMAIN packages'
  /\ \A n \in DOMAIN packages : packages'[n] = packages[n]

(* What TypeOK says of the packages.                                         *)
LEMMA PackageFacts ==
  TypeOK => /\ DOMAIN packages = 1..Len(packages) /\ Len(packages) \in Nat
            /\ handed \in Nat /\ handed <= Len(packages)
BY DEF TypeOK

LEMMA CallsStep ==
  ASSUME TypeOK, NotifyInv, PackagesKept, TypeOK', calls' = calls, next' \in Nat, next <= next'
  PROVE  calls' \in Seq(Callbacks \X DOMAIN packages') /\ CallInv' /\ CallsInOrder'
<1>1. calls \in Seq(Callbacks \X DOMAIN packages) /\ next \in 1..(handed + 1)
  BY DEF NotifyInv, TypeOKNotify
<1>2. Callbacks \X DOMAIN packages \subseteq Callbacks \X DOMAIN packages'
  BY DEF PackagesKept
<1>3. calls' \in Seq(Callbacks \X DOMAIN packages')
  BY <1>1, <1>2, SeqMonotonic
<1>4. CallInv'
  <2>1. ASSUME NEW n \in DOMAIN calls
        PROVE  /\ calls[n][2] < next'
               /\ calls[n][1] = "601" => /\ Complete(packages'[calls[n][2]])
                                         /\ Gift(ObjectOf(packages'[calls[n][2]]))
    <3>1. calls[n] \in Callbacks \X DOMAIN packages
      BY <1>1
    <3>2. calls[n][2] \in DOMAIN packages /\ packages'[calls[n][2]] = packages[calls[n][2]]
      BY <3>1 DEF PackagesKept
    <3>3. calls[n][2] \in Nat
      BY <3>2, PackageFacts
    <3>4. calls[n][2] < next /\ next \in Nat
      BY <1>1, PackageFacts DEF NotifyInv, CallInv
    <3>5. QED  BY <3>2, <3>3, <3>4 DEF NotifyInv, CallInv
  <2>2. QED  BY <2>1 DEF CallInv, Complete, ObjectOf, Gift
<1>5. CallsInOrder'
  <2>1. calls' = calls
    OBVIOUS
  <2>2. QED  BY <2>1 DEF NotifyInv, CallsInOrder
<1>6. QED  BY <1>3, <1>4, <1>5

(* The framing makes packages, or hands them over.                            *)
LEMMA ScanInv == TypeOK /\ TypeOK' /\ NotifyInv /\ ScanNext => NotifyInv'
<1> SUFFICES ASSUME TypeOK, TypeOK', NotifyInv, ScanNext  PROVE NotifyInv'
  OBVIOUS
<1>1. /\ calls' = calls /\ next' = next /\ cuts' = cuts /\ alive' = alive
      /\ handed' = handed /\ phase' = phase
  BY DEF ScanNext, notifyVars, Scan, ScanOpen, ScanClose, ScanOther
<1>2. PackagesKept
  <2>1. packages' = packages \/ \E p : packages' = Append(packages, p)
    BY DEF ScanNext, Scan, ScanOpen, ScanClose, ScanOther, PushBack
  <2>2. packages \in Seq(Package)
    BY DEF TypeOK
  <2>3. QED  BY <2>1, <2>2 DEF PackagesKept
<1>3. next \in 1..(handed + 1) /\ handed \in Nat /\ next \in Nat
  BY PackageFacts DEF NotifyInv, TypeOKNotify
<1>4. calls' \in Seq(Callbacks \X DOMAIN packages') /\ CallInv' /\ CallsInOrder'
  BY <1>1, <1>2, <1>3, CallsStep
<1>5. LossOnlyByTear'
  <2>1. \A n \in 1..(next - 1) : n \in DOMAIN packages /\ packages'[n] = packages[n]
    BY <1>2, <1>3, PackageFacts DEF PackagesKept
  <2>2. ASSUME NEW n \in 1..(next - 1)
        PROVE  Exposed(n)' <=> Exposed(n)
    <3>1. \A m \in 1..n : packages'[m] = packages[m]
      BY <1>3, <2>1, <2>2
    <3>2. QED  BY <1>1, <3>1 DEF Exposed, SameBatch, Complete, ObjectOf
  <2>3. QED  
    BY <1>1, <2>1, <2>2 DEF NotifyInv, LossOnlyByTear, Called, Throws, ObjectOf
<1>6. TypeOKNotify'
  BY <1>1, <1>4 DEF NotifyInv, TypeOKNotify
<1>7. QED  BY <1>1, <1>4, <1>5, <1>6 DEF NotifyInv

LEMMA RecvInv ==
  ASSUME TypeOK, TypeOK', NotifyInv, NEW k \in 1..BufferSize, RecvNext(k)
  PROVE  NotifyInv'
<1>1. /\ UNCHANGED <<notifyVars, packages, handed>> /\ next > handed
  BY DEF RecvNext, Recv
<1>2. next' = handed' + 1
  BY <1>1, PackageFacts DEF NotifyInv, TypeOKNotify, notifyVars
<1>3. PackagesKept
  BY <1>1 DEF PackagesKept
<1>4. calls' \in Seq(Callbacks \X DOMAIN packages') /\ CallInv' /\ CallsInOrder'
  BY <1>1, <1>3, CallsStep, PackageFacts DEF NotifyInv, TypeOKNotify, notifyVars
<1>5. LossOnlyByTear'
  <2>1. packages' = packages /\ cuts' = cuts /\ next' = next /\ calls' = calls
    BY <1>1 DEF notifyVars
  <2>2. \A n : Exposed(n)' <=> Exposed(n)
    BY <2>1 DEF Exposed, SameBatch, Complete, ObjectOf
  <2>3. QED  BY <2>1, <2>2 DEF NotifyInv, LossOnlyByTear, Called, Throws, ObjectOf
<1>6. TypeOKNotify'
  BY <1>1, <1>4 DEF NotifyInv, TypeOKNotify, notifyVars
<1>7. QED  BY <1>1, <1>2, <1>4, <1>5, <1>6 DEF NotifyInv, notifyVars

(* The cut is behind every package that Notify is past.                       *)
LEMMA HandOverInv == TypeOK /\ TypeOK' /\ NotifyInv /\ HandOver => NotifyInv'
<1> SUFFICES ASSUME TypeOK, TypeOK', NotifyInv, HandOver  PROVE NotifyInv'
  OBVIOUS
<1>1. /\ phase = "scan" /\ phase' = "recv" /\ packages' = packages
      /\ handed' = Len(packages) /\ cuts' = cuts \cup {handed}
      /\ next' = next /\ calls' = calls /\ alive' = alive
  BY DEF HandOver, Return
<1>2. next = handed + 1 /\ handed \in Nat /\ handed <= handed' /\ handed' \in Nat
  BY <1>1, PackageFacts DEF NotifyInv
<1>3. PackagesKept
  BY <1>1 DEF PackagesKept
<1>4. calls' \in Seq(Callbacks \X DOMAIN packages') /\ CallInv' /\ CallsInOrder'
  BY <1>1, <1>2, <1>3, CallsStep
<1>5. TypeOKNotify'
  BY <1>1, <1>2, <1>4 DEF NotifyInv, TypeOKNotify
<1>6. \A c \in cuts' : c < next'
  BY <1>1, <1>2 DEF NotifyInv
<1>7. LossOnlyByTear'
  <2>1. ASSUME NEW n \in 1..(next - 1)  PROVE Exposed(n)' <=> Exposed(n)
    <3>1. ASSUME NEW m \in 1..n  PROVE SameBatch(m, n)' <=> SameBatch(m, n)
      BY <1>1, <1>2, <2>1, <3>1 DEF SameBatch
    <3>2. QED  BY <1>1, <3>1 DEF Exposed, Complete, ObjectOf
  <2>2. QED
    BY <1>1, <2>1 DEF NotifyInv, LossOnlyByTear, Called, Throws, ObjectOf
<1>8. QED  BY <1>1, <1>4, <1>5, <1>6, <1>7 DEF NotifyInv

LEMMA ReconnectInv == Reconnect => NotifyInv'
<1> SUFFICES ASSUME Reconnect  PROVE NotifyInv'
  OBVIOUS
<1>1. /\ phase' = "recv" /\ handed' = 0 /\ next' = 1 /\ calls' = << >> /\ cuts' = {}
      /\ alive' = TRUE
  BY DEF Reconnect, Connect
<1>2. alive' \in BOOLEAN
  BY <1>1, Zenon
<1>3. TypeOKNotify'
  BY <1>1, <1>2 DEF TypeOKNotify
<1>4. CallInv' /\ CallsInOrder' /\ LossOnlyByTear'
  BY <1>1 DEF CallInv, CallsInOrder, LossOnlyByTear
<1>5. QED  BY <1>1, <1>3, <1>4 DEF NotifyInv

(* The calls for the package that Notify looks at come after the calls made.   *)
LEMMA CallsAppended ==
  ASSUME TypeOK, NotifyInv, InBatch, UNCHANGED vars, NEW s \in Seq(Callbacks \X {next}),
         calls' = calls \o s, next' = next + 1,
         \A k, l \in 1..Len(s) : k < l => Rank(s[k][1]) < Rank(s[l][1]),
         \A k \in 1..Len(s) :
           s[k][1] = "601" => Complete(packages[next]) /\ Gift(ObjectOf(packages[next]))
  PROVE  /\ calls' \in Seq(Callbacks \X DOMAIN packages') /\ CallInv' /\ CallsInOrder'
         /\ \A c, n : Called(c, n) => Called(c, n)'
         /\ \A c, n : (\E k \in 1..Len(s) : s[k] = <<c, n>>) => Called(c, n)'
<1>1. calls \in Seq(Callbacks \X DOMAIN packages) /\ next \in 1..(handed + 1) /\ next \in Nat
  BY PackageFacts DEF NotifyInv, TypeOKNotify
<1>2. next \in DOMAIN packages
  BY <1>1, PackageFacts DEF InBatch
<1>3. packages' = packages
  BY DEF vars
<1> DEFINE S == Callbacks \X DOMAIN packages
<1>4. s \in Seq(S)
  BY <1>2, SeqMonotonic
<1> HIDE DEF S
<1>5. Len(calls) \in Nat /\ Len(s) \in Nat /\ DOMAIN calls = 1..Len(calls)
  BY <1>1, <1>4
<1>6. /\ calls' \in Seq(S) /\ DOMAIN calls' = 1..(Len(calls) + Len(s))
      /\ \A n \in 1..Len(calls) : calls'[n] = calls[n]
      /\ \A k \in 1..Len(s) : calls'[Len(calls) + k] = s[k]
  <2>1. calls \in Seq(S)
    BY <1>1 DEF S
  <2>2. /\ calls \o s \in Seq(S) /\ Len(calls \o s) = Len(calls) + Len(s)
        /\ \A n \in 1..(Len(calls) + Len(s)) :
             (calls \o s)[n] = IF n <= Len(calls) THEN calls[n] ELSE s[n - Len(calls)]
    BY <1>4, <2>1, ConcatProperties
  <2>3. DOMAIN (calls \o s) = 1..(Len(calls) + Len(s))
    BY <2>2
  <2>4. \A n \in 1..Len(calls) : (calls \o s)[n] = calls[n]
    BY <1>5, <2>2
  <2>5. \A k \in 1..Len(s) : (calls \o s)[Len(calls) + k] = s[k]
    BY <1>5, <2>2
  <2>6. QED  BY <2>2, <2>3, <2>4, <2>5
<1>7. \A n \in DOMAIN calls' : \/ n \in 1..Len(calls)
                              \/ \E k \in 1..Len(s) : n = Len(calls) + k
  <2>1. ASSUME NEW n \in 1..(Len(calls) + Len(s)), n \notin 1..Len(calls)
        PROVE  n - Len(calls) \in 1..Len(s) /\ n = Len(calls) + (n - Len(calls))
    BY <1>5, <2>1
  <2>2. QED  BY <1>6, <2>1
<1>8. \A n \in 1..Len(calls) : calls[n][2] < next /\ calls[n][2] \in Nat
  <2>1. ASSUME NEW n \in 1..Len(calls)  PROVE calls[n][2] < next /\ calls[n][2] \in Nat
    <3>1. calls[n] \in Callbacks \X DOMAIN packages
      BY <1>1, <1>5
    <3>2. calls[n][2] \in DOMAIN packages
      BY <3>1
    <3>3. QED  BY <1>5, <3>2, PackageFacts DEF NotifyInv, CallInv
  <2>2. QED  BY <2>1
<1>9. \A k \in 1..Len(s) : s[k][2] = next
  BY <1>4
<1>10. CallInv'
  <2>1. ASSUME NEW n \in DOMAIN calls'
        PROVE  /\ calls'[n][2] < next'
               /\ calls'[n][1] = "601" => /\ Complete(packages'[calls'[n][2]])
                                          /\ Gift(ObjectOf(packages'[calls'[n][2]]))
    <3>1. CASE n \in 1..Len(calls)
      BY <1>1, <1>3, <1>5, <1>6, <1>8, <3>1 DEF NotifyInv, CallInv
    <3>2. CASE \E k \in 1..Len(s) : n = Len(calls) + k
      <4>1. PICK k \in 1..Len(s) : n = Len(calls) + k
        BY <3>2
      <4>2. calls'[n] = s[k] /\ s[k][2] = next
        BY <1>6, <1>9, <4>1
      <4>3. QED  BY <1>1, <1>3, <4>2
    <3>3. QED  BY <1>7, <2>1, <3>1, <3>2
  <2>2. QED  BY <2>1 DEF CallInv, Complete, ObjectOf, Gift
<1>11. CallsInOrder'
  <2>1. ASSUME NEW m \in DOMAIN calls', NEW n \in DOMAIN calls', m < n
        PROVE  \/ calls'[m][2] < calls'[n][2]
               \/ calls'[m][2] = calls'[n][2] /\ Rank(calls'[m][1]) < Rank(calls'[n][1])
    <3>1. CASE m \in 1..Len(calls) /\ n \in 1..Len(calls)
      BY <1>5, <1>6, <2>1, <3>1 DEF NotifyInv, CallsInOrder
    <3>2. CASE m \in 1..Len(calls) /\ \E k \in 1..Len(s) : n = Len(calls) + k
      <4>1. PICK k \in 1..Len(s) : n = Len(calls) + k
        BY <3>2
      <4>2. calls'[n] = s[k] /\ s[k][2] = next /\ calls'[m] = calls[m]
        BY <1>6, <1>9, <3>2, <4>1
      <4>3. QED  BY <1>8, <3>2, <4>2
    <3>3. CASE /\ \E k \in 1..Len(s) : m = Len(calls) + k
               /\ \E k \in 1..Len(s) : n = Len(calls) + k
      <4>1. PICK k \in 1..Len(s) : m = Len(calls) + k
        BY <3>3
      <4>2. PICK l \in 1..Len(s) : n = Len(calls) + l
        BY <3>3
      <4>3. k < l
        BY <1>5, <2>1, <4>1, <4>2
      <4>4. /\ calls'[m] = s[k] /\ s[k][2] = next
            /\ calls'[n] = s[l] /\ s[l][2] = next
        BY <1>6, <1>9, <4>1, <4>2
      <4>5. QED  BY <4>3, <4>4
    <3>4. CASE n \in 1..Len(calls) /\ \E k \in 1..Len(s) : m = Len(calls) + k
      BY <1>5, <2>1, <3>4
    <3>5. QED  BY <1>7, <3>1, <3>2, <3>3, <3>4
  <2>2. QED  BY <2>1 DEF CallsInOrder, Rank
<1>12. \A c, n : Called(c, n) => Called(c, n)'
  <2>1. ASSUME NEW c, NEW n, NEW k \in DOMAIN calls, calls[k] = <<c, n>>
        PROVE  Called(c, n)'
    <3>1. k \in DOMAIN calls' /\ calls'[k] = calls[k]
      BY <1>5, <1>6
    <3>2. QED  BY <2>1, <3>1 DEF Called
  <2>2. QED  BY <2>1 DEF Called
<1>13. \A c, n : (\E k \in 1..Len(s) : s[k] = <<c, n>>) => Called(c, n)'
  <2>1. ASSUME NEW c, NEW n, NEW k \in 1..Len(s), s[k] = <<c, n>>
        PROVE  Called(c, n)'
    <3>1. Len(calls) + k \in DOMAIN calls'
      BY <1>5, <1>6
    <3>2. calls'[Len(calls) + k] = <<c, n>>
      BY <1>6, <2>1
    <3>3. \E m \in DOMAIN calls' : calls'[m] = <<c, n>>
      BY <3>1, <3>2
    <3>4. QED  BY <3>3 DEF Called
  <2>2. QED  BY <2>1
<1>14. QED  BY <1>3, <1>6, <1>10, <1>11, <1>12, <1>13 DEF S

(* In a batch, the framing waits and nothing is cut; what was lost of the       *)
(* packages before does not change.                                         *)
LEMMA BatchFacts ==
  ASSUME TypeOK, NotifyInv, InBatch, UNCHANGED <<vars, cuts>>
  PROVE  /\ phase' = "recv" /\ handed' = handed /\ packages' = packages
         /\ next \in 1..handed /\ next \in Nat /\ handed \in Nat
         /\ \A n : Exposed(n)' <=> Exposed(n)
         /\ \A n : ~ Complete(packages[n]) /\ n \in Nat \ {0} => Exposed(n)
<1>1. /\ phase' = "recv" /\ handed' = handed /\ packages' = packages /\ cuts' = cuts
  BY DEF InBatch, vars
<1>2. next \in 1..handed /\ next \in Nat /\ handed \in Nat
  BY PackageFacts DEF NotifyInv, TypeOKNotify, InBatch
<1>3. \A n : Exposed(n)' <=> Exposed(n)
  BY <1>1 DEF Exposed, SameBatch, Complete, ObjectOf
<1>4. ASSUME NEW n \in Nat \ {0}, ~ Complete(packages[n])  PROVE Exposed(n)
  <2>1. cuts \subseteq Int
    BY <1>2 DEF NotifyInv, TypeOKNotify
  <2>2. SameBatch(n, n)
    BY <2>1 DEF SameBatch
  <2>3. QED  BY <1>4, <2>2 DEF Exposed
<1>5. QED  BY <1>1, <1>2, <1>3, <1>4

LEMMA HandleObjectInv == TypeOK /\ NotifyInv /\ HandleObject => NotifyInv'
<1> SUFFICES ASSUME TypeOK, NotifyInv, HandleObject  PROVE NotifyInv'
  OBVIOUS
<1> DEFINE o == ObjectOf(packages[next])
           s == CallsFor(next, o)
<1>1. /\ InBatch /\ UNCHANGED vars /\ cuts' = cuts /\ alive' = alive
      /\ Complete(packages[next]) /\ calls' = calls \o s /\ next' = next + 1
  BY DEF HandleObject
<1>2. /\ phase' = "recv" /\ handed' = handed /\ packages' = packages
      /\ next \in 1..handed /\ next \in Nat /\ handed \in Nat
      /\ \A n : Exposed(n)' <=> Exposed(n)
  BY <1>1, BatchFacts
<1>3. /\ s \in Seq(Callbacks \X {next})
      /\ \A k, l \in 1..Len(s) : k < l => Rank(s[k][1]) < Rank(s[l][1])
      /\ \A k \in 1..Len(s) : s[k][1] = "601" => Gift(o)
      /\ ~ Throws(o) => \E k \in 1..Len(s) : s[k] = <<"raw", next>>
      /\ Gift(o) => \E k \in 1..Len(s) : s[k] = <<"601", next>>
  BY CallsForFacts
<1> HIDE DEF s
<1>4. /\ calls' \in Seq(Callbacks \X DOMAIN packages') /\ CallInv' /\ CallsInOrder'
      /\ \A c, n : Called(c, n) => Called(c, n)'
      /\ \A c, n : (\E k \in 1..Len(s) : s[k] = <<c, n>>) => Called(c, n)'
  BY <1>1, <1>3, CallsAppended
<1>5. TypeOKNotify'
  BY <1>1, <1>2, <1>4 DEF NotifyInv, TypeOKNotify
<1>6. LossOnlyByTear'
  <2>1. ASSUME NEW n \in 1..(next' - 1), ~ Exposed(n)', ~ Throws(ObjectOf(packages[n]))
        PROVE  /\ Called("raw", n)'
               /\ Gift(ObjectOf(packages[n])) => Called("601", n)'
    <3>1. CASE n = next
      BY <1>3, <1>4, <2>1, <3>1
    <3>2. CASE n # next
      <4>1. n \in 1..(next - 1)
        BY <1>1, <1>2, <2>1, <3>2
      <4>2. /\ Called("raw", n)
            /\ Gift(ObjectOf(packages[n])) => Called("601", n)
        BY <1>2, <2>1, <4>1 DEF NotifyInv, LossOnlyByTear, Gift
      <4>3. QED  BY <1>4, <4>2
    <3>3. QED  BY <3>1, <3>2
  <2>2. QED  BY <1>2, <2>1 DEF LossOnlyByTear, Gift, Throws, ObjectOf
<1>7. \A c \in cuts' : c < next'
  BY <1>1, <1>2 DEF NotifyInv, TypeOKNotify
<1>8. QED  BY <1>2, <1>4, <1>5, <1>6, <1>7 DEF NotifyInv

(* The packages dropped are of the batch of the torn one.                      *)
LEMMA DropBatchInv == TypeOK /\ TypeOK' /\ NotifyInv /\ DropBatch => NotifyInv'
<1> SUFFICES ASSUME TypeOK, TypeOK', NotifyInv, DropBatch  PROVE NotifyInv'
  OBVIOUS
<1>1. /\ InBatch /\ UNCHANGED vars /\ cuts' = cuts /\ alive' = alive
      /\ ~ Complete(packages[next]) /\ calls' = calls /\ next' = handed + 1
  BY DEF DropBatch, Torn
<1>2. /\ phase' = "recv" /\ handed' = handed /\ packages' = packages
      /\ next \in 1..handed /\ next \in Nat /\ handed \in Nat
      /\ \A n : Exposed(n)' <=> Exposed(n)
  BY <1>1, BatchFacts
<1>3. PackagesKept
  BY <1>2 DEF PackagesKept
<1>4. calls' \in Seq(Callbacks \X DOMAIN packages') /\ CallInv' /\ CallsInOrder'
  BY <1>1, <1>2, <1>3, CallsStep
<1>5. TypeOKNotify'
  BY <1>1, <1>2, <1>4 DEF NotifyInv, TypeOKNotify
<1>6. ASSUME NEW n \in next..handed  PROVE Exposed(n)
  <2>1. SameBatch(next, n)
    BY <1>2, <1>6 DEF SameBatch, NotifyInv, TypeOKNotify
  <2>2. next \in 1..n
    BY <1>2, <1>6
  <2>3. QED  BY <1>1, <2>1, <2>2 DEF Exposed
<1>7. LossOnlyByTear'
  <2>1. \A n \in 1..handed : n \in 1..(next - 1) \/ n \in next..handed
    BY <1>2
  <2>2. next' - 1 = handed
    BY <1>1, <1>2
  <2>3. QED
    BY <1>1, <1>2, <1>6, <2>1, <2>2 DEF NotifyInv, LossOnlyByTear, Called, Throws, ObjectOf
<1>8. \A c \in cuts' : c < next'
  BY <1>1, <1>2 DEF NotifyInv, TypeOKNotify
<1>9. QED  BY <1>2, <1>4, <1>5, <1>7, <1>8 DEF NotifyInv

LEMMA ReportTailInv == TypeOK /\ NotifyInv /\ ReportTail => NotifyInv'
<1> SUFFICES ASSUME TypeOK, NotifyInv, ReportTail  PROVE NotifyInv'
  OBVIOUS
<1> DEFINE s == << <<"raw", next>> >>
<1>1. /\ InBatch /\ UNCHANGED vars /\ cuts' = cuts /\ alive' = alive
      /\ ~ Complete(packages[next]) /\ calls' = Append(calls, <<"raw", next>>)
      /\ next' = next + 1
  BY DEF ReportTail, Torn
<1>2. /\ phase' = "recv" /\ handed' = handed /\ packages' = packages
      /\ next \in 1..handed /\ next \in Nat /\ handed \in Nat
      /\ \A n : Exposed(n)' <=> Exposed(n)
      /\ Exposed(next)
  BY <1>1, BatchFacts
<1>3. s \in Seq(Callbacks \X {next}) /\ Len(s) = 1 /\ s[1][1] = "raw"
  BY DEF Callbacks
<1>4. calls' = calls \o s
  <2>1. calls \in Seq(Callbacks \X DOMAIN packages)
    BY DEF NotifyInv, TypeOKNotify
  <2>2. <<"raw", next>> \in Callbacks \X DOMAIN packages
    BY <1>2, PackageFacts DEF Callbacks
  <2>3. QED  BY <1>1, <2>1, <2>2, AppendIsConcat
<1> HIDE DEF s
<1>5. /\ calls' \in Seq(Callbacks \X DOMAIN packages') /\ CallInv' /\ CallsInOrder'
      /\ \A c, n : Called(c, n) => Called(c, n)'
  <2>1. /\ \A k, l \in 1..Len(s) : k < l => Rank(s[k][1]) < Rank(s[l][1])
        /\ \A k \in 1..Len(s) :
             s[k][1] = "601" => Complete(packages[next]) /\ Gift(ObjectOf(packages[next]))
    BY <1>3
  <2>2. QED  BY <1>1, <1>3, <1>4, <2>1, CallsAppended
<1>6. TypeOKNotify'
  BY <1>1, <1>2, <1>5 DEF NotifyInv, TypeOKNotify
<1>7. LossOnlyByTear'
  <2>1. \A n \in 1..(next' - 1) : n \in 1..(next - 1) \/ n = next
    BY <1>1, <1>2
  <2>2. QED
    BY <1>2, <1>5, <2>1 DEF NotifyInv, LossOnlyByTear, Throws, ObjectOf
<1>8. \A c \in cuts' : c < next'
  BY <1>1, <1>2 DEF NotifyInv, TypeOKNotify
<1>9. QED  BY <1>2, <1>5, <1>6, <1>7, <1>8 DEF NotifyInv

(* Undefined behaviour changes nothing but that the process stops.             *)
LEMMA UnchangedInv ==
  ASSUME NotifyInv, UNCHANGED <<vars, next, calls, cuts>>, alive' \in BOOLEAN
  PROVE  NotifyInv'
<1>1. /\ phase' = phase /\ handed' = handed /\ packages' = packages /\ next' = next
      /\ calls' = calls /\ cuts' = cuts
  BY DEF vars
<1>2. TypeOKNotify'
  BY <1>1 DEF NotifyInv, TypeOKNotify
<1>3. CallInv'
  BY <1>1 DEF NotifyInv, CallInv, Complete, ObjectOf, Gift
<1>4. CallsInOrder'
  BY <1>1 DEF NotifyInv, CallsInOrder
<1>5. LossOnlyByTear'
  <2>1. \A n : Exposed(n)' <=> Exposed(n)
    BY <1>1 DEF Exposed, SameBatch, Complete, ObjectOf
  <2>2. QED  BY <1>1, <2>1 DEF NotifyInv, LossOnlyByTear, Called, Throws, ObjectOf
<1>6. QED  BY <1>1, <1>2, <1>3, <1>4, <1>5 DEF NotifyInv

-----------------------------------------------------------------------------
(* The theorems                                                             *)

(* What Notify has done of the packages handed over, in every state of every    *)
(* behaviour.                                                               *)
THEOREM NotifyCorrect == SpecNotify => []NotifyInv
<1>1. InitNotify => NotifyInv
  <2> SUFFICES ASSUME InitNotify  PROVE NotifyInv
    OBVIOUS
  <2>1. /\ phase = "recv" /\ handed = 0 /\ next = 1 /\ calls = << >> /\ cuts = {} /\ alive = TRUE
    BY DEF InitNotify, Init
  <2>2. alive \in BOOLEAN
    BY <2>1, Zenon
  <2>3. TypeOKNotify
    BY <2>1, <2>2 DEF TypeOKNotify
  <2>4. CallInv /\ CallsInOrder /\ LossOnlyByTear
    BY <2>1 DEF CallInv, CallsInOrder, LossOnlyByTear
  <2>5. QED  BY <2>1, <2>3, <2>4 DEF NotifyInv
<1>2. TypeOK /\ TypeOK' /\ NotifyInv /\ [NextNotify]_notifyTuple => NotifyInv'
  <2> SUFFICES ASSUME TypeOK, TypeOK', NotifyInv, [NextNotify]_notifyTuple  PROVE NotifyInv'
    OBVIOUS
  <2>1. ASSUME NEW k \in 1..BufferSize, RecvNext(k)  PROVE NotifyInv'
    BY <2>1, RecvInv
  <2>2. CASE ScanNext
    BY <2>2, ScanInv
  <2>3. CASE HandOver
    BY <2>3, HandOverInv
  <2>4. CASE Reconnect
    BY <2>4, ReconnectInv
  <2>5. CASE HandleObject
    BY <2>5, HandleObjectInv
  <2>6. CASE DropBatch
    BY <2>6, DropBatchInv
  <2>7. CASE ReportTail
    BY <2>7, ReportTailInv
  <2>8. CASE Undefined
    <3>1. alive' = FALSE /\ UNCHANGED <<vars, next, calls, cuts>>
      BY <2>8 DEF Undefined
    <3>2. alive' \in BOOLEAN
      BY <3>1, Zenon
    <3>3. QED  BY <3>1, <3>2, UnchangedInv
  <2>9. CASE UNCHANGED notifyTuple
    <3>1. UNCHANGED <<vars, next, calls, cuts>> /\ alive' = alive
      BY <2>9 DEF notifyTuple, notifyVars
    <3>2. alive' \in BOOLEAN
      BY <3>1 DEF NotifyInv, TypeOKNotify
    <3>3. QED  BY <3>1, <3>2, UnchangedInv
  <2>10. QED
    BY <2>1, <2>2, <2>3, <2>4, <2>5, <2>6, <2>7, <2>8, <2>9 DEF NextNotify, Notify
<1>3. SpecNotify => []TypeOK
  BY FramingKept, TypeCorrect, PTL
<1>4. QED  BY <1>1, <1>2, <1>3, PTL DEF SpecNotify, notifyTuple

(* The variables of Notify have their types.                                 *)
THEOREM TypeNotifyCorrect == SpecNotify => []TypeOKNotify
<1>1. NotifyInv => TypeOKNotify
  BY DEF NotifyInv
<1>2. QED  BY <1>1, NotifyCorrect, PTL

(* Nothing is lost but for a tear in the same chunk or an exception, in every    *)
(* stream and however it is cut.                                             *)
THEOREM LossCorrect == SpecNotify => []LossOnlyByTear
<1>1. NotifyInv => LossOnlyByTear
  BY DEF NotifyInv
<1>2. QED  BY <1>1, NotifyCorrect, PTL

(* The calls come in the order of the stream, the token before the text and     *)
(* the text before the message.                                              *)
THEOREM OrderCorrect == SpecNotify => []CallsInOrder
<1>1. NotifyInv => CallsInOrder
  BY DEF NotifyInv
<1>2. QED  BY <1>1, NotifyCorrect, PTL

(* A token is redeemed for a complete gift, and nothing is called twice: two    *)
(* calls in order are different.                                             *)
THEOREM TokenCorrect == SpecNotify => []TokenOnce
<1>1. TypeOK /\ NotifyInv => TokenOnce
  <2> SUFFICES ASSUME TypeOK, NotifyInv,
                      NEW m \in DOMAIN calls, NEW n \in DOMAIN calls
               PROVE  /\ calls[m][1] = "601" => LET p == packages[calls[m][2]]
                                                IN  /\ Complete(p)
                                                    /\ Content[ObjectOf(p)] = "token"
                      /\ calls[m] = calls[n] => m = n
    BY DEF TokenOnce
  <2>1. calls \in Seq(Callbacks \X DOMAIN packages)
    BY DEF NotifyInv, TypeOKNotify
  <2>2. calls[m][1] = "601" => /\ Complete(packages[calls[m][2]])
                               /\ Content[ObjectOf(packages[calls[m][2]])] = "token"
    BY DEF NotifyInv, CallInv, Gift
  <2>3. ASSUME NEW k \in DOMAIN calls, NEW l \in DOMAIN calls, k < l
        PROVE  calls[k] # calls[l]
    <3>1. calls[k] \in Callbacks \X DOMAIN packages
      BY <2>1
    <3>2. calls[k][1] \in Callbacks /\ calls[k][2] \in Nat
      BY <3>1, PackageFacts
    <3>3. Rank(calls[k][1]) \in Nat
      BY <3>2, RankFacts DEF Callbacks
    <3>4. QED  BY <2>3, <3>2, <3>3 DEF NotifyInv, CallsInOrder
  <2>4. m \in Nat /\ n \in Nat
    BY <2>1
  <2>5. QED  BY <2>2, <2>3, <2>4
<1>2. SpecNotify => []TypeOK
  BY FramingKept, TypeCorrect, PTL
<1>3. QED  BY <1>1, <1>2, NotifyCorrect, PTL
=============================================================================
