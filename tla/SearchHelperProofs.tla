------------------------- MODULE SearchHelperProofs -------------------------
(***************************************************************************)
(* Proofs about SearchHelper, for any pages, families, lists of singers (with   *)
(* or without repeated ones), profiles and days.                             *)
(***************************************************************************)
EXTENDS SearchHelper, SequenceTheorems, WellFoundedInduction, TLAPS

(* A family on a page that was looked at is known, or something failed.        *)
PageInv ==
  /\ \A p \in 1..(pagecount_ - 1) : p < i => \A c \in Range(Page[p]) :
       c \in familyMap \/ <<"entry", c>> \in unanswered \/ <<"page", p>> \in unanswered
  /\ stage \in {"pages", "false"} => family = NoFamily
  /\ stage \in {"family", "profiles", "write", "true"} \/ family # NoFamily => i >= pagecount_

(* The rows not written are of the family whose turn it is, in the order of     *)
(* its list and of places that were passed; those written are of families       *)
(* before it, or of this one and before the rows still to write.              *)
TurnInv ==
  /\ stage \in {"profiles", "write"} => family \in familyMap
  /\ stage \notin {"profiles", "write", "thrown"} => singerInfoVec = << >>
  /\ \A j \in 1..Len(singerInfoVec) :
       singerInfoVec[j].clanid = family /\ singerInfoVec[j].nth < nth
  /\ \A j, k \in 1..Len(singerInfoVec) : j < k => singerInfoVec[j].nth < singerInfoVec[k].nth
  /\ \A j \in 1..Len(file) :
       /\ file[j].clanid <= family
       /\ stage = "profiles" => file[j].clanid < family
       /\ stage = "write" => \A k \in 1..Len(singerInfoVec) :
            k >= row => Before(Place(file[j]), Place(singerInfoVec[k]))

(* The rows of the file stand in the order of the families and their lists.     *)
FileOrdered ==
  \A j, k \in 1..Len(file) : j < k => Before(Place(file[j]), Place(file[k]))

(* The rows are right, and the memory of the room holds nothing of a singer      *)
(* still to come.                                                           *)
RowsInv ==
  /\ \A j \in 1..Len(file) : RowRight(file[j])
  /\ \A j \in 1..Len(singerInfoVec) : RowRight(singerInfoVec[j])
  /\ roomid = Junk \/ RoomOfEarlier(roomid, <<family, nth>>)

(* The place n of family c is in the file, or something it depends on failed.    *)
Written(c, n) ==
  \/ \E j \in 1..Len(file) : file[j].clanid = c /\ file[j].nth = n
  \/ unanswered \cap Cause(c, n) # {}

(* Every place of an expired singer that was passed in this turn has a row or    *)
(* its profile failed; while the rows are written, it has one still to write     *)
(* or is done; the families before are done.                                 *)
WorkInv ==
  /\ stage = "profiles" => \A n \in DOMAIN Singers[family] :
       n < nth /\ Expired(Singers[family][n]) =>
         \/ \E j \in 1..Len(singerInfoVec) : singerInfoVec[j].nth = n
         \/ <<"profile", <<family, n>>>> \in unanswered
  /\ stage = "write" => \A n \in DOMAIN Singers[family] : Expired(Singers[family][n]) =>
       \/ \E j \in 1..Len(singerInfoVec) : j >= row /\ singerInfoVec[j].nth = n
       \/ Written(family, n)
  /\ \A c \in familyMap : Over(c) =>
       \A n \in DOMAIN Singers[c] : Expired(Singers[c][n]) => Written(c, n)

(* The inductive invariant.                                                  *)
IInv == TypeOK /\ PageInv /\ TurnInv /\ FileOrdered /\ RowsInv /\ WorkInv

-----------------------------------------------------------------------------
(* The site                                                                *)
LEMMA SiteFacts ==
  /\ pagecount_ \in Nat /\ lastactive_ \in Nat /\ Families \subseteq Nat
  /\ \A p \in 1..(pagecount_ - 1) : \A c \in Range(Page[p]) : c \in Families
  /\ \A c \in Families :
       /\ \E p \in 1..(pagecount_ - 1) : c \in Range(Page[p])
       /\ DOMAIN Singers[c] = 1..Len(Singers[c]) /\ Len(Singers[c]) \in Nat
       /\ \A n \in DOMAIN Singers[c] : Singers[c][n] \in AllSingers /\ <<c, n>> \in Places
<1>1. \A p \in 1..(pagecount_ - 1) : \A c \in Range(Page[p]) : c \in Families
  <2>1. ASSUME NEW p \in 1..(pagecount_ - 1), NEW c \in Range(Page[p])  PROVE c \in Families
    <3>1. Range(Page[p]) \in {Range(Page[q]) : q \in 1..(pagecount_ - 1)}
      OBVIOUS
    <3>2. c \in UNION {Range(Page[q]) : q \in 1..(pagecount_ - 1)}
      BY <3>1
    <3>3. QED  BY <3>2 DEF Families
  <2>2. QED  BY <2>1
<1>2. \A c \in Families : \E p \in 1..(pagecount_ - 1) : c \in Range(Page[p])
  BY DEF Families
<1>3. ASSUME NEW c \in Families  PROVE c \in Nat /\ Singers[c] \in Seq(Nat)
  BY <1>2, SiteAssumption
<1>4. ASSUME NEW c \in Families
      PROVE  DOMAIN Singers[c] = 1..Len(Singers[c]) /\ Len(Singers[c]) \in Nat
  BY <1>3
<1>5. ASSUME NEW c \in Families, NEW n \in DOMAIN Singers[c]
      PROVE  Singers[c][n] \in AllSingers /\ <<c, n>> \in Places
  <2>1. Singers[c][n] \in Range(Singers[c])
    BY DEF Range
  <2>2. Range(Singers[c]) \in {Range(Singers[d]) : d \in Families}
    OBVIOUS
  <2>3. Singers[c][n] \in UNION {Range(Singers[d]) : d \in Families}
    BY <2>1, <2>2
  <2>4. {c} \X DOMAIN Singers[c] \in {{d} \X DOMAIN Singers[d] : d \in Families}
    OBVIOUS
  <2>5. <<c, n>> \in UNION {{d} \X DOMAIN Singers[d] : d \in Families}
    BY <2>4
  <2>6. QED  BY <2>3, <2>5 DEF AllSingers, Places
<1>6. QED  BY <1>1, <1>2, <1>3, <1>4, <1>5, SiteAssumption

(* The next family is the first one later.                                   *)
LEMMA NextFamily ==
  ASSUME TypeOK, Later # {}
  PROVE  /\ Min(Later) \in familyMap /\ Min(Later) \in Families /\ Min(Later) > family
         /\ \A c \in familyMap : c > family => Min(Later) <= c
<1>1. Later \subseteq Nat /\ familyMap \subseteq Families
  BY SiteFacts DEF TypeOK, Later
<1>2. PICK x \in Later : \A y \in Later : <<y, x>> \notin OpToRel(<, Nat)
  BY <1>1, NatLessThanWellFounded, WFMin, Zenon
<1>3. \A y \in Later : ~ (y < x)
  <2>1. \A y \in Later : y \in Nat /\ x \in Nat
    BY <1>1
  <2>2. ASSUME NEW y \in Later, y < x  PROVE FALSE
    <3>1. <<y, x>> \in Nat \X Nat /\ <<y, x>>[1] = y /\ <<y, x>>[2] = x
      BY <2>1
    <3>2. <<y, x>>[1] < <<y, x>>[2]
      BY <2>2
    <3>3. <<y, x>> \in OpToRel(<, Nat)
      BY <3>1, <3>2, Zenon DEF OpToRel
    <3>4. QED  BY <1>2, <3>3, Zenon
  <2>3. QED  BY <2>2
<1>4. \A y \in Later : x =< y
  BY <1>1, <1>3
<1>5. Min(Later) \in Later /\ \A y \in Later : Min(Later) =< y
  BY <1>4 DEF Min
<1>6. QED  BY <1>1, <1>5 DEF Later

(* What the types say of the rows and of the place looked at.                  *)
LEMMA RowFacts ==
  ASSUME TypeOK
  PROVE  /\ familyMap \subseteq Families /\ familyMap \subseteq Nat
         /\ family \in Int /\ nth \in Nat /\ nth >= 1 /\ row \in Nat /\ row >= 1
         /\ file \in Seq(Row) /\ Len(file) \in Nat /\ DOMAIN file = 1..Len(file)
         /\ singerInfoVec \in Seq(Row) /\ Len(singerInfoVec) \in Nat
         /\ \A j \in 1..Len(file) : file[j].clanid \in Nat /\ file[j].nth \in Nat
         /\ \A j \in 1..Len(singerInfoVec) : /\ singerInfoVec[j] \in Row
                                             /\ singerInfoVec[j].clanid \in Nat
                                             /\ singerInfoVec[j].nth \in Nat
<1>1. familyMap \subseteq Families /\ familyMap \subseteq Nat /\ family \in Int
  BY SiteFacts DEF TypeOK, NoFamily
<1>2. /\ file \in Seq(Row) /\ Len(file) \in Nat /\ DOMAIN file = 1..Len(file)
      /\ singerInfoVec \in Seq(Row) /\ Len(singerInfoVec) \in Nat
  BY DEF TypeOK
<1>3. \A r \in Row : r.clanid \in Nat /\ r.nth \in Nat
  BY SiteFacts DEF Row
<1>4. /\ \A j \in 1..Len(file) : file[j] \in Row
      /\ \A j \in 1..Len(singerInfoVec) : singerInfoVec[j] \in Row
  BY <1>2
<1>5. nth \in Nat /\ nth >= 1 /\ row \in Nat /\ row >= 1
  BY DEF TypeOK
<1>6. QED  BY <1>1, <1>2, <1>3, <1>4, <1>5

(* A room of an earlier place is one of an earlier place later on.             *)
LEMMA RoomKept ==
  ASSUME TypeOK, NEW room, NEW f \in Int, NEW m \in Int, NEW g \in Int, NEW n \in Int,
         RoomOfEarlier(room, <<f, m>>), f < g \/ (f = g /\ m <= n)
  PROVE  RoomOfEarlier(room, <<g, n>>)
<1>1. PICK c, k :
        /\ c \in familyMap /\ k \in DOMAIN Singers[c]
        /\ Before(<<c, k>>, <<f, m>>) /\ Singers[c][k] = room
        /\ room \in WithRoom /\ Expired(room)
  BY DEF RoomOfEarlier
<1>2. c \in Int /\ k \in Int
  BY <1>1, SiteFacts DEF TypeOK
<1>3. Before(<<c, k>>, <<g, n>>)
  BY <1>1, <1>2 DEF Before
<1>4. QED  BY <1>1, <1>3 DEF RoomOfEarlier

(* What is right of a row stays right as families become known.                *)
LEMMA RowsKept ==
  ASSUME familyMap \subseteq familyMap'
  PROVE  /\ \A r : RowRight(r) => RowRight(r)'
         /\ \A room, place : RoomOfEarlier(room, place) => RoomOfEarlier(room, place)'
<1>1. \A room, place : RoomOfEarlier(room, place) => RoomOfEarlier(room, place)'
  BY DEF RoomOfEarlier, Expired
<1>2. \A r : RowRight(r) => RowRight(r)'
  BY <1>1 DEF RowRight, Expired
<1>3. QED  BY <1>1, <1>2

(* Before the first page.                                                    *)
LEMMA InitInv == Init => IInv
<1> SUFFICES ASSUME Init  PROVE IInv
  OBVIOUS
<1> USE DEF Init
<1>1. << >> \in Seq(Row) /\ Len(<< >>) = 0
  OBVIOUS
<1>2. TypeOK
  BY <1>1, SiteFacts DEF TypeOK
<1>3. PageInv /\ TurnInv /\ FileOrdered
  BY <1>1, SiteFacts DEF PageInv, TurnInv, FileOrdered
<1>4. RowsInv
  BY <1>1 DEF RowsInv
<1>5. WorkInv
  BY DEF WorkInv
<1>6. QED  BY <1>2, <1>3, <1>4, <1>5 DEF IInv

-----------------------------------------------------------------------------
(* The steps of the pages                                                   *)

(* While the pages are read no family is over.                                *)
LEMMA NotOver == ASSUME family = NoFamily, stage # "true", NEW c \in Families  PROVE ~ Over(c)
BY SiteFacts DEF Over, NoFamily

(* A page: what it says is known, or an entry failed.                         *)
LEMMA PageReadInv == ASSUME IInv, PageRead  PROVE IInv'
<1> USE DEF IInv
<1> PICK bad \in SUBSET Range(Page[i]) :
      /\ familyMap' = familyMap \cup (Range(Page[i]) \ bad)
      /\ unanswered' = unanswered \cup {<<"entry", c>> : c \in bad}
  BY DEF PageRead
<1>1. /\ stage = "pages" /\ i < pagecount_ /\ i' = i + 1 /\ i \in 1..(pagecount_ - 1)
      /\ family = NoFamily
      /\ UNCHANGED <<stage, family, nth, roomid, singerInfoVec, row, file>>
  BY SiteFacts DEF PageRead, TypeOK, PageInv, turnVars, fileVars
<1>2. familyMap' \subseteq Families /\ familyMap \subseteq familyMap' /\ bad \subseteq Families
  BY <1>1, SiteFacts DEF TypeOK
<1>3. {<<"entry", c>> : c \in bad} \subseteq {"entry", "family"} \X Families
  BY <1>2
<1>4. i' \in 1..(IF pagecount_ > 1 THEN pagecount_ ELSE 1)
  BY <1>1, SiteFacts
<1>5. TypeOK'
  BY <1>1, <1>2, <1>3, <1>4 DEF TypeOK, Row
<1>6. PageInv'
  <2>1. ASSUME NEW p \in 1..(pagecount_ - 1), p < i', NEW c \in Range(Page[p])
        PROVE  c \in familyMap' \/ <<"entry", c>> \in unanswered' \/ <<"page", p>> \in unanswered'
    <3>1. CASE p = i
      BY <3>1, <2>1
    <3>2. CASE p < i
      BY <3>2, <2>1, <1>2 DEF PageInv
    <3>3. QED  BY <3>1, <3>2, <2>1, <1>1, SiteFacts
  <2>2. QED  BY <2>1, <1>1 DEF PageInv
<1>7. TurnInv' /\ FileOrdered'
  BY <1>1, <1>2 DEF TurnInv, FileOrdered
<1>8. RowsInv'
  BY <1>1, <1>2, RowsKept DEF RowsInv
<1>9. WorkInv'
  <2>1. ASSUME NEW c \in familyMap'  PROVE ~ Over(c)'
    BY <1>1, <1>2, NotOver DEF Over
  <2>2. QED  BY <2>1, <1>1 DEF WorkInv
<1>10. QED  BY <1>5, <1>6, <1>7, <1>8, <1>9

(* A page that failed.                                                       *)
LEMMA PageSkippedInv == ASSUME IInv, PageSkipped  PROVE IInv'
<1> USE DEF IInv
<1>1. /\ stage = "pages" /\ i < pagecount_ /\ i' = i + 1 /\ i \in 1..(pagecount_ - 1)
      /\ family = NoFamily
      /\ unanswered' = unanswered \cup {<<"page", i>>}
      /\ UNCHANGED <<stage, familyMap, family, nth, roomid, singerInfoVec, row, file>>
  BY SiteFacts DEF PageSkipped, TypeOK, PageInv, turnVars, fileVars
<1>2. <<"page", i>> \in {"page"} \X (1..pagecount_)
  BY <1>1, SiteFacts
<1>3. i' \in 1..(IF pagecount_ > 1 THEN pagecount_ ELSE 1)
  BY <1>1, SiteFacts
<1>4. TypeOK'
  BY <1>1, <1>2, <1>3 DEF TypeOK, Row
<1>5. PageInv'
  <2>1. ASSUME NEW p \in 1..(pagecount_ - 1), p < i', NEW c \in Range(Page[p])
        PROVE  c \in familyMap' \/ <<"entry", c>> \in unanswered' \/ <<"page", p>> \in unanswered'
    <3>1. CASE p = i
      BY <3>1, <1>1
    <3>2. CASE p < i
      BY <3>2, <2>1, <1>1 DEF PageInv
    <3>3. QED  BY <3>1, <3>2, <2>1, <1>1, SiteFacts
  <2>2. QED  BY <2>1, <1>1 DEF PageInv
<1>6. TurnInv' /\ FileOrdered'
  BY <1>1 DEF TurnInv, FileOrdered
<1>7. RowsInv'
  BY <1>1, RowsKept DEF RowsInv
<1>8. WorkInv'
  <2>1. ASSUME NEW c \in familyMap'  PROVE ~ Over(c)'
    BY <1>1, NotOver DEF Over, TypeOK
  <2>2. QED  BY <2>1, <1>1 DEF WorkInv
<1>9. QED  BY <1>4, <1>5, <1>6, <1>7, <1>8

(* Steps that only change the stage.                                          *)
LEMMA StageInv ==
  ASSUME IInv, PageHasNoBrackets \/ PagesRead \/ SearchEnds \/ Throw \/ UNCHANGED vars
  PROVE  IInv'
<1> USE DEF IInv
<1>1. UNCHANGED <<i, familyMap, family, nth, roomid, singerInfoVec, row, file, unanswered>>
  BY DEF PageHasNoBrackets, PagesRead, SearchEnds, Throw, vars, pageVars, turnVars, fileVars
<1>2. \/ stage = "pages" /\ stage' = "false"
      \/ stage = "pages" /\ stage' = "family" /\ i >= pagecount_
      \/ stage = "family" /\ stage' = "true" /\ Later = {}
      \/ stage' = "thrown"
      \/ stage' = stage
  BY DEF PageHasNoBrackets, PagesRead, SearchEnds, Throw, vars
<1>3. TypeOK'
  BY <1>1, <1>2 DEF TypeOK, Row
<1>4. PageInv'
  <2>1. UNCHANGED stage \/ stage' = "thrown" \/ stage = "pages" \/ stage = "family"
    BY <1>2
  <2>2. QED  BY <1>1, <1>2 DEF PageInv
<1>5. TurnInv' /\ FileOrdered'
  BY <1>1, <1>2 DEF TurnInv, FileOrdered
<1>6. RowsInv'
  BY <1>1, RowsKept DEF RowsInv
<1>7. WorkInv'
  <2>1. ASSUME NEW c \in familyMap, Over(c)'  PROVE Over(c)
    <3>1. c \in Families /\ c \in Nat
      BY SiteFacts DEF TypeOK
    <3>2. CASE stage = "pages" /\ stage' \in {"false", "family"}
      BY <3>1, <3>2, <2>1, <1>1, SiteFacts DEF Over, PageInv, NoFamily
    <3>3. CASE stage = "family" /\ stage' = "true" /\ Later = {}
      <4>1. ~ (c > family)
        BY <3>3 DEF Later
      <4>2. QED  BY <3>1, <3>3, <4>1, RowFacts DEF Over
    <3>4. CASE stage' = "thrown" \/ stage' = stage
      BY <3>4, <2>1, <1>1 DEF Over
    <3>5. QED  BY <3>2, <3>3, <3>4, <1>2
  <2>2. (stage' = "profiles" => stage = "profiles") /\ (stage' = "write" => stage = "write")
    BY <1>2
  <2>3. \A c, n : Written(c, n)' = Written(c, n)
    BY <1>1 DEF Written, Cause
  <2>4. QED  BY <1>1, <2>1, <2>2, <2>3 DEF WorkInv, Expired
<1>8. QED  BY <1>3, <1>4, <1>5, <1>6, <1>7

-----------------------------------------------------------------------------
(* The steps of the families                                                *)

(* What a turn that begins finds, whether the singers come or not: the rows of   *)
(* the file are of families before it, and so is the room remembered.           *)
LEMMA NextTurn ==
  ASSUME IInv, stage = "family", Later # {}, family' = Min(Later), nth' \in Nat,
         familyMap' = familyMap, roomid' = roomid
  PROVE  /\ family' \in familyMap /\ family' \in Families /\ family' \in Nat /\ family < family'
         /\ \A c \in familyMap : c > family => family' <= c
         /\ \A j \in 1..Len(file) : file[j].clanid < family'
         /\ roomid' = Junk \/ RoomOfEarlier(roomid, <<family, nth>>)'
<1> USE DEF IInv
<1>1. /\ family' \in familyMap /\ family' \in Families /\ family < family'
      /\ \A c \in familyMap : c > family => family' <= c
  BY NextFamily
<1>2. family' \in Nat /\ family \in Int /\ nth \in Int
  BY <1>1, SiteFacts, RowFacts
<1>3. \A j \in 1..Len(file) : file[j].clanid < family'
  <2>1. \A j \in 1..Len(file) : file[j].clanid \in Nat /\ file[j].clanid <= family
    BY RowFacts DEF TurnInv
  <2>2. QED  BY <2>1, <1>1, <1>2
<1>4. ASSUME RoomOfEarlier(roomid, <<family, nth>>)
      PROVE  RoomOfEarlier(roomid, <<family, nth>>)'
  <2>1. RoomOfEarlier(roomid, <<family', nth'>>)
    BY <1>1, <1>2, <1>4, RoomKept
  <2>2. QED  BY <2>1, <1>1 DEF RoomOfEarlier, Expired, Before
<1>5. QED  BY <1>1, <1>2, <1>3, <1>4 DEF RowsInv

(* The next family's turn begins at the head of its list.                      *)
LEMMA GetAllSingersInv == ASSUME IInv, GetAllSingers  PROVE IInv'
<1> USE DEF IInv
<1>1. /\ stage = "family" /\ stage' = "profiles" /\ singerInfoVec = << >>
      /\ Later # {} /\ family' = Min(Later) /\ nth' = 1
      /\ UNCHANGED <<i, familyMap, roomid, singerInfoVec, row, file, unanswered>>
  BY DEF GetAllSingers, TurnInv, pageVars, fileVars
<1>2. /\ family' \in familyMap /\ family' \in Families /\ family' \in Nat /\ family < family'
      /\ \A c \in familyMap : c > family => family' <= c
      /\ \A j \in 1..Len(file) : file[j].clanid < family'
      /\ roomid' = Junk \/ RoomOfEarlier(roomid, <<family, nth>>)'
  BY <1>1, NextTurn
<1>3. /\ family \in Int /\ familyMap \subseteq Nat /\ Len(<< >>) = 0
      /\ \A j \in 1..Len(file) : file[j].clanid \in Nat
      /\ \A n \in DOMAIN Singers[family'] : ~ (n < 1)
  BY <1>2, SiteFacts, RowFacts
<1>4. TypeOK'
  BY <1>1, <1>2 DEF TypeOK, Row
<1>5. PageInv'
  BY <1>1 DEF PageInv
<1>6. TurnInv' /\ FileOrdered'
  BY <1>1, <1>2, <1>3 DEF TurnInv, FileOrdered
<1>7. RowsInv'
  BY <1>1, <1>2, RowsKept DEF RowsInv
<1>8. WorkInv'
  <2>1. ASSUME NEW c \in familyMap, Over(c)'  PROVE Over(c)
    BY <2>1, <1>1, <1>2, <1>3 DEF Over
  <2>2. \A c, n : Written(c, n)' = Written(c, n)
    BY <1>1 DEF Written, Cause
  <2>3. QED  BY <1>1, <1>3, <2>1, <2>2 DEF WorkInv, Expired
<1>9. QED  BY <1>4, <1>5, <1>6, <1>7, <1>8

(* A family whose singers do not come is over at once.                         *)
LEMMA GetAllSingersFailsInv == ASSUME IInv, GetAllSingersFails  PROVE IInv'
<1> USE DEF IInv
<1> DEFINE c0 == Min(Later)
<1>1. /\ stage = "family" /\ singerInfoVec = << >> /\ Later # {} /\ family' = c0
      /\ unanswered' = unanswered \cup {<<"family", c0>>}
      /\ UNCHANGED <<stage, i, familyMap, nth, roomid, singerInfoVec, row, file>>
  BY DEF GetAllSingersFails, TurnInv, pageVars, fileVars
<1>2. /\ c0 \in familyMap /\ c0 \in Families /\ c0 \in Nat /\ family < c0
      /\ \A c \in familyMap : c > family => c0 <= c
      /\ \A j \in 1..Len(file) : file[j].clanid < c0
      /\ roomid' = Junk \/ RoomOfEarlier(roomid, <<family, nth>>)'
  <2>1. nth' \in Nat
    BY <1>1, RowFacts
  <2>2. QED  BY <1>1, <2>1, NextTurn
<1> HIDE DEF c0
<1>3. /\ family \in Int /\ familyMap \subseteq Nat /\ Len(<< >>) = 0
      /\ \A j \in 1..Len(file) : file[j].clanid \in Nat
  BY RowFacts
<1>4. TypeOK'
  BY <1>1, <1>2 DEF TypeOK, Row
<1>5. PageInv'
  BY <1>1 DEF PageInv
<1>6. TurnInv' /\ FileOrdered'
  BY <1>1, <1>2, <1>3 DEF TurnInv, FileOrdered
<1>7. RowsInv'
  BY <1>1, <1>2, RowsKept DEF RowsInv
<1>8. WorkInv'
  <2>1. ASSUME NEW c \in familyMap, Over(c)'  PROVE Over(c) \/ c = c0
    BY <2>1, <1>1, <1>2, <1>3 DEF Over
  <2>2. \A c, n : Written(c, n) => Written(c, n)'
    BY <1>1 DEF Written, Cause
  <2>3. ASSUME NEW c, c = c0, NEW n  PROVE Written(c, n)'
    <3>1. <<"family", c>> \in unanswered'
      BY <1>1, <2>3
    <3>2. <<"family", c>> \in Cause(c, n)'
      BY <1>1, <1>2, <2>3 DEF Cause
    <3>3. QED  BY <3>1, <3>2 DEF Written
  <2>4. ASSUME NEW c \in familyMap, Over(c)', NEW n \in DOMAIN Singers[c],
               Expired(Singers[c][n])
        PROVE  Written(c, n)'
    <3>1. CASE Over(c)
      BY <2>2, <2>4, <3>1 DEF WorkInv
    <3>2. CASE c = c0
      BY <2>3, <3>2
    <3>3. QED  BY <2>1, <2>4, <3>1, <3>2
  <2>5. QED  BY <1>1, <2>4 DEF WorkInv, Expired
<1>9. QED  BY <1>4, <1>5, <1>6, <1>7, <1>8

-----------------------------------------------------------------------------
(* The steps of the profiles                                                *)

(* What every outcome of a profile keeps: all but the rows and the work.        *)
LEMMA ProfileKeeps ==
  ASSUME IInv, stage = "profiles", nth' = nth + 1, unanswered \subseteq unanswered',
         UNCHANGED <<stage, i, familyMap, family, row, file>>
  PROVE  /\ PageInv' /\ FileOrdered' /\ nth \in Nat /\ nth' \in Nat \ {0}
         /\ \A j \in 1..Len(file) : file[j].clanid < family
         /\ \A j \in 1..Len(file) : RowRight(file[j])'
         /\ \A c \in familyMap : Over(c)' =>
              \A n \in DOMAIN Singers[c] : Expired(Singers[c][n]) => Written(c, n)'
<1> USE DEF IInv
<1>1. PageInv' /\ FileOrdered'
  BY DEF PageInv, FileOrdered
<1>2. nth \in Nat /\ nth' \in Nat \ {0}
  BY RowFacts
<1>3. \A j \in 1..Len(file) : file[j].clanid < family
  BY DEF TurnInv
<1>4. \A j \in 1..Len(file) : RowRight(file[j])'
  BY RowsKept DEF RowsInv
<1>5. ASSUME NEW c \in familyMap, Over(c)', NEW n \in DOMAIN Singers[c], Expired(Singers[c][n])
      PROVE  Written(c, n)'
  <2>1. Over(c)
    BY <1>5 DEF Over
  <2>2. Written(c, n)
    BY <1>5, <2>1 DEF WorkInv
  <2>3. QED  BY <2>2 DEF Written, Cause
<1>6. QED  BY <1>1, <1>2, <1>3, <1>4, <1>5

(* A place without a row is passed: its profile has no date, or its singer is    *)
(* not expired.                                                             *)
LEMMA PassedInv ==
  ASSUME IInv, stage = "profiles", More, nth' = nth + 1,
         unanswered' \in {unanswered, unanswered \cup {<<"profile", <<family, nth>>>>}},
         Expired(Singers[family][nth]) => <<"profile", <<family, nth>>>> \in unanswered',
         UNCHANGED <<stage, i, familyMap, family, roomid, singerInfoVec, row, file>>
  PROVE  IInv'
<1> USE DEF IInv
<1>1. /\ PageInv' /\ FileOrdered' /\ nth \in Nat /\ nth' \in Nat \ {0}
      /\ \A j \in 1..Len(file) : file[j].clanid < family
      /\ \A j \in 1..Len(file) : RowRight(file[j])'
      /\ \A c \in familyMap : Over(c)' =>
           \A n \in DOMAIN Singers[c] : Expired(Singers[c][n]) => Written(c, n)'
  BY ProfileKeeps
<1>2. family \in familyMap /\ family \in Families /\ family \in Int
  BY RowFacts DEF TurnInv
<1>3. TypeOK'
  <2>1. <<"profile", <<family, nth>>>> \in {"profile", "file"} \X Places
    BY <1>2, SiteFacts DEF More
  <2>2. unanswered' \subseteq ({"page"} \X (1..pagecount_)) \cup ({"entry", "family"} \X Families)
                              \cup ({"profile", "file"} \X Places)
    BY <2>1 DEF TypeOK
  <2>3. QED  BY <1>1, <2>2 DEF TypeOK, Row
<1>4. TurnInv'
  <2>1. \A j \in 1..Len(singerInfoVec) : singerInfoVec[j].nth < nth + 1
    BY <1>1, RowFacts DEF TurnInv
  <2>2. QED  BY <2>1 DEF TurnInv
<1>5. RowsInv'
  <2>1. roomid = Junk \/ RoomOfEarlier(roomid, <<family, nth + 1>>)
    BY <1>1, <1>2, RoomKept DEF RowsInv
  <2>2. QED  BY <1>1, <2>1, RowsKept DEF RowsInv
<1>6. WorkInv'
  <2>1. ASSUME NEW n \in DOMAIN Singers[family], n < nth', Expired(Singers[family][n])
        PROVE  \/ \E j \in 1..Len(singerInfoVec) : singerInfoVec[j].nth = n
               \/ <<"profile", <<family, n>>>> \in unanswered'
    <3>1. n \in Int
      BY <1>2, SiteFacts
    <3>2. CASE n = nth
      BY <3>2, <2>1
    <3>3. CASE n < nth
      BY <3>3, <2>1 DEF WorkInv
    <3>4. QED  BY <3>1, <3>2, <3>3, <2>1, <1>1
  <2>2. QED  BY <2>1, <1>1 DEF WorkInv, Expired
<1>7. QED  BY <1>1, <1>3, <1>4, <1>5, <1>6

LEMMA ProfileWithoutDateInv == ASSUME IInv, ProfileWithoutDate  PROVE IInv'
BY PassedInv DEF ProfileWithoutDate, pageVars, fileVars

LEMMA RowNotDue == ASSUME IInv, GetSingsInfos, ~ Expired(Singers[family][nth])  PROVE IInv'
BY PassedInv DEF GetSingsInfos, pageVars, fileVars

(* An expired singer's profile gives a row.                                    *)
LEMMA RowAdded == ASSUME IInv, GetSingsInfos, Expired(Singers[family][nth])  PROVE IInv'
<1> USE DEF IInv
<1> DEFINE s == Singers[family][nth]
<1>1. PICK room \in RoomParsed(s) :
        /\ roomid' = room
        /\ singerInfoVec' = Append(singerInfoVec,
             [clanid |-> family, nth |-> nth, userid |-> s, roomid |-> room])
  BY DEF GetSingsInfos
<1> DEFINE r == [clanid |-> family, nth |-> nth, userid |-> s, roomid |-> room]
<1>2. /\ stage = "profiles" /\ More /\ nth' = nth + 1 /\ singerInfoVec' = Append(singerInfoVec, r)
      /\ UNCHANGED <<stage, i, familyMap, family, row, file, unanswered>>
  BY <1>1 DEF GetSingsInfos, pageVars, fileVars
<1>3. /\ PageInv' /\ FileOrdered' /\ nth \in Nat /\ nth' \in Nat \ {0}
      /\ \A j \in 1..Len(file) : file[j].clanid < family
      /\ \A j \in 1..Len(file) : RowRight(file[j])'
      /\ \A c \in familyMap : Over(c)' =>
           \A n \in DOMAIN Singers[c] : Expired(Singers[c][n]) => Written(c, n)'
  BY <1>2, ProfileKeeps
<1>4. /\ family \in familyMap /\ family \in Families /\ family \in Int
      /\ nth \in DOMAIN Singers[family] /\ s \in AllSingers /\ nth \in Nat \ {0}
  <2>1. family \in familyMap /\ family \in Families /\ family \in Int /\ nth \in Nat \ {0}
    BY <1>2, RowFacts DEF TurnInv
  <2>2. nth \in DOMAIN Singers[family]
    BY <1>2 DEF More
  <2>3. QED  BY <2>1, <2>2, SiteFacts
<1>5. room \in AllSingers \cup {Junk}
  BY <1>4 DEF RoomParsed, TypeOK
<1>6. /\ r \in Row
      /\ r.clanid = family /\ r.nth = nth /\ r.userid = s /\ r.roomid = room
  BY <1>4, <1>5 DEF Row
<1>7. RowRight(r)
  <2>1. Expired(s) /\ Place(r) = <<family, nth>>
    BY <1>6 DEF Place
  <2>2. CASE s \in WithRoom
    BY <1>4, <1>6, <2>1, <2>2 DEF RowRight, RoomParsed
  <2>3. CASE s \notin WithRoom
    <3>1. room = Junk \/ RoomOfEarlier(room, Place(r))
      BY <2>1, <2>3 DEF RoomParsed, RowsInv
    <3>2. QED  BY <1>4, <1>6, <2>1, <2>3, <3>1 DEF RowRight
  <2>4. QED  BY <2>2, <2>3
<1>8. room = Junk \/ RoomOfEarlier(room, <<family, nth + 1>>)
  <2>1. CASE s \in WithRoom
    <3>1. room = s /\ Before(<<family, nth>>, <<family, nth + 1>>)
      BY <1>3, <2>1 DEF RoomParsed, Before
    <3>2. QED  BY <1>4, <2>1, <3>1 DEF RoomOfEarlier
  <2>2. CASE s \notin WithRoom
    <3>1. room = Junk \/ RoomOfEarlier(room, <<family, nth>>)
      BY <2>2 DEF RoomParsed, RowsInv
    <3>2. QED  BY <1>3, <1>4, <3>1, RoomKept
  <2>3. QED  BY <2>1, <2>2
<1> HIDE DEF s, r
<1>9. /\ Len(singerInfoVec) \in Nat
      /\ singerInfoVec' \in Seq(Row) /\ Len(singerInfoVec') = Len(singerInfoVec) + 1
      /\ singerInfoVec'[Len(singerInfoVec) + 1] = r
      /\ \A j \in 1..Len(singerInfoVec) :
           j \in 1..Len(singerInfoVec') /\ singerInfoVec'[j] = singerInfoVec[j]
      /\ \A j \in 1..Len(singerInfoVec') : j \in 1..Len(singerInfoVec) \/ j = Len(singerInfoVec) + 1
  BY <1>2, <1>6, RowFacts, AppendProperties
<1>10. TypeOK'
  BY <1>1, <1>2, <1>3, <1>5, <1>9 DEF TypeOK, Row
<1>11. TurnInv'
  <2>1. \A j \in 1..Len(singerInfoVec) :
          singerInfoVec[j].clanid = family /\ singerInfoVec[j].nth \in Nat
                                           /\ singerInfoVec[j].nth < nth
    BY RowFacts DEF TurnInv
  <2>2. ASSUME NEW j \in 1..Len(singerInfoVec')
        PROVE  singerInfoVec'[j].clanid = family /\ singerInfoVec'[j].nth < nth'
    BY <1>2, <1>3, <1>6, <1>9, <2>1
  <2>3. ASSUME NEW j \in 1..Len(singerInfoVec'), NEW k \in 1..Len(singerInfoVec'), j < k
        PROVE  singerInfoVec'[j].nth < singerInfoVec'[k].nth
    <3>1. j \in 1..Len(singerInfoVec)
      BY <1>9, <2>3
    <3>2. CASE k \in 1..Len(singerInfoVec)
      BY <1>9, <2>3, <3>1, <3>2 DEF TurnInv
    <3>3. CASE k = Len(singerInfoVec) + 1
      BY <1>6, <1>9, <2>1, <3>1, <3>3
    <3>4. QED  BY <1>9, <3>2, <3>3
  <2>4. QED  BY <1>2, <1>3, <1>4, <2>2, <2>3 DEF TurnInv
<1>12. RowsInv'
  <2>1. \A j \in 1..Len(singerInfoVec') : RowRight(singerInfoVec'[j])
    BY <1>7, <1>9 DEF RowsInv
  <2>2. QED  BY <1>1, <1>2, <1>3, <1>8, <2>1, RowsKept DEF RowsInv
<1>13. WorkInv'
  <2>1. ASSUME NEW n \in DOMAIN Singers[family], n < nth', Expired(Singers[family][n])
        PROVE  \/ \E j \in 1..Len(singerInfoVec') : singerInfoVec'[j].nth = n
               \/ <<"profile", <<family, n>>>> \in unanswered
    <3>1. n \in Int
      BY <1>4, SiteFacts
    <3>2. CASE n = nth
      <4>1. Len(singerInfoVec) + 1 \in 1..Len(singerInfoVec')
        BY <1>9
      <4>2. QED  BY <3>2, <4>1, <1>6, <1>9
    <3>3. CASE n < nth
      BY <3>3, <2>1, <1>2, <1>9 DEF WorkInv
    <3>4. QED  BY <3>1, <3>2, <3>3, <2>1, <1>2, <1>3
  <2>2. QED  BY <2>1, <1>2, <1>3 DEF WorkInv, Expired
<1>14. QED  BY <1>3, <1>10, <1>11, <1>12, <1>13

-----------------------------------------------------------------------------
(* The end of a turn                                                        *)

(* The list is at its end, and none of the rows is written.                    *)
LEMMA WriteToFileInv == ASSUME IInv, WriteToFile  PROVE IInv'
<1> USE DEF IInv
<1>1. /\ stage = "profiles" /\ ~ More /\ stage' = "write" /\ row' = 1
      /\ UNCHANGED <<i, familyMap, family, nth, roomid, singerInfoVec, file, unanswered>>
  BY DEF WriteToFile, pageVars, turnVars
<1>2. TypeOK' /\ PageInv' /\ FileOrdered'
  BY <1>1 DEF TypeOK, Row, PageInv, FileOrdered
<1>3. TurnInv'
  <2>1. ASSUME NEW j \in 1..Len(file), NEW k \in 1..Len(singerInfoVec)
        PROVE  Before(Place(file[j]), Place(singerInfoVec[k]))
    <3>1. file[j].clanid < singerInfoVec[k].clanid
      BY <1>1 DEF TurnInv
    <3>2. QED  BY <3>1 DEF Before, Place
  <2>2. QED  BY <1>1, <2>1 DEF TurnInv, Before, Place
<1>4. RowsInv'
  BY <1>1, RowsKept DEF RowsInv
<1>5. WorkInv'
  <2>1. ASSUME NEW n \in DOMAIN Singers[family], Expired(Singers[family][n])
        PROVE  \/ \E j \in 1..Len(singerInfoVec) : j >= row' /\ singerInfoVec[j].nth = n
               \/ Written(family, n)
    <3>1. n < nth
      <4>1. family \in Families /\ nth \in Nat /\ nth >= 1
        BY <1>1, RowFacts DEF TurnInv
      <4>2. QED  BY <1>1, <4>1, SiteFacts DEF More
    <3>2. \/ \E j \in 1..Len(singerInfoVec) : singerInfoVec[j].nth = n
          \/ <<"profile", <<family, n>>>> \in unanswered
      BY <1>1, <2>1, <3>1 DEF WorkInv
    <3>3. CASE <<"profile", <<family, n>>>> \in unanswered
      BY <1>1, <3>3 DEF Written, Cause, TurnInv
    <3>4. QED  BY <1>1, <3>2, <3>3
  <2>2. \A c, n : Written(c, n)' = Written(c, n)
    BY <1>1 DEF Written, Cause
  <2>3. ASSUME NEW c \in familyMap, Over(c)'  PROVE Over(c)
    BY <2>3, <1>1 DEF Over
  <2>4. QED  BY <1>1, <2>1, <2>2, <2>3 DEF WorkInv, Expired
<1>6. QED  BY <1>2, <1>3, <1>4, <1>5

(* A row is appended to the file, or lost.                                     *)
LEMMA WriteRowInv == ASSUME IInv, WriteRow  PROVE IInv'
<1> USE DEF IInv
<1> DEFINE r == singerInfoVec[row]
<1>1. /\ stage = "write" /\ row <= Len(singerInfoVec) /\ row' = row + 1
      /\ UNCHANGED <<stage, i, familyMap, family, nth, roomid, singerInfoVec>>
  BY DEF WriteRow, pageVars, turnVars
<1>2. \/ file' = Append(file, r) /\ unanswered' = unanswered
      \/ file' = file /\ unanswered' = unanswered \cup {<<"file", <<r.clanid, r.nth>>>>}
  BY DEF WriteRow
<1>3. /\ row \in 1..Len(singerInfoVec) /\ row \in Nat /\ Len(singerInfoVec) \in Nat
      /\ r \in Row /\ RowRight(r) /\ r.clanid = family /\ r.nth \in Nat
      /\ family \in familyMap /\ family \in Families /\ family \in Int
      /\ r.nth \in DOMAIN Singers[family]
  <2>1. row \in 1..Len(singerInfoVec) /\ row \in Nat /\ Len(singerInfoVec) \in Nat
    BY <1>1, RowFacts
  <2>2. r \in Row /\ RowRight(r) /\ r.clanid = family /\ r.nth \in Nat
    BY <2>1, RowFacts DEF RowsInv, TurnInv
  <2>3. QED  BY <1>1, <2>1, <2>2, RowFacts DEF TurnInv, RowRight
<1> HIDE DEF r
<1>4. /\ unanswered \subseteq unanswered'
      /\ file' \in Seq(Row) /\ Len(file) \in Nat /\ Len(file') \in {Len(file), Len(file) + 1}
      /\ \A j \in 1..Len(file) : j \in 1..Len(file') /\ file'[j] = file[j]
      /\ \A j \in 1..Len(file') :
           j \in 1..Len(file) \/ (j = Len(file) + 1 /\ file'[j] = r)
  <2>1. CASE file' = Append(file, r) /\ unanswered' = unanswered
    BY <1>3, <2>1, RowFacts, AppendProperties
  <2>2. CASE file' = file /\ unanswered' = unanswered \cup {<<"file", <<r.clanid, r.nth>>>>}
    BY <2>2, RowFacts
  <2>3. QED  BY <1>2, <2>1, <2>2
<1>5. TypeOK'
  <2>1. <<"file", <<r.clanid, r.nth>>>> \in {"profile", "file"} \X Places
    BY <1>3, SiteFacts
  <2>2. unanswered' \subseteq ({"page"} \X (1..pagecount_)) \cup ({"entry", "family"} \X Families)
                              \cup ({"profile", "file"} \X Places)
    BY <1>2, <2>1 DEF TypeOK
  <2>3. QED  BY <1>1, <1>3, <1>4, <2>2 DEF TypeOK, Row
<1>6. PageInv'
  BY <1>1, <1>4 DEF PageInv
<1>7. ASSUME NEW j \in 1..Len(file)  PROVE Before(Place(file[j]), Place(r))
  BY <1>1, <1>3 DEF TurnInv, r
<1>8. TurnInv'
  <2>1. ASSUME NEW j \in 1..Len(file'), NEW k \in 1..Len(singerInfoVec), k >= row'
        PROVE  Before(Place(file'[j]), Place(singerInfoVec[k]))
    <3>1. CASE j \in 1..Len(file)
      BY <1>1, <1>3, <1>4, <2>1, <3>1 DEF TurnInv
    <3>2. CASE j = Len(file) + 1 /\ file'[j] = r
      <4>1. row < k /\ singerInfoVec[k].clanid = family
        BY <1>1, <1>3, <2>1 DEF TurnInv
      <4>2. r.nth < singerInfoVec[k].nth
        BY <1>3, <4>1 DEF TurnInv, r
      <4>3. QED  BY <1>3, <3>2, <4>1, <4>2 DEF Before, Place
    <3>3. QED  BY <1>4, <3>1, <3>2
  <2>2. \A j \in 1..Len(file') : file'[j].clanid <= family
    BY <1>3, <1>4 DEF TurnInv
  <2>3. QED  BY <1>1, <2>1, <2>2 DEF TurnInv, Before, Place
<1>9. FileOrdered'
  <2>1. ASSUME NEW j \in 1..Len(file'), NEW k \in 1..Len(file'), j < k
        PROVE  Before(Place(file'[j]), Place(file'[k]))
    <3>1. j \in 1..Len(file)
      BY <1>4, <2>1
    <3>2. QED  BY <1>4, <1>7, <2>1, <3>1 DEF FileOrdered
  <2>2. QED  BY <2>1 DEF FileOrdered, Before, Place
<1>10. RowsInv'
  <2>1. \A j \in 1..Len(file') : RowRight(file'[j])
    BY <1>3, <1>4 DEF RowsInv
  <2>2. QED  BY <1>1, <2>1, RowsKept DEF RowsInv
<1>11. WorkInv'
  <2>1. \A c, n : Written(c, n) => Written(c, n)'
    BY <1>1, <1>4 DEF Written, Cause
  <2>2. ASSUME NEW n, n = r.nth  PROVE Written(family, n)'
    <3>1. CASE file' = Append(file, r)
      <4>1. Len(file) + 1 \in 1..Len(file') /\ file'[Len(file) + 1] = r
        BY <1>3, <3>1, RowFacts, AppendProperties
      <4>2. QED  BY <1>1, <1>3, <2>2, <4>1 DEF Written
    <3>2. CASE unanswered' = unanswered \cup {<<"file", <<r.clanid, r.nth>>>>}
      <4>1. <<"file", <<family, n>>>> \in unanswered'
        BY <1>3, <2>2, <3>2
      <4>2. <<"file", <<family, n>>>> \in Cause(family, n)'
        BY <1>1, <1>3 DEF Cause
      <4>3. QED  BY <4>1, <4>2 DEF Written
    <3>3. QED  BY <1>2, <3>1, <3>2
  <2>3. ASSUME NEW n \in DOMAIN Singers[family], Expired(Singers[family][n])
        PROVE  \/ \E j \in 1..Len(singerInfoVec) : j >= row' /\ singerInfoVec[j].nth = n
               \/ Written(family, n)'
    <3>1. CASE Written(family, n)
      BY <1>1, <1>4, <3>1 DEF Written, Cause
    <3>2. ASSUME NEW j \in 1..Len(singerInfoVec), j >= row, singerInfoVec[j].nth = n
          PROVE  j >= row' \/ Written(family, n)'
      <4>1. CASE j = row
        BY <2>2, <3>2, <4>1 DEF r
      <4>2. QED  BY <1>1, <1>3, <3>2, <4>1
    <3>3. QED  BY <1>1, <2>3, <3>1, <3>2 DEF WorkInv
  <2>4. ASSUME NEW c \in familyMap, Over(c)'  PROVE Over(c)
    BY <2>4, <1>1 DEF Over
  <2>5. QED  BY <1>1, <2>1, <2>3, <2>4 DEF WorkInv, Expired
<1>12. QED  BY <1>5, <1>6, <1>8, <1>9, <1>10, <1>11

(* Every row is written or lost: the family is over.                           *)
LEMMA WriteEndsInv == ASSUME IInv, WriteEnds  PROVE IInv'
<1> USE DEF IInv
<1>1. /\ stage = "write" /\ row > Len(singerInfoVec) /\ stage' = "family"
      /\ singerInfoVec' = << >> /\ Len(singerInfoVec') = 0
      /\ UNCHANGED <<i, familyMap, family, nth, roomid, row, file, unanswered>>
  BY DEF WriteEnds, pageVars, fileVars
<1>2. TypeOK' /\ PageInv' /\ FileOrdered'
  BY <1>1 DEF TypeOK, Row, PageInv, FileOrdered
<1>3. TurnInv'
  BY <1>1 DEF TurnInv
<1>4. RowsInv'
  BY <1>1, RowsKept DEF RowsInv
<1>5. WorkInv'
  <2>1. ASSUME NEW n \in DOMAIN Singers[family], Expired(Singers[family][n])
        PROVE  Written(family, n)
    <3>1. \A j \in 1..Len(singerInfoVec) : ~ (j >= row)
      BY <1>1, RowFacts
    <3>2. QED  BY <1>1, <2>1, <3>1 DEF WorkInv
  <2>2. \A c, n : Written(c, n)' = Written(c, n)
    BY <1>1 DEF Written, Cause
  <2>3. ASSUME NEW c \in familyMap, Over(c)'  PROVE Over(c) \/ c = family
    BY <2>3, <1>1 DEF Over
  <2>4. QED  BY <1>1, <2>1, <2>2, <2>3 DEF WorkInv, Expired
<1>6. QED  BY <1>2, <1>3, <1>4, <1>5

-----------------------------------------------------------------------------
(* The theorems                                                             *)

(* Every step keeps the invariant.                                             *)
THEOREM InvCorrect == Spec => []IInv
<1>1. Init => IInv
  BY InitInv
<1>2. IInv /\ [Next]_vars => IInv'
  <2> SUFFICES ASSUME IInv, [Next]_vars  PROVE IInv'
    OBVIOUS
  <2>1. CASE GetAllFamilyInfo
    BY <2>1, PageReadInv, PageSkippedInv, StageInv DEF GetAllFamilyInfo
  <2>2. CASE PagesRead \/ SearchEnds \/ Throw \/ UNCHANGED vars
    BY <2>2, StageInv
  <2>3. CASE GetAllSingers
    BY <2>3, GetAllSingersInv
  <2>4. CASE GetAllSingersFails
    BY <2>4, GetAllSingersFailsInv
  <2>5. CASE GetSingsInfos
    BY <2>5, RowAdded, RowNotDue
  <2>6. CASE ProfileWithoutDate
    BY <2>6, ProfileWithoutDateInv
  <2>7. CASE WriteToFile
    BY <2>7, WriteToFileInv
  <2>8. CASE WriteRow
    BY <2>8, WriteRowInv
  <2>9. CASE WriteEnds
    BY <2>9, WriteEndsInv
  <2>10. QED
    BY <2>1, <2>2, <2>3, <2>4, <2>5, <2>6, <2>7, <2>8, <2>9 DEF Next
<1>3. QED  BY <1>1, <1>2, PTL DEF Spec

(* SearchHelper::Run: the variables have their types.                           *)
THEOREM TypeCorrect == Spec => []TypeOK
<1>1. IInv => TypeOK
  BY DEF IInv
<1>2. QED  BY <1>1, InvCorrect, PTL

(* WriteToFile: whatever failed, and whether or not a list repeats a singer, no   *)
(* place of a list has two rows and the rows stand in order; each is of an        *)
(* expired singer of a known family, with the room of its profile if that shows   *)
(* one, and else with nothing but junk or a room of somebody earlier.            *)
THEOREM RowsCorrect == Spec => []RowsRight
<1>1. IInv => RowsRight
  <2> SUFFICES ASSUME IInv  PROVE RowsRight
    OBVIOUS
  <2>1. DOMAIN file = 1..Len(file)
    BY RowFacts DEF IInv
  <2>2. QED  BY <2>1 DEF IInv, RowsInv, FileOrdered, RowsRight
<1>2. QED  BY <1>1, InvCorrect, PTL

(* GetExpiredFamilySingers: when a family's turn is over, each of its expired     *)
(* singers is in the file, or something failed that the singer depends on.       *)
THEOREM WrittenCorrect == Spec => []FinishedFamiliesWritten
<1>1. IInv => FinishedFamiliesWritten
  <2> SUFFICES ASSUME IInv, NEW c \in Families, Over(c),
                      NEW n \in DOMAIN Singers[c], Expired(Singers[c][n])
               PROVE  \/ \E j \in DOMAIN file : Place(file[j]) = <<c, n>>
                      \/ unanswered \cap Cause(c, n) # {}
    BY DEF FinishedFamiliesWritten
  <2> USE DEF IInv
  <2>1. CASE c \in familyMap
    <3>1. DOMAIN file = 1..Len(file)
      BY RowFacts
    <3>2. Written(c, n)
      BY <2>1 DEF WorkInv
    <3>3. QED  BY <3>1, <3>2 DEF Written, Place
  <2>2. CASE c \notin familyMap
    <3>1. i >= pagecount_
      BY NotOver DEF PageInv
    <3>2. PICK p \in 1..(pagecount_ - 1) : c \in Range(Page[p])
      BY SiteFacts
    <3>3. p < i
      BY <3>1, <3>2, SiteFacts DEF TypeOK
    <3>4. <<"entry", c>> \in unanswered \/ <<"page", p>> \in unanswered
      BY <3>2, <3>3, <2>2 DEF PageInv
    <3>5. <<"entry", c>> \in Cause(c, n) /\ <<"page", p>> \in Cause(c, n)
      BY <3>2, <2>2 DEF Cause
    <3>6. QED  BY <3>4, <3>5
  <2>3. QED  BY <2>1, <2>2
<1>2. QED  BY <1>1, InvCorrect, PTL
=============================================================================
