---------------------------- MODULE SearchHelper ----------------------------
(***************************************************************************)
(* FanxingMain/SearchHelper.cpp: the search for singers who have not        *)
(* broadcast for a while.  It reads the pages of the list of families, then  *)
(* for each family its singers and their profiles, and appends a row for     *)
(* each expired singer to a file, one family at a time, row by row.          *)
(*                                                                         *)
(* Every request may fail; what a failure costs depends on where it happens. *)
(* A page is a sequence of family ids, a profile the days since the last     *)
(* broadcast and perhaps a room, named here by its singer.  The other columns *)
(* of a row are parsed like the room.  A reply that parses is an object of     *)
(* the expected shape, or holds a value whose conversion throws.  The list of  *)
(* a family may name a singer twice: a row is known by its family and its     *)
(* place in that list.                                                     *)
(***************************************************************************)
EXTENDS Integers, Sequences, SequencesExt, FiniteSetsExt

CONSTANTS
  pagecount_, lastactive_,   \* SetFilter
  Page,                      \* Page[p]: families on page p of the site
  Singers,                   \* Singers[c]: the list of singers of family c
  LastDay,                   \* LastDay[s]: days since singer s broadcast
  WithRoom                   \* singers whose profile shows a room

ASSUME SiteAssumption ==
  /\ pagecount_ \in Nat /\ lastactive_ \in Nat
  /\ \A p \in 1..(pagecount_ - 1) : \A c \in Range(Page[p]) :
       /\ c \in Nat /\ c \in DOMAIN Singers
       /\ Singers[c] \in Seq(Nat)
       /\ \A s \in Range(Singers[c]) : LastDay[s] \in Nat

Families == UNION {Range(Page[p]) : p \in 1..(pagecount_ - 1)}
AllSingers == UNION {Range(Singers[c]) : c \in Families}
Places == UNION {{c} \X DOMAIN Singers[c] : c \in Families}
Junk == -1       \* a member nobody has assigned
NoFamily == -1   \* before the first family of the map

VARIABLES
  stage,          \* "pages", "family", "profiles", "write"; "true", "false", "thrown"
  i,              \* the next page
  familyMap,      \* families known
  family,         \* the one whose turn it is
  nth,            \* the next place in its list of singers
  roomid,         \* what the memory of singerInfo.roomid holds
  singerInfoVec,  \* rows of this family
  row,            \* the next of them to write
  file,           \* rows in singeroutput.txt
  unanswered      \* history: requests, entries and writes that failed

pageVars == <<i, familyMap>>
turnVars == <<family, nth, roomid, singerInfoVec>>
fileVars == <<row, file>>
vars == <<stage, pageVars, turnVars, fileVars, unanswered>>

Init ==
  /\ stage = "pages" /\ i = 1 /\ familyMap = {} /\ family = NoFamily /\ nth = 1
  /\ roomid = Junk /\ singerInfoVec = << >> /\ row = 1 /\ file = << >>
  /\ unanswered = {}

-----------------------------------------------------------------------------
(* GetAllFamilyInfo, one page at a time.                                    *)

(* Mutant: the last page is read too.                                       *)
PageReadLast ==
  /\ stage = "pages" /\ i <= pagecount_
  /\ familyMap' = familyMap \cup Range(Page[i])
  /\ i' = i + 1
  /\ UNCHANGED <<stage, turnVars, fileVars, unanswered>>

(* Entries with a number that does not parse are skipped.                   *)
PageRead ==
  /\ stage = "pages" /\ i < pagecount_
  /\ \E bad \in SUBSET Range(Page[i]) :
       /\ familyMap' = familyMap \cup (Range(Page[i]) \ bad)
       /\ unanswered' = unanswered \cup {<<"entry", c>> : c \in bad}
  /\ i' = i + 1
  /\ UNCHANGED <<stage, turnVars, fileVars>>

(* The request fails, or the reply does not parse, has no data or no list.   *)
PageSkipped ==
  /\ stage = "pages" /\ i < pagecount_
  /\ unanswered' = unanswered \cup {<<"page", i>>}
  /\ i' = i + 1
  /\ UNCHANGED <<stage, familyMap, turnVars, fileVars>>

(* The reply has no brackets: the search ends.                              *)
PageHasNoBrackets ==
  /\ stage = "pages" /\ i < pagecount_
  /\ stage' = "false"
  /\ UNCHANGED <<pageVars, turnVars, fileVars, unanswered>>

GetAllFamilyInfo == PageRead \/ PageSkipped \/ PageHasNoBrackets

PagesRead ==
  /\ stage = "pages" /\ i >= pagecount_ /\ stage' = "family"
  /\ UNCHANGED <<pageVars, turnVars, fileVars, unanswered>>

-----------------------------------------------------------------------------
(* GetExpiredFamilySingers: the families in the order of the map.           *)
Later == {c \in familyMap : c > family}

(* GetAllSingers: the page of the family, then its list of singers.          *)
GetAllSingers ==
  /\ stage = "family" /\ Later # {}
  /\ family' = Min(Later) /\ nth' = 1
  /\ stage' = "profiles"
  /\ UNCHANGED <<pageVars, roomid, singerInfoVec, fileVars, unanswered>>

(* Mutant: the loop is left.                                               *)
GetAllSingersBreaks ==
  /\ stage = "family" /\ Later # {}
  /\ family' = Min(Later)
  /\ unanswered' = unanswered \cup {<<"family", Min(Later)>>}
  /\ stage' = "true"
  /\ UNCHANGED <<pageVars, nth, roomid, singerInfoVec, fileVars>>

(* Either request fails or its reply is not as expected.  When the second    *)
(* fails, the page of the family is parsed in its place, and is no list.     *)
GetAllSingersFails ==
  /\ stage = "family" /\ Later # {}
  /\ family' = Min(Later)
  /\ unanswered' = unanswered \cup {<<"family", Min(Later)>>}
  /\ UNCHANGED <<stage, pageVars, nth, roomid, singerInfoVec, fileVars>>

SearchEnds ==
  /\ stage = "family" /\ Later = {} /\ stage' = "true"
  /\ UNCHANGED <<pageVars, turnVars, fileVars, unanswered>>

(* GetSingsInfos: a profile.  A room is parsed only if it is shown; else the  *)
(* member is not assigned and has what its memory held for the singer before, *)
(* or anything.                                                            *)
Expired(s) == LastDay[s] > lastactive_
RoomParsed(s) == IF s \in WithRoom THEN {s} ELSE {roomid, Junk}
More == nth \in DOMAIN Singers[family]

GetSingsInfos ==
  /\ stage = "profiles" /\ More
  /\ LET s == Singers[family][nth]
     IN  IF Expired(s)
         THEN \E room \in RoomParsed(s) :
                /\ roomid' = room
                /\ singerInfoVec' = Append(singerInfoVec,
                     [clanid |-> family, nth |-> nth, userid |-> s, roomid |-> room])
         ELSE UNCHANGED <<roomid, singerInfoVec>>
  /\ nth' = nth + 1
  /\ UNCHANGED <<stage, pageVars, family, fileVars, unanswered>>

(* The reply is text without a last broadcast, which counts as today.        *)
ProfileWithoutDate ==
  /\ stage = "profiles" /\ More
  /\ nth' = nth + 1
  /\ unanswered' = unanswered \cup {<<"profile", <<family, nth>>>>}
  /\ UNCHANGED <<stage, pageVars, family, roomid, singerInfoVec, fileVars>>

(* The result of the request is not looked at: substr of an empty reply      *)
(* throws.  So does the conversion of a value of another type, earlier on.   *)
(* Nobody catches it.                                                      *)
Throw ==
  /\ \/ stage = "pages" /\ i < pagecount_
     \/ stage = "family" /\ Later # {}
     \/ stage = "profiles" /\ More
  /\ stage' = "thrown"
  /\ UNCHANGED <<pageVars, turnVars, fileVars, unanswered>>

(* WriteToFile: the file is opened, ...                                     *)
WriteToFile ==
  /\ stage = "profiles" /\ ~ More
  /\ stage' = "write" /\ row' = 1
  /\ UNCHANGED <<pageVars, turnVars, file, unanswered>>

(* ... a row is appended, or lost: nobody looks whether the file is open and  *)
(* the row written ...                                                      *)
WriteRow ==
  /\ stage = "write" /\ row <= Len(singerInfoVec)
  /\ LET r == singerInfoVec[row]
     IN  \/ file' = Append(file, r) /\ UNCHANGED unanswered
         \/ UNCHANGED file
            /\ unanswered' = unanswered \cup {<<"file", <<r.clanid, r.nth>>>>}
  /\ row' = row + 1
  /\ UNCHANGED <<stage, pageVars, turnVars>>

(* Mutant: the rows are kept for the next family.                           *)
WriteEndsKeeps ==
  /\ stage = "write" /\ row > Len(singerInfoVec)
  /\ stage' = "family"
  /\ UNCHANGED <<pageVars, turnVars, fileVars, unanswered>>

(* ... and it is closed, and the rows forgotten.                            *)
WriteEnds ==
  /\ stage = "write" /\ row > Len(singerInfoVec)
  /\ singerInfoVec' = << >>
  /\ stage' = "family"
  /\ UNCHANGED <<pageVars, family, nth, roomid, fileVars, unanswered>>

Next ==
  \/ GetAllFamilyInfo \/ PagesRead
  \/ GetAllSingers \/ GetAllSingersFails \/ GetSingsInfos \/ ProfileWithoutDate
  \/ WriteToFile \/ WriteRow \/ WriteEnds \/ SearchEnds \/ Throw
Spec == Init /\ [][Next]_vars

-----------------------------------------------------------------------------
(* The variables have their types.                                         *)
Row == [clanid : Families, nth : Nat \ {0}, userid : AllSingers, roomid : AllSingers \cup {Junk}]
TypeOK ==
  /\ stage \in {"pages", "family", "profiles", "write", "true", "false", "thrown"}
  /\ i \in 1..(IF pagecount_ > 1 THEN pagecount_ ELSE 1)
  /\ familyMap \subseteq Families /\ family \in {NoFamily} \cup familyMap
  /\ nth \in Nat \ {0} /\ roomid \in AllSingers \cup {Junk}
  /\ singerInfoVec \in Seq(Row) /\ row \in Nat \ {0} /\ file \in Seq(Row)
  /\ unanswered \subseteq ({"page"} \X (1..pagecount_)) \cup
                          ({"entry", "family"} \X Families) \cup ({"profile", "file"} \X Places)

(* The order in which the search comes to the places of the lists.           *)
Before(p, q) == p[1] < q[1] \/ (p[1] = q[1] /\ p[2] < q[2])
Place(r) == <<r.clanid, r.nth>>

(* A room is that of an expired singer the search came to earlier.           *)
RoomOfEarlier(room, place) ==
  \E c \in familyMap : \E n \in DOMAIN Singers[c] :
    /\ Before(<<c, n>>, place) /\ Singers[c][n] = room
    /\ room \in WithRoom /\ Expired(room)

(* A row is that of an expired singer of a family that is known (the assert   *)
(* of line 467), and has the room of the profile if it shows one.            *)
RowRight(r) ==
  /\ r.clanid \in familyMap /\ r.nth \in DOMAIN Singers[r.clanid]
  /\ r.userid = Singers[r.clanid][r.nth] /\ Expired(r.userid)
  /\ IF r.userid \in WithRoom THEN r.roomid = r.userid
     ELSE r.roomid = Junk \/ RoomOfEarlier(r.roomid, Place(r))

(* WriteToFile: every row of the file is right, and the rows stand in the    *)
(* order of the families and of their lists, so that no place has two, also   *)
(* when rows of an earlier family were lost.  (A singer listed twice has two.) *)
RowsRight ==
  /\ \A j \in DOMAIN file : RowRight(file[j])
  /\ \A j, k \in DOMAIN file : j < k => Before(Place(file[j]), Place(file[k]))

(* GetExpiredFamilySingers: once a family's turn is over, each of its        *)
(* expired singers is in the file, unless a request, an entry or the write   *)
(* failed that it depends on: what fails elsewhere costs it nothing, not     *)
(* even an exception.                                                      *)
Over(c) == c < family \/ (c = family /\ stage = "family") \/ stage = "true"
Cause(c, n) ==
  IF c \in familyMap THEN {<<"family", c>>, <<"profile", <<c, n>>>>, <<"file", <<c, n>>>>}
  ELSE {<<"entry", c>>} \cup {<<"page", p>> : p \in {q \in 1..(pagecount_ - 1) : c \in Range(Page[q])}}
FinishedFamiliesWritten ==
  \A c \in Families : Over(c) =>
    \A n \in DOMAIN Singers[c] : Expired(Singers[c][n]) =>
      \/ \E j \in DOMAIN file : Place(file[j]) = <<c, n>>
      \/ unanswered \cap Cause(c, n) # {}
=============================================================================
