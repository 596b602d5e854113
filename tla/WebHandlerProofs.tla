-------------------------- MODULE WebHandlerProofs --------------------------
(***************************************************************************)
(* Proofs about WebHandler, for any page, any gifts the user may ask for, and  *)
(* any number of handlers, stars and documents.                              *)
(***************************************************************************)
EXTENDS WebHandler, SequenceTheorems, TLAPS

Page == [doc : 1..MaxDocuments, tab : Tabs \cup {None}, gift : Gifts \cup {None},
         user : Users \cup {None}, password : Users \cup {None}, stars : 0..MaxStars]
Handler == [at : {"panel", "tab", "gift", "form"}, doc : 1..MaxDocuments,
            ask : Asks \cup {None}, user : Users \cup {None}, disturbed : BOOLEAN]

(* A handler h under the page p, e being the users entered: one of RewardGift   *)
(* has a request of the user, and was begun in a document that was shown; what  *)
(* it chose is still chosen when it sends, unless the document has changed or   *)
(* a handler or a click disturbed it.  One of Login has a user who was entered  *)
(* for its document.                                                        *)
HandlerInv(p, e, h) ==
  /\ h \in Handler /\ h.doc <= p.doc
  /\ h.at # "form" => h.ask \in Asks
  /\ h.at = "form" => <<h.user, h.doc>> \in e
  /\ h.at = "gift" /\ h.doc = p.doc =>
       p.gift \in Gifts /\ (p.gift = h.ask[2] \/ h.disturbed)

HandlersInv(p, e, hs) ==
  hs \in Seq(Handler) /\ \A k \in 1..Len(hs) : HandlerInv(p, e, hs[k])

(* The form of the page p holds users entered for its document.               *)
FormInv(p, e) ==
  /\ p.user # None => <<p.user, p.doc>> \in e
  /\ p.password # None => <<p.password, p.doc>> \in e

(* The inductive invariant.                                                  *)
IInv ==
  /\ page \in Page /\ begun \in 0..MaxHandlers /\ clicks \in 0..begun
  /\ HandlersInv(page, entered, handlers) /\ Len(handlers) <= begun
  /\ sent \subseteq [asked : Gifts, gift : Gifts, disturbed : BOOLEAN]
  /\ logins \subseteq [doc : 1..page.doc, user : Users \cup {None}, password : Users \cup {None}]
  /\ entered \subseteq Users \X (1..page.doc) /\ FormInv(page, entered)
  /\ WrongGiftOnlyByNesting /\ LoginOfItsDocument

(* Before the first click.                                                   *)
LEMMA InitInv == Init => IInv
<1> SUFFICES ASSUME Init  PROVE IInv
  OBVIOUS
<1> USE PageAssumption DEF Init
<1>1. page \in Page
  BY DEF Page, NewPage
<1>2. handlers \in Seq(Handler) /\ Len(handlers) = 0
  OBVIOUS
<1>3. QED
  BY <1>1, <1>2 DEF IInv, HandlersInv, FormInv, NewPage, WrongGiftOnlyByNesting, LoginOfItsDocument

(* What an asked-for gift, or one on a tab, is.                              *)
LEMMA GiftFacts ==
  /\ \A a \in Asks : a[2] \in Gifts
  /\ \A t \in Tabs : \A g \in GiftsOf[t] : g \in Gifts
<1>1. ASSUME NEW a \in Asks  PROVE a[2] \in Gifts
  <2>1. a[2] \in {b[2] : b \in Asks}
    OBVIOUS
  <2>2. QED  BY <2>1 DEF Gifts
<1>2. ASSUME NEW t \in Tabs, NEW g \in GiftsOf[t]  PROVE g \in Gifts
  <2>1. GiftsOf[t] \in {GiftsOf[u] : u \in Tabs}
    OBVIOUS
  <2>2. g \in UNION {GiftsOf[u] : u \in Tabs}
    BY <2>1
  <2>3. QED  BY <2>2 DEF Gifts
<1>3. QED  BY <1>1, <1>2

-----------------------------------------------------------------------------
(* The handlers                                                            *)

(* The handlers around the innermost, and the innermost.                     *)
LEMMA OuterFacts ==
  ASSUME NEW p, NEW e, HandlersInv(p, e, handlers), handlers # << >>
  PROVE  /\ Len(handlers) \in Nat /\ Len(Outer) = Len(handlers) - 1
         /\ HandlersInv(p, e, Outer) /\ HandlerInv(p, e, Inner)
<1>1. Len(handlers) \in Nat \ {0} /\ handlers \in Seq(Handler)
  BY EmptySeq DEF HandlersInv
<1>2. \A k \in 1..(Len(handlers) - 1) : handlers[k] \in Handler
  BY <1>1, ElementOfSeq
<1>3. /\ Outer \in Seq(Handler)
      /\ Len(Outer) = IF 1 <= Len(handlers) - 1 THEN (Len(handlers) - 1) - 1 + 1 ELSE 0
      /\ \A k \in 1..((Len(handlers) - 1) - 1 + 1) : Outer[k] = handlers[1 + k - 1]
  <2>1. 1 \in Int /\ Len(handlers) - 1 \in Int
    BY <1>1
  <2>2. QED  BY <1>2, <2>1, SubSeqProperties DEF Outer
<1>4. Len(Outer) = Len(handlers) - 1
  <2>1. CASE Len(handlers) = 1
    BY <2>1, <1>3
  <2>2. CASE Len(handlers) # 1
    <3>1. \A n \in Nat \ {0, 1} : 1 <= n - 1
      OBVIOUS
    <3>2. 1 <= Len(handlers) - 1
      BY <1>1, <2>2, <3>1
    <3>3. Len(Outer) = (Len(handlers) - 1) - 1 + 1
      BY <1>3, <3>2
    <3>4. QED  BY <1>1, <3>3
  <2>3. QED  BY <2>1, <2>2
<1>5. ASSUME NEW k \in 1..Len(Outer)  PROVE HandlerInv(p, e, Outer[k])
  <2>1. k \in 1..Len(handlers) /\ Outer[k] = handlers[k]
    BY <1>1, <1>3, <1>4
  <2>2. QED  BY <2>1 DEF HandlersInv
<1>6. HandlerInv(p, e, Inner)
  BY <1>1 DEF HandlersInv, Inner
<1>7. QED  BY <1>1, <1>3, <1>4, <1>5, <1>6 DEF HandlersInv

(* A step of the page under handlers that stay keeps what they have chosen ... *)
LEMMA HandlersKept ==
  ASSUME NEW p, NEW q, NEW e, NEW hs, HandlersInv(p, e, hs), q.doc = p.doc, q.gift = p.gift
  PROVE  HandlersInv(q, e, hs)
BY DEF HandlersInv, HandlerInv

(* ... a user more is entered ...                                            *)
LEMMA HandlersMore ==
  ASSUME NEW p, NEW e, NEW f, NEW hs, HandlersInv(p, e, hs), e \subseteq f
  PROVE  HandlersInv(p, f, hs)
BY DEF HandlersInv, HandlerInv

(* ... a step disturbs them, if it can change the gift ...                        *)
LEMMA HandlersDisturbed ==
  ASSUME NEW p, NEW q, NEW e, NEW hs, HandlersInv(p, e, hs), q.doc = p.doc,
         q.gift \in Gifts \/ q.gift = p.gift
  PROVE  HandlersInv(q, e, Disturbed(hs)) /\ Len(Disturbed(hs)) = Len(hs)
<1>1. hs \in Seq(Handler) /\ Len(hs) \in Nat /\ DOMAIN hs = 1..Len(hs)
  BY DEF HandlersInv
<1>2. ASSUME NEW h, HandlerInv(p, e, h)  PROVE HandlerInv(q, e, [h EXCEPT !.disturbed = TRUE])
  BY <1>2 DEF HandlerInv, Handler
<1>3. \A k \in 1..Len(hs) : HandlerInv(q, e, Disturbed(hs)[k])
  BY <1>1, <1>2 DEF HandlersInv, Disturbed
<1>4. Disturbed(hs) = [k \in 1..Len(hs) |-> Disturbed(hs)[k]]
  BY <1>1 DEF Disturbed
<1>5. \A k \in 1..Len(hs) : Disturbed(hs)[k] \in Handler
  BY <1>3 DEF HandlerInv
<1>6. Disturbed(hs) \in Seq(Handler) /\ Len(Disturbed(hs)) = Len(hs)
  BY <1>1, <1>4, <1>5
<1>7. QED  BY <1>3, <1>6 DEF HandlersInv

(* ... or shows another document.                                            *)
LEMMA HandlersLeft ==
  ASSUME NEW p \in Page, NEW q \in Page, NEW e, NEW hs, HandlersInv(p, e, hs), q.doc > p.doc
  PROVE  HandlersInv(q, e, hs)
<1>1. ASSUME NEW h, HandlerInv(p, e, h)  PROVE HandlerInv(q, e, h)
  BY <1>1 DEF HandlerInv, Handler, Page
<1>2. QED  BY <1>1 DEF HandlersInv

(* A handler begins, or goes on to its next WaitFor.                          *)
LEMMA HandlersAppend ==
  ASSUME NEW p, NEW e, NEW hs, NEW h, HandlersInv(p, e, hs), HandlerInv(p, e, h)
  PROVE  HandlersInv(p, e, Append(hs, h)) /\ Len(Append(hs, h)) = Len(hs) + 1
<1>1. hs \in Seq(Handler) /\ h \in Handler /\ Len(hs) \in Nat
  BY DEF HandlersInv, HandlerInv
<1>2. /\ Append(hs, h) \in Seq(Handler) /\ Len(Append(hs, h)) = Len(hs) + 1
      /\ \A k \in 1..Len(hs) : Append(hs, h)[k] = hs[k]
      /\ Append(hs, h)[Len(hs) + 1] = h
  BY <1>1, AppendProperties
<1>3. \A k \in 1..(Len(hs) + 1) : k \in 1..Len(hs) \/ k = Len(hs) + 1
  BY <1>1
<1>4. \A k \in 1..(Len(hs) + 1) : HandlerInv(p, e, Append(hs, h)[k])
  BY <1>2, <1>3 DEF HandlersInv
<1>5. QED  BY <1>2, <1>4 DEF HandlersInv

-----------------------------------------------------------------------------
(* The steps                                                                *)

(* Begin appends the handler of a button.                                    *)
LEMMA BeginInv ==
  ASSUME IInv, NEW at \in {"panel", "form"}, NEW ask \in Asks \cup {None},
         NEW user \in Users \cup {None}, at = "panel" => ask \in Asks, Begin(at, ask, user),
         entered \subseteq entered', entered' \subseteq Users \X (1..page.doc),
         at = "form" => <<user, page.doc>> \in entered'
  PROVE  IInv'
<1> USE PageAssumption
<1> DEFINE h == [at |-> at, doc |-> page.doc, ask |-> ask, user |-> user, disturbed |-> FALSE]
<1>1. HandlerInv(page, entered', h)
  BY DEF IInv, Page, HandlerInv, Handler
<1>2. handlers' = Append(handlers, h) /\ page' = page
  BY DEF Begin
<1>3. HandlersInv(page', entered', handlers') /\ Len(handlers') = Len(handlers) + 1
  <2> HIDE DEF h
  <2>1. HandlersInv(page, entered', handlers)
    BY HandlersMore DEF IInv
  <2>2. QED  BY <1>1, <1>2, <2>1, HandlersAppend
<1>4. Len(handlers) \in Nat
  BY DEF IInv, HandlersInv
<1>5. FormInv(page', entered') /\ LoginOfItsDocument'
  BY <1>2 DEF IInv, Begin, FormInv, LoginOfItsDocument
<1>6. QED
  BY <1>2, <1>3, <1>4, <1>5 DEF IInv, Begin, WrongGiftOnlyByNesting

(* A handler returns, the page shown and its gift unchanged.                  *)
LEMMA ReturnKeeps ==
  ASSUME IInv, handlers # << >>, Return, page'.doc = page.doc, page'.gift = page.gift,
         begun' = begun, entered' = entered
  PROVE  HandlersInv(page', entered', handlers') /\ Len(handlers') <= begun'
<1>1. /\ Len(handlers) \in Nat /\ Len(Outer) = Len(handlers) - 1
      /\ HandlersInv(page, entered, Outer)
  BY OuterFacts DEF IInv
<1>2. HandlersInv(page', entered', Outer)
  BY <1>1, HandlersKept
<1>3. QED  BY <1>1, <1>2 DEF Return, IInv

LEMMA NotFoundInv == IInv /\ NotFound => IInv'
<1> SUFFICES ASSUME IInv, NotFound  PROVE IInv'
  OBVIOUS
<1>1. HandlersInv(page', entered', handlers') /\ Len(handlers') <= begun'
  BY ReturnKeeps DEF NotFound, loginVars
<1>2. QED
  BY <1>1 DEF IInv, FormInv, NotFound, WrongGiftOnlyByNesting, LoginOfItsDocument, loginVars

(* SelectTab shows the gifts of a tab: the one chosen stays.                  *)
LEMMA SelectTabInv == IInv /\ SelectTab => IInv'
<1> SUFFICES ASSUME IInv, SelectTab  PROVE IInv'
  OBVIOUS
<1> DEFINE h == [Inner EXCEPT !.at = "tab"]
<1>1. handlers # << >> /\ Inner.at = "panel"
  BY DEF SelectTab, Waits
<1>2. /\ Len(handlers) \in Nat /\ Len(Outer) = Len(handlers) - 1
      /\ HandlersInv(page, entered, Outer) /\ HandlerInv(page, entered, Inner)
  BY <1>1, OuterFacts DEF IInv
<1>3. /\ page' \in Page /\ page'.doc = page.doc /\ page'.gift = page.gift
      /\ page'.user = page.user /\ page'.password = page.password /\ entered' = entered
  BY DEF SelectTab, Click, IInv, Page, loginVars
<1>4. HandlersInv(page', entered', Outer)
  BY <1>2, <1>3, HandlersKept
<1>5. HandlerInv(page', entered', h)
  BY <1>1, <1>2, <1>3 DEF HandlerInv, Handler
<1>6. handlers' = Append(Outer, h)
  BY DEF SelectTab, WaitAt, loginVars
<1>7. HandlersInv(page', entered', handlers') /\ Len(handlers') = Len(Outer) + 1
  <2> HIDE DEF h
  <2>1. QED  BY <1>4, <1>5, <1>6, HandlersAppend
<1>8. QED
  BY <1>2, <1>3, <1>7 DEF IInv, FormInv, SelectTab, WrongGiftOnlyByNesting, LoginOfItsDocument, loginVars

(* ChooseGift disturbs the handlers around it, and is not disturbed itself.    *)
LEMMA ChooseGiftInv == IInv /\ ChooseGift => IInv'
<1> SUFFICES ASSUME IInv, ChooseGift  PROVE IInv'
  OBVIOUS
<1> DEFINE h == [Inner EXCEPT !.at = "gift", !.disturbed = FALSE]
<1>1. handlers # << >> /\ Inner.at = "tab"
  BY DEF ChooseGift, Waits
<1>2. /\ Len(handlers) \in Nat /\ Len(Outer) = Len(handlers) - 1
      /\ HandlersInv(page, entered, Outer) /\ HandlerInv(page, entered, Inner)
  BY <1>1, OuterFacts DEF IInv
<1>3. Inner.ask \in Asks /\ Inner.ask[2] \in Gifts
  BY <1>1, <1>2, GiftFacts DEF HandlerInv
<1>4. CASE Inner.doc = page.doc
  <2>1. page' = [page EXCEPT !.gift = Inner.ask[2]]
    BY <1>4 DEF ChooseGift, Click, loginVars
  <2>2. /\ page' \in Page /\ page'.doc = page.doc /\ page'.gift = Inner.ask[2]
        /\ page'.user = page.user /\ page'.password = page.password /\ entered' = entered
    BY <2>1, <1>3 DEF IInv, Page, ChooseGift, loginVars
  <2>3. HandlersInv(page', entered', Disturbed(Outer)) /\ Len(Disturbed(Outer)) = Len(Outer)
    BY <1>2, <1>3, <2>2, HandlersDisturbed
  <2>4. HandlerInv(page', entered', h)
    BY <1>2, <1>3, <2>2 DEF HandlerInv, Handler
  <2>5. handlers' = Append(Disturbed(Outer), h)
    BY DEF ChooseGift, loginVars
  <2>6. HandlersInv(page', entered', handlers') /\ Len(handlers') = Len(Outer) + 1
    <3> HIDE DEF h
    <3>1. QED  BY <2>3, <2>4, <2>5, HandlersAppend
  <2>7. QED
    BY <1>2, <2>2, <2>6 DEF IInv, FormInv, ChooseGift, WrongGiftOnlyByNesting, LoginOfItsDocument, loginVars
<1>5. CASE Inner.doc # page.doc
  <2>1. page' = page /\ entered' = entered
    BY <1>5 DEF ChooseGift, Click, loginVars
  <2>2. HandlerInv(page, entered, h)
    BY <1>2, <1>3, <1>5 DEF HandlerInv, Handler
  <2>3. handlers' = Append(Disturbed(Outer), h)
    BY DEF ChooseGift, loginVars
  <2>4. HandlersInv(page, entered, Disturbed(Outer)) /\ Len(Disturbed(Outer)) = Len(Outer)
    BY <1>2, HandlersDisturbed
  <2>5. HandlersInv(page', entered', handlers') /\ Len(handlers') = Len(Outer) + 1
    <3> HIDE DEF h
    <3>1. QED  BY <2>1, <2>2, <2>3, <2>4, HandlersAppend
  <2>6. QED
    BY <1>2, <2>1, <2>5 DEF IInv, FormInv, ChooseGift, WrongGiftOnlyByNesting, LoginOfItsDocument, loginVars
<1>6. QED  BY <1>4, <1>5

(* SendGift sends the gift asked for, or was disturbed.                       *)
LEMMA SendGiftInv == IInv /\ SendGift => IInv'
<1> SUFFICES ASSUME IInv, SendGift  PROVE IInv'
  OBVIOUS
<1>1. handlers # << >> /\ Inner.at = "gift"
  BY DEF SendGift, Waits
<1>2. HandlerInv(page, entered, Inner)
  BY <1>1, OuterFacts DEF IInv
<1>3. HandlersInv(page', entered', handlers') /\ Len(handlers') <= begun'
  BY <1>1, ReturnKeeps DEF SendGift, loginVars
<1>4. /\ sent' \subseteq [asked : Gifts, gift : Gifts, disturbed : BOOLEAN]
      /\ WrongGiftOnlyByNesting'
  <2>1. CASE Inner.doc = page.doc
    <3> DEFINE s == [asked |-> Inner.ask[2], gift |-> page.gift, disturbed |-> Inner.disturbed]
    <3>1. Inner.ask[2] \in Gifts
      BY <1>1, <1>2, GiftFacts DEF HandlerInv
    <3>2. s \in [asked : Gifts, gift : Gifts, disturbed : BOOLEAN]
      BY <1>1, <1>2, <2>1, <3>1 DEF HandlerInv, Handler
    <3>3. s.gift = s.asked \/ s.disturbed
      BY <1>1, <1>2, <2>1 DEF HandlerInv
    <3>4. sent' = sent \cup {s}
      BY <2>1 DEF SendGift, loginVars
    <3> HIDE DEF s
    <3>5. QED  BY <3>2, <3>3, <3>4 DEF IInv, WrongGiftOnlyByNesting
  <2>2. CASE Inner.doc # page.doc
    BY <2>2 DEF SendGift, IInv, WrongGiftOnlyByNesting, loginVars
  <2>3. QED  BY <2>1, <2>2
<1>5. QED
  BY <1>3, <1>4 DEF IInv, FormInv, SendGift, LoginOfItsDocument, loginVars

(* FillForm types its user into the document it was begun with, whatever       *)
(* stays in a field that is missing.                                         *)
LEMMA FillFormInv == IInv /\ FillForm => IInv'
<1> SUFFICES ASSUME IInv, FillForm  PROVE IInv'
  OBVIOUS
<1>1. PICK user \in BOOLEAN, password \in BOOLEAN, button \in BOOLEAN :
        /\ Click(Form(user, password))
        /\ logins' = IF button /\ Inner.doc = page.doc
                     THEN logins \cup {FormSent(Form(user, password))} ELSE logins
  BY DEF FillForm
<1> DEFINE form == Form(user, password)
<1>2. handlers # << >> /\ Inner.user \in Users \cup {None} /\ <<Inner.user, Inner.doc>> \in entered
  <2>1. handlers # << >> /\ Inner.at = "form"
    BY DEF FillForm, Waits
  <2>2. HandlerInv(page, entered, Inner)
    BY <2>1, OuterFacts DEF IInv
  <2>3. QED  BY <2>1, <2>2 DEF HandlerInv, Handler
<1>3. /\ form \in Page /\ form.doc = page.doc /\ form.gift = page.gift
      /\ form.user \in {page.user, Inner.user} /\ form.password \in {page.password, Inner.user}
  BY <1>2 DEF IInv, Page, Form
<1>4. Inner.doc = page.doc => FormInv(form, entered)
  <2> HIDE DEF form
  <2>1. QED  BY <1>2, <1>3 DEF IInv, FormInv
<1>5. /\ (page' = form /\ Inner.doc = page.doc) \/ page' = page
      /\ \/ logins' = logins
         \/ Inner.doc = page.doc /\ logins' = logins \cup {FormSent(form)}
  BY <1>1 DEF Click
<1> HIDE DEF form
<1>6. /\ page' \in Page /\ page'.doc = page.doc /\ page'.gift = page.gift
      /\ entered' = entered /\ FormInv(page', entered')
  BY <1>3, <1>4, <1>5 DEF IInv, FillForm
<1>7. HandlersInv(page', entered', handlers') /\ Len(handlers') <= begun'
  BY <1>2, <1>6, ReturnKeeps DEF FillForm
<1>8. /\ logins' \subseteq [doc : 1..page'.doc, user : Users \cup {None},
                            password : Users \cup {None}]
      /\ LoginOfItsDocument'
  <2>1. CASE logins' = logins
    BY <1>6, <2>1 DEF IInv, LoginOfItsDocument
  <2>2. CASE Inner.doc = page.doc /\ logins' = logins \cup {FormSent(form)}
    <3>1. form.doc \in 1..page.doc
      BY <1>3, PageAssumption DEF IInv, Page
    <3>2. /\ FormSent(form).doc = form.doc /\ FormSent(form).user = form.user
          /\ FormSent(form).password = form.password
          /\ FormSent(form) \in [doc : 1..page.doc, user : Users \cup {None},
                                  password : Users \cup {None}]
      BY <1>3, <3>1 DEF FormSent, Page
    <3>3. \A u \in {FormSent(form).user, FormSent(form).password} \ {None} :
            <<u, FormSent(form).doc>> \in entered
      BY <1>4, <2>2, <3>2 DEF FormInv
    <3>4. QED  BY <1>6, <2>2, <3>2, <3>3 DEF IInv, LoginOfItsDocument
  <2>3. QED  BY <1>5, <2>1, <2>2
<1>9. QED
  BY <1>6, <1>7, <1>8 DEF IInv, FillForm, WrongGiftOnlyByNesting

(* RewardStar and ClickXY do not wait.                                       *)
LEMMA AtOnceInv == IInv /\ (RewardStar \/ ClickXY) => IInv'
<1> SUFFICES ASSUME IInv, RewardStar \/ ClickXY  PROVE IInv'
  OBVIOUS
<1> USE PageAssumption
<1>1. /\ page' \in Page /\ page'.doc = page.doc /\ page'.gift = page.gift
      /\ page'.user = page.user /\ page'.password = page.password /\ entered' = entered
      /\ clicks' \in {clicks, clicks + 1}
      /\ begun < MaxHandlers /\ begun' = begun + 1 /\ handlers' = handlers
      /\ sent' = sent /\ logins' = logins
  BY DEF RewardStar, ClickXY, AtOnce, IInv, Page, loginVars
<1>2. HandlersInv(page', entered', handlers')
  BY <1>1, HandlersKept DEF IInv
<1>3. Len(handlers) \in Nat
  BY DEF IInv, HandlersInv
<1>4. QED
  BY <1>1, <1>2, <1>3 DEF IInv, FormInv, WrongGiftOnlyByNesting, LoginOfItsDocument

(* A click in the page disturbs the handlers that have chosen, if it chooses   *)
(* another gift.                                                            *)
LEMMA LandsInv ==
  ASSUME IInv, Lands, entered' = entered
  PROVE  /\ page' \in Page /\ page'.doc = page.doc /\ FormInv(page', entered')
         /\ HandlersInv(page', entered', handlers') /\ Len(handlers') = Len(handlers)
<1> USE PageAssumption
<1>1. CASE \E t \in Tabs : \E g \in GiftsOf[t] :
             page' = [page EXCEPT !.gift = g] /\ handlers' = Disturbed(handlers)
  <2>1. PICK g \in Gifts : page' = [page EXCEPT !.gift = g]
    BY <1>1, GiftFacts
  <2>2. page' \in Page /\ page'.doc = page.doc /\ page'.gift = g /\ FormInv(page', entered')
    BY <2>1 DEF IInv, Page, FormInv
  <2>3. HandlersInv(page, entered, handlers) /\ Len(handlers) \in Nat
    BY DEF IInv, HandlersInv
  <2>4. handlers' = Disturbed(handlers)
    BY <1>1
  <2>5. /\ HandlersInv(page', entered', Disturbed(handlers))
        /\ Len(Disturbed(handlers)) = Len(handlers)
    BY <2>2, <2>3, HandlersDisturbed
  <2>6. QED  BY <2>2, <2>4, <2>5
<1>2. CASE \E t \in Tabs : page' = [page EXCEPT !.tab = t] /\ handlers' = handlers
  <2>1. /\ page' \in Page /\ page'.doc = page.doc /\ page'.gift = page.gift
        /\ FormInv(page', entered')
    BY <1>2 DEF IInv, Page, FormInv
  <2>2. QED  BY <1>2, <2>1, HandlersKept DEF IInv
<1>3. CASE page.stars > 0 /\ page' = [page EXCEPT !.stars = @ - 1] /\ handlers' = handlers
  <2>1. /\ page' \in Page /\ page'.doc = page.doc /\ page'.gift = page.gift
        /\ FormInv(page', entered')
    BY <1>3 DEF IInv, Page, FormInv
  <2>2. QED  BY <1>3, <2>1, HandlersKept DEF IInv
<1>4. CASE page' = page /\ handlers' = handlers
  BY <1>4 DEF IInv
<1>5. QED  BY <1>1, <1>2, <1>3, <1>4 DEF Lands

LEMMA ClickInv == IInv /\ (PostedClick \/ UserClicks) => IInv'
<1> SUFFICES ASSUME IInv, PostedClick \/ UserClicks  PROVE IInv'
  OBVIOUS
<1>1. /\ page' \in Page /\ page'.doc = page.doc /\ FormInv(page', entered')
      /\ HandlersInv(page', entered', handlers') /\ Len(handlers') = Len(handlers)
  BY LandsInv DEF PostedClick, UserClicks, loginVars
<1>2. /\ clicks' \in 0..begun /\ begun' = begun
      /\ sent' = sent /\ logins' = logins /\ entered' = entered
  BY PageAssumption DEF PostedClick, UserClicks, IInv, loginVars
<1>3. QED
  BY <1>1, <1>2 DEF IInv, FormInv, WrongGiftOnlyByNesting, LoginOfItsDocument

(* Another document is shown.                                               *)
LEMMA NewDocumentInv == IInv /\ NewDocument => IInv'
<1> SUFFICES ASSUME IInv, NewDocument  PROVE IInv'
  OBVIOUS
<1> USE PageAssumption
<1>1. page' \in Page /\ page'.doc > page.doc
  BY DEF NewDocument, NewPage, IInv, Page, loginVars
<1>2. HandlersInv(page', entered', handlers')
  BY <1>1, HandlersLeft DEF IInv, NewDocument, loginVars
<1>3. FormInv(page', entered')
  BY DEF NewDocument, NewPage, FormInv
<1>4. /\ entered' \subseteq Users \X (1..page'.doc)
      /\ logins' \subseteq [doc : 1..page'.doc, user : Users \cup {None},
                            password : Users \cup {None}]
  <2>1. 1..page.doc \subseteq 1..page'.doc
    BY <1>1 DEF IInv, Page
  <2>2. QED  BY <2>1 DEF NewDocument, loginVars, IInv
<1>5. LoginOfItsDocument'
  BY DEF NewDocument, loginVars, IInv, LoginOfItsDocument
<1>6. QED
  BY <1>1, <1>2, <1>3, <1>4, <1>5 DEF IInv, NewDocument, loginVars, WrongGiftOnlyByNesting

-----------------------------------------------------------------------------
(* The theorems                                                             *)

(* The inductive invariant holds in every state of every behaviour.            *)
THEOREM InvCorrect == Spec => []IInv
<1>1. ASSUME IInv, [Next]_vars  PROVE IInv'
  <2>1. ASSUME NEW ask \in Asks, RewardGift(ask)  PROVE IInv'
    <3>1. entered' \subseteq Users \X (1..page.doc) /\ None \in Users \cup {None}
      BY <1>1, <2>1 DEF RewardGift, IInv
    <3>2. QED  BY <1>1, <2>1, <3>1, BeginInv DEF RewardGift
  <2>2. ASSUME NEW user \in Users, Login(user)  PROVE IInv'
    <3>1. /\ entered' = entered \cup {<<user, page.doc>>}
          /\ page.doc \in 1..page.doc /\ entered \subseteq Users \X (1..page.doc)
      BY <1>1, <2>2, PageAssumption DEF Login, IInv, Page
    <3>2. Begin("form", None, user) /\ None \in Asks \cup {None} /\ user \in Users \cup {None}
      BY <2>2 DEF Login
    <3>3. entered \subseteq entered' /\ entered' \subseteq Users \X (1..page.doc)
      BY <3>1
    <3>4. <<user, page.doc>> \in entered'
      BY <3>1
    <3>5. QED  BY <1>1, <3>2, <3>3, <3>4, BeginInv
  <2>3. CASE NotFound
    BY <1>1, <2>3, NotFoundInv
  <2>4. CASE SelectTab
    BY <1>1, <2>4, SelectTabInv
  <2>5. CASE ChooseGift
    BY <1>1, <2>5, ChooseGiftInv
  <2>6. CASE SendGift
    BY <1>1, <2>6, SendGiftInv
  <2>7. CASE FillForm
    BY <1>1, <2>7, FillFormInv
  <2>8. CASE RewardStar \/ ClickXY
    BY <1>1, <2>8, AtOnceInv
  <2>9. CASE PostedClick \/ UserClicks
    BY <1>1, <2>9, ClickInv
  <2>10. CASE NewDocument
    BY <1>1, <2>10, NewDocumentInv
  <2>11. CASE UNCHANGED vars
    BY <1>1, <2>11 DEF vars, loginVars, IInv, FormInv, WrongGiftOnlyByNesting, LoginOfItsDocument
  <2>12. QED
    BY <1>1, <2>1, <2>2, <2>3, <2>4, <2>5, <2>6, <2>7, <2>8, <2>9, <2>10, <2>11 DEF Next
<1>2. QED  BY InitInv, <1>1, PTL DEF Spec

(* The variables have their types: a handler waits in no document later than   *)
(* the one shown, and every posted click is one of ClickXY.                    *)
THEOREM TypeCorrect == Spec => []TypeOK
<1>1. IInv => TypeOK
  <2> SUFFICES ASSUME IInv  PROVE TypeOK
    OBVIOUS
  <2> DEFINE H == [at : {"panel", "tab", "gift", "form"}, doc : 1..page.doc,
                   ask : Asks \cup {None}, user : Users \cup {None}, disturbed : BOOLEAN]
  <2>1. handlers \in Seq(H)
    <3>1. handlers \in Seq(Handler) /\ Len(handlers) \in Nat
      BY DEF IInv, HandlersInv
    <3>2. ASSUME NEW k \in 1..Len(handlers)  PROVE handlers[k] \in H
      <4>1. HandlerInv(page, entered, handlers[k]) /\ page.doc \in Nat
        BY <3>1, PageAssumption DEF IInv, HandlersInv, Page
      <4>2. QED  BY <4>1, PageAssumption DEF HandlerInv, Handler
    <3> HIDE DEF H
    <3>3. handlers = [k \in 1..Len(handlers) |-> handlers[k]]
      BY <3>1
    <3>4. QED  BY <3>1, <3>2, <3>3
  <2>2. begun \in Len(handlers)..MaxHandlers
    BY PageAssumption DEF IInv, HandlersInv
  <2>3. QED  BY <2>1, <2>2 DEF TypeOK, IInv, Page
<1>2. QED  BY <1>1, InvCorrect, PTL

(* Another gift than the one asked for is sent only if somebody chose it in    *)
(* the last wait of the handler, however many handlers nest.                  *)
THEOREM GiftCorrect == Spec => []WrongGiftOnlyByNesting
<1>1. IInv => WrongGiftOnlyByNesting
  BY DEF IInv
<1>2. QED  BY <1>1, InvCorrect, PTL

(* No form is sent with a name or a password entered for another document,      *)
(* however many logins nest, whatever document is shown when they go on, and   *)
(* whichever fields are missing.                                             *)
THEOREM LoginCorrect == Spec => []LoginOfItsDocument
<1>1. IInv => LoginOfItsDocument
  BY DEF IInv
<1>2. QED  BY <1>1, InvCorrect, PTL
=============================================================================
