----------------------------- MODULE WebHandler -----------------------------
(***************************************************************************)
(* FanXingUI/WebHandler.cpp and the buttons of the dialog that use it: the    *)
(* handlers click through the page in the embedded browser.  Between two      *)
(* clicks WaitFor dispatches the messages of the UI thread, so that another   *)
(* handler, a click of the user or a new document may come in between.  The   *)
(* handlers nest: the last one begun is the first to go on.                  *)
(*                                                                         *)
(* The page is external: a panel with tabs of gifts, of which one is chosen,  *)
(* a button that sends the chosen one, a button that sends a star, titled      *)
(* with how many there are, and a form to log in, which only Login fills.      *)
(* Any element may be missing.                                              *)
(* RewardStar and ClickXY do not wait; ClickXY posts its click, which lands    *)
(* in the page when the messages are dispatched.                             *)
(***************************************************************************)
EXTENDS Integers, Sequences

CONSTANTS
  Tabs, GiftsOf,   \* GiftsOf[tab]: the gifts a tab of the page shows
  Asks,            \* pairs of a tab and a gift the user may type
  Users,           \* user names; each has a password of its own
  None,            \* nothing shown, chosen or typed
  MaxStars,        \* bound: stars a page shows at most
  MaxHandlers,     \* bound: handlers begun
  MaxDocuments     \* bound: documents the browser shows

ASSUME PageAssumption ==
  /\ None \notin Tabs \cup Users /\ \A t \in Tabs : None \notin GiftsOf[t]
  /\ MaxStars \in Nat /\ MaxHandlers \in Nat /\ MaxDocuments \in Nat \ {0}

Gifts == (UNION {GiftsOf[t] : t \in Tabs}) \cup {a[2] : a \in Asks}

VARIABLES
  page,       \* the document shown, its tab and gift chosen, the fields of its form,
              \* its stars
  clicks,     \* clicks posted to the window of the browser
  handlers,   \* the handlers in WaitFor, the innermost last
  sent,       \* history: gifts sent, with the gift asked for
  logins,     \* history: forms sent, with their document
  entered,    \* history: users to log in, with the document shown when asked
  begun       \* counter of the bound

loginVars == <<logins, entered>>
vars == <<page, clicks, handlers, sent, loginVars, begun>>

NewPage(d) == [doc |-> d, tab |-> None, gift |-> None, user |-> None, password |-> None,
               stars |-> MaxStars]
Init ==
  /\ page = NewPage(1) /\ clicks = 0
  /\ handlers = << >> /\ sent = {} /\ logins = {} /\ entered = {} /\ begun = 0

-----------------------------------------------------------------------------
(* Where the innermost handler waits, and what it may do next.              *)
Inner == handlers[Len(handlers)]
Outer == SubSeq(handlers, 1, Len(handlers) - 1)
Waits(at) == handlers # << >> /\ Inner.at = at

(* A handler clicks in the document it was begun with.                      *)
Click(newPage) == page' = IF Inner.doc = page.doc THEN newPage ELSE page

WaitAt(at) == handlers' = Append(Outer, [Inner EXCEPT !.at = at])
Return == handlers' = Outer

(* The button handlers, up to the first WaitFor.                            *)
Begin(at, ask, user) ==
  /\ begun < MaxHandlers /\ begun' = begun + 1
  /\ handlers' = Append(handlers, [at |-> at, doc |-> page.doc, ask |-> ask, user |-> user,
                                   disturbed |-> FALSE])
  /\ UNCHANGED <<page, clicks, sent, logins>>

RewardGift(ask) == Begin("panel", ask, None) /\ UNCHANGED entered
Login(user) ==
  /\ Begin("form", None, user)
  /\ entered' = entered \cup {<<user, page.doc>>}

(* An element is not found: the handler returns.                            *)
NotFound ==
  /\ handlers # << >> /\ Return
  /\ UNCHANGED <<page, clicks, sent, loginVars, begun>>

SelectTab ==
  /\ Waits("panel") /\ Inner.ask[1] \in Tabs
  /\ Click([page EXCEPT !.tab = Inner.ask[1]])
  /\ WaitAt("tab")
  /\ UNCHANGED <<clicks, sent, loginVars, begun>>

(* Another gift is chosen under the handlers that have chosen theirs.       *)
Disturbed(hs) == [k \in DOMAIN hs |-> [hs[k] EXCEPT !.disturbed = TRUE]]

(* Mutant: that the gift was not found is not tested.                       *)
ChooseGiftUntested ==
  /\ Waits("tab")
  /\ IF Inner.doc = page.doc /\ page.tab \in Tabs /\ Inner.ask[2] \in GiftsOf[page.tab]
     THEN page' = [page EXCEPT !.gift = Inner.ask[2]] ELSE UNCHANGED page
  /\ handlers' = Append(Disturbed(Outer), [Inner EXCEPT !.at = "gift", !.disturbed = FALSE])
  /\ UNCHANGED <<clicks, sent, loginVars, begun>>

ChooseGift ==
  /\ Waits("tab")
  /\ Inner.doc = page.doc =>
       page.tab \in Tabs /\ Inner.ask[2] \in GiftsOf[page.tab]
  /\ Click([page EXCEPT !.gift = Inner.ask[2]])
  /\ handlers' = Append(Disturbed(Outer), [Inner EXCEPT !.at = "gift", !.disturbed = FALSE])
  /\ UNCHANGED <<clicks, sent, loginVars, begun>>

SendGift ==
  /\ Waits("gift")
  /\ sent' = IF Inner.doc = page.doc
             THEN sent \cup {[asked |-> Inner.ask[2], gift |-> page.gift,
                              disturbed |-> Inner.disturbed]}
             ELSE sent
  /\ Return
  /\ UNCHANGED <<page, clicks, loginVars, begun>>

(* The fields that are found hold what the handler typed, the other ones what  *)
(* they held.                                                              *)
Form(user, password) ==
  [page EXCEPT !.user = IF user THEN Inner.user ELSE @,
               !.password = IF password THEN Inner.user ELSE @]
FormSent(form) == [doc |-> form.doc, user |-> form.user, password |-> form.password]

(* Mutant: the document is asked for again after the wait.                   *)
FillShown ==
  /\ Waits("form")
  /\ \E user, password, button \in BOOLEAN :
       /\ page' = Form(user, password)
       /\ logins' = IF button THEN logins \cup {FormSent(Form(user, password))} ELSE logins
  /\ Return
  /\ UNCHANGED <<clicks, sent, entered, begun>>

(* Fields that are found are filled, and the form is sent if its button is.  *)
FillForm ==
  /\ Waits("form")
  /\ \E user, password, button \in BOOLEAN :
       /\ Click(Form(user, password))
       /\ logins' = IF button /\ Inner.doc = page.doc
                    THEN logins \cup {FormSent(Form(user, password))} ELSE logins
  /\ Return
  /\ UNCHANGED <<clicks, sent, entered, begun>>

(* A handler that does not wait, so that nothing comes between its steps.    *)
AtOnce ==
  /\ begun < MaxHandlers /\ begun' = begun + 1
  /\ UNCHANGED <<handlers, sent, loginVars>>

(* Mutant: that no star is left is not tested.                              *)
RewardStarUntested ==
  /\ AtOnce /\ page' = [page EXCEPT !.stars = @ - 1] /\ UNCHANGED clicks

(* The number in the title is read, and the button clicked if it is positive.  *)
(* (A button without a title is undefined behaviour, a string at a random      *)
(* address: no number in it, or behaviours that stop here.)                   *)
RewardStar ==
  /\ AtOnce /\ page.stars > 0
  /\ page' = [page EXCEPT !.stars = @ - 1]
  /\ UNCHANGED clicks

ClickXY == AtOnce /\ clicks' = clicks + 1 /\ UNCHANGED page

(* A click in the page chooses a gift of the tab shown, selects a tab, sends a *)
(* star, or does nothing that matters here.                                 *)
Lands ==
  \/ /\ page.tab \in Tabs
     /\ \E g \in GiftsOf[page.tab] : page' = [page EXCEPT !.gift = g]
     /\ handlers' = Disturbed(handlers)
  \/ /\ \E t \in Tabs : page' = [page EXCEPT !.tab = t]
     /\ UNCHANGED handlers
  \/ /\ page.stars > 0 /\ page' = [page EXCEPT !.stars = @ - 1]
     /\ UNCHANGED handlers
  \/ UNCHANGED <<page, handlers>>

(* The click of ClickXY is dispatched, in the loop or in a WaitFor ...        *)
PostedClick ==
  /\ clicks > 0 /\ clicks' = clicks - 1
  /\ Lands
  /\ UNCHANGED <<sent, loginVars, begun>>

(* ... the user clicks too, ...                                             *)
UserClicks == Lands /\ UNCHANGED <<clicks, sent, loginVars, begun>>

(* ... and the browser shows another document.                              *)
NewDocument ==
  /\ page.doc < MaxDocuments /\ page' = NewPage(page.doc + 1)
  /\ UNCHANGED <<clicks, handlers, sent, loginVars, begun>>

Next ==
  \/ \E ask \in Asks : RewardGift(ask)
  \/ \E user \in Users : Login(user)
  \/ NotFound \/ SelectTab \/ ChooseGift \/ SendGift \/ FillForm
  \/ RewardStar \/ ClickXY \/ PostedClick \/ UserClicks \/ NewDocument
Spec == Init /\ [][Next]_vars

-----------------------------------------------------------------------------
(* The variables have their types.                                         *)
TypeOK ==
  /\ page \in [doc : 1..MaxDocuments, tab : Tabs \cup {None}, gift : Gifts \cup {None},
               user : Users \cup {None}, password : Users \cup {None}, stars : 0..MaxStars]
  /\ clicks \in 0..begun
  /\ handlers \in Seq([at : {"panel", "tab", "gift", "form"}, doc : 1..page.doc,
                       ask : Asks \cup {None}, user : Users \cup {None}, disturbed : BOOLEAN])
  /\ begun \in Len(handlers)..MaxHandlers
  /\ sent \subseteq [asked : Gifts, gift : Gifts, disturbed : BOOLEAN]
  /\ logins \subseteq [doc : 1..page.doc, user : Users \cup {None}, password : Users \cup {None}]
  /\ entered \subseteq Users \X (1..page.doc)

(* RewardGift (lines 244-303) waits between choosing a gift and sending what *)
(* is chosen: whatever is nested, whatever is missing and whatever document   *)
(* is shown, another gift than the one asked for is sent only if somebody     *)
(* chose it in the document during that last wait.                          *)
WrongGiftOnlyByNesting == \A s \in sent : s.gift = s.asked \/ s.disturbed

(* Login (lines 167-200) waits between finding the document and filling its    *)
(* form: whatever is nested or navigated to in that wait, and whichever field  *)
(* is missing and keeps what stood in it, no form is sent with a name or a     *)
(* password entered for another document.  (Name and password may be of two    *)
(* users of that document: a field not found is not an error in the code.)     *)
LoginOfItsDocument ==
  \A l \in logins : \A u \in {l.user, l.password} \ {None} : <<u, l.doc>> \in entered
=============================================================================
