---------------------------- MODULE MCWebHandler ----------------------------
(* Two tabs that share no gift; the user may ask for a gift that is not on    *)
(* the tab asked for.                                                      *)
EXTENDS WebHandler, TLC

TwoTabs == ("t1" :> {"rose", "heart"}) @@ ("t2" :> {"car"})
AsksTyped == {<<"t1", "heart">>, <<"t2", "car">>, <<"t2", "rose">>}
=============================================================================
