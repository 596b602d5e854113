---------------------------- MODULE MCMixPackage ----------------------------
(* An instance of MixPackage for TLC whose stream breaks the assumption     *)
(* BracesDelimitObjects.                                                    *)
EXTENDS MixPackage

(* A chat object whose text holds a brace, between two plain objects:       *)
(* position 6 is the brace in the string.                                   *)
ChatStream == <<"open", "other", "close", "open", "open", "close", "other", "close", "close", "open", "open", "other", "close", "close">>
ChatObjects == {<<1, 3>>, <<4, 9>>, <<10, 14>>}

ChatLevel == [n \in 0..Len(ChatStream) |->
                LET count[k \in 0..n] == IF k = 0 THEN 0 ELSE count[k-1] + Delta(ChatStream[k])
                IN  count[n]]
=============================================================================
