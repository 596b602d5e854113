---------------------------- MODULE MCGiftNotify ----------------------------
(* Instances of GiftNotify for TLC: five objects on the wire, with junk       *)
(* between the second and the third (the terminator byte of the protocol).    *)
(* Those that begin at 1 and 10 are gifts, 12 is a 601 whose token throws, 14 *)
(* a 601 without a token, and 4 to 8 is nested, so that a tail of it is unlike *)
(* the rest.                                                               *)
EXTENDS GiftNotify

MCStream == <<"open", "other", "close",
              "open", "open", "close", "other", "close", "other",
              "open", "close", "open", "close", "open", "close">>
MCObjects == {<<1, 3>>, <<4, 8>>, <<10, 11>>, <<12, 13>>, <<14, 15>>}
MCLevel == [n \in 0..Len(MCStream) |->
              LET count[k \in 0..n] == IF k = 0 THEN 0 ELSE count[k-1] + Delta(MCStream[k])
              IN  count[n]]
MCCmd == [o \in MCObjects |-> IF o[1] = 4 THEN 501 ELSE 601]
MCContent == [o \in MCObjects |-> CASE o[1] \in {1, 10} -> "token" [] o[1] = 12 -> "odd"
                                    [] OTHER -> "plain"]

ASSUME MCAssumption == BracesDelimitObjects
=============================================================================
