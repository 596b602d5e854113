--------------------------- MODULE MCSearchHelper ---------------------------
(* A site for TLC: three pages, of which pagecount_ = 3 reads two; family 7   *)
(* is on both, and out of order; family 5 lists a singer twice.              *)
EXTENDS SearchHelper

Site == <<<<7, 5>>, <<7, 9>>, <<11>>>>
SingersOf == (5 :> <<51, 53, 51>>) @@ (7 :> <<71, 72>>) @@ (9 :> <<91>>) @@ (11 :> <<111>>)
Days == (51 :> 60) @@ (53 :> 31) @@ (71 :> 30) @@ (72 :> 90) @@ (91 :> 31) @@ (111 :> 90)
=============================================================================
