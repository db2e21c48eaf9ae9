--------------------------- MODULE MC_NonceSearch ---------------------------
EXTENDS NonceSearch

(* Of the nonces one at most is worth 10, and one 9: near either end. *)
MC_Worths ==
  {[n \in Nonces |-> IF n = a THEN 10 ELSE IF n = b THEN 9 ELSE 8] :
     a \in Nonces \cup {0}, b \in {0, RangeStart + 1, RangeEnd - 1}}
=============================================================================
