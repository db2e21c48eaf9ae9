----------------------------- MODULE MC_Claims ------------------------------
EXTENDS Claims, TLC

CONSTANTS m1, m2, r1, r2, r3

(* m1 may have two requests at a time. *)
OwnRequests == (r1 :> m1) @@ (r2 :> m1) @@ (r3 :> m2)
=============================================================================
