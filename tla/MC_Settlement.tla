--------------------------- MODULE MC_Settlement ----------------------------
EXTENDS Settlement

CONSTANTS m1, m2, m3, receiver

By(m, nonce, hashpower) == [miner |-> m, nonce |-> nonce, hashpower |-> hashpower]

(* A round of two contributions, whose nonce recurs in the next; a round over *)
(* two batches, with a miner without a row in rewards, whose frozen            *)
(* contributions lack the nonce that was sent; and one of that miner alone.    *)
MCResults ==
  {[rewards |-> 100, best_nonce |-> 1, contributions |-> <<By(m1, 2, 1), By(m2, 1, 2)>>],
   [rewards |-> 47, best_nonce |-> 1,
    contributions |-> <<By(m3, 2, 1), By(m1, 4, 4), By(m2, 3, 2)>>],
   [rewards |-> 47, best_nonce |-> 1, contributions |-> <<By(m3, 1, 1)>>]}
=============================================================================
