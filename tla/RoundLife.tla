----------------------------- MODULE RoundLife ------------------------------
(***************************************************************************)
(* What mining promises from one round to the next: the pool works on one  *)
(* submission at a time, a solution with the contributions that share in   *)
(* it; the chain accepts one of the solutions it was offered for each      *)
(* challenge; and a submission is settled, for what the chain paid, or     *)
(* given up. MiningRound implements this, with its tasks, its retries, its *)
(* miners and its chain.                                                   *)
(***************************************************************************)
EXTENDS Integers, Sequences

CONSTANTS
  Solutions,     \* what miners find: [c, ch, range, diff]
  Contributions, \* what each miner has contributed to a round
  Wallet,        \* Wallet[c]: the miner that client c belongs to
  None,          \* no contribution
  Reward         \* what an accepted solution pays

VARIABLES
  accepted,   \* the solutions the chain has accepted, one for each challenge
  offered,    \* those it may still accept
  submission, \* what the pool is submitting, if anything
  settled     \* what was paid out, in order

vars == <<accepted, offered, submission, settled>>

Init == accepted = <<>> /\ offered = {} /\ submission = {} /\ settled = <<>>

(* Who found the solution has a share, for nothing easier than the solution. *)
SharesIn(s) ==
  LET own == s.contributions[Wallet[s.best.c]]
  IN  own # None /\ own.diff >= s.best.diff

Begin ==
  /\ submission = {}
  /\ \E s \in submission' :
       /\ submission' = {s}
       /\ s.best \in Solutions /\ s.contributions \in Contributions
       /\ SharesIn(s)
  /\ UNCHANGED <<accepted, offered, settled>>

Offer ==
  /\ \E s \in submission : s.best.ch = Len(accepted) /\ offered' = offered \cup {s.best}
  /\ UNCHANGED <<accepted, submission, settled>>

Accept ==
  /\ \E solution \in offered : accepted' = Append(accepted, solution)
  /\ offered' = {}
  /\ UNCHANGED <<submission, settled>>

(* Only the solution that the chain accepted, and only once. *)
Settle ==
  /\ \E s \in submission :
       /\ s.best.ch < Len(accepted) /\ accepted[s.best.ch + 1] = s.best
       /\ \A i \in DOMAIN settled : settled[i].ch < s.best.ch
       /\ settled' = Append(settled, [ch |-> s.best.ch, rewards |-> Reward, best |-> s.best,
                                      contributions |-> s.contributions])
  /\ submission' = {}
  /\ UNCHANGED <<accepted, offered>>

GiveUp ==
  /\ submission # {}
  /\ submission' = {}
  /\ UNCHANGED <<accepted, offered, settled>>

Next == Begin \/ Offer \/ Accept \/ Settle \/ GiveUp

Spec == Init /\ [][Next]_vars
=============================================================================
