----------------------------- MODULE ClaimLife ------------------------------
(***************************************************************************)
(* What paying out rewards promises: a miner has one accepted claim at a   *)
(* time; a claim is paid by one transaction, a payment is recorded, and a  *)
(* claim is done with only when its payment is recorded. A restart forgets *)
(* what is accepted; what is on its way by then may still be paid. A miner *)
(* that sends requests at the same time is promised less: a claim of its   *)
(* own that is accepted later may take the place of an earlier one, or be  *)
(* done with when that one is. Claims implements this, with its requests,  *)
(* its processor and its chain.                                            *)
(***************************************************************************)
EXTENDS Naturals

CONSTANTS
  Miners,     \* who claims
  Amounts,    \* what may be claimed
  Signatures, \* of the transactions that pay
  None        \* a miner without an accepted claim

VARIABLES
  queue,    \* the accepted claim of each miner
  issued,   \* the number of claims accepted so far
  payments, \* which claim of whom was paid by which transaction
  recorded, \* the payments that the database has
  restarts, \* the number of restarts so far
  raced     \* the miners that sent requests at the same time

vars == <<queue, issued, payments, recorded, restarts, raced>>

Init ==
  /\ queue = [m \in Miners |-> None] /\ issued = 0
  /\ payments = {} /\ recorded = {} /\ restarts = 0 /\ raced = {}

Race(m) ==
  /\ raced' = raced \cup {m}
  /\ UNCHANGED <<queue, issued, payments, recorded, restarts>>

Accept(m, amount) ==
  /\ queue[m] = None \/ m \in raced
  /\ issued' = issued + 1
  /\ queue' = [queue EXCEPT ![m] = [id |-> issued + 1, amount |-> amount]]
  /\ UNCHANGED <<payments, recorded, restarts, raced>>

Pay(m, claim, signature) ==
  /\ \A p \in payments : p.claim # claim /\ p.signature # signature
  /\ payments' = payments \cup {[claim |-> claim, miner |-> m, signature |-> signature]}
  /\ UNCHANGED <<queue, issued, recorded, restarts, raced>>

Record(p) ==
  /\ recorded' = recorded \cup {p}
  /\ UNCHANGED <<queue, issued, payments, restarts, raced>>

Finish(m) ==
  /\ queue[m] # None
  /\ \E p \in recorded :
       \/ p.claim = queue[m].id
       \/ m \in raced /\ p.miner = m /\ p.claim < queue[m].id
  /\ queue' = [queue EXCEPT ![m] = None]
  /\ UNCHANGED <<issued, payments, recorded, restarts, raced>>

Forget ==
  /\ queue' = [m \in Miners |-> None]
  /\ restarts' = restarts + 1
  /\ UNCHANGED <<issued, payments, recorded, raced>>

Next ==
  \/ \E m \in Miners :
       \/ Race(m) \/ Finish(m)
       \/ \E amount \in Amounts : Accept(m, amount)
       \/ \E claim \in 1..issued, signature \in Signatures : Pay(m, claim, signature)
  \/ \E p \in payments : Record(p)
  \/ Forget

Spec == Init /\ [][Next]_vars
=============================================================================
