------------------------------ MODULE Database ------------------------------
(***************************************************************************)
(* The statements of the PostgreSQL build of database.rs that settlement   *)
(* and enrolment use, each an operator from a database to the set of its   *)
(* answers: what the database is afterwards, the result the caller sees,   *)
(* the row it reads, and the fault that happened on the way.               *)
(*                                                                         *)
(* Columns no caller reads are left out, and the pool has one row in pools *)
(* at most. A statement whose error is unwrapped aborts the process (panic *)
(* is 'abort'): an answer with the result "abort". What an unwrapped error *)
(* of prepare_cached does is left to the crash of the modules that use     *)
(* this one. An operator whose name ends in Bug is a faulty variant of the *)
(* one that follows it, for mutation testing.                              *)
(***************************************************************************)
EXTENDS Integers, Sequences, SequencesExt, FiniteSets, Sums

CONSTANTS
  NoRow,  \* the row of an answer that has none
  Faults  \* which of FaultKinds may happen

(* The pool has no connection to give, a statement is refused, a statement is *)
(* executed and its answer is lost, the process dies between two steps.       *)
FaultKinds == {"connection", "statement", "answer", "crash"}

ASSUME DatabaseFaultsAssumption == Faults \subseteq FaultKinds

(* Results are "ok", "abort" and DatabaseError: FailedToGetConnectionFromPool, *)
(* QueryFailed (From<PgError> makes it of every driver error), and the two for *)
(* a wrong number of rows.                                                     *)
Results == {"ok", "abort", "connection", "query", "rows"}

Answer(d, result, row, fault) ==
  [db |-> d, result |-> result, row |-> row, fault |-> fault]

Unless(fault, answer) == IF fault \in Faults THEN {answer} ELSE {}

NoConnection(d) == Unless("connection", Answer(d, "connection", NoRow, "connection"))

(* query_one: an error unless there is exactly one row. Every table that is *)
(* queried has an id, so that its rows differ.                              *)
QueryOne(d, rows) ==
  (IF \E row \in rows : rows = {row}
   THEN {Answer(d, "ok", row, "none") : row \in rows}
   ELSE {Answer(d, "query", NoRow, "none")})
  \cup NoConnection(d)
  \cup Unless("statement", Answer(d, "query", NoRow, "statement"))

(* execute of one statement that changes n rows. *)
Execute(d, after, n) ==
  {Answer(after, IF n = 1 THEN "ok" ELSE "rows", NoRow, "none")}
  \cup NoConnection(d)
  \cup Unless("statement", Answer(d, "query", NoRow, "statement"))
  \cup Unless("answer", Answer(after, "query", NoRow, "answer"))

(* A statement that violates a unique index. *)
Refused(d) == {Answer(d, "query", NoRow, "none")} \cup NoConnection(d)

(* A transaction that changes n rows: what fails in it is unwrapped. *)
Transaction(d, after, n) ==
  {Answer(after, IF n = 0 THEN "rows" ELSE "ok", NoRow, "none")}
  \cup NoConnection(d)
  \cup Unless("statement", Answer(d, "abort", NoRow, "statement"))
  \cup Unless("answer", Answer(after, "abort", NoRow, "answer"))

-----------------------------------------------------------------------------
(* challenges, contributions, earnings, rewards, pools.total_rewards. A row's *)
(* id is its position: no row is ever deleted.                                *)

get_challenge_by_challenge(d, c) ==
  QueryOne(d, {row \in ToSet(d.challenges) : row.challenge = c})

add_new_challenge(d, c) ==
  Execute(d,
    [d EXCEPT !.challenges = Append(@, [id |-> Len(@) + 1, challenge |-> c,
                                        contribution |-> 0, rewards |-> 0])], 1)

add_new_earnings_batch(d, batch) ==
  Transaction(d, [d EXCEPT !.earnings = @ \o batch], Len(batch))

add_new_contributions_batch(d, batch) ==
  LET Row(k) == [id |-> Len(d.contributions) + k, miner |-> batch[k].miner,
                 challenge |-> batch[k].challenge, nonce |-> batch[k].nonce]
  IN  Transaction(d, [d EXCEPT !.contributions = @ \o [k \in 1..Len(batch) |-> Row(k)]],
                  Len(batch))

(* What the rows, of earnings or of updates, amount to for a miner. *)
PaidTo(m, rows) ==
  SumTo([k \in DOMAIN rows |-> IF rows[k].miner = m THEN rows[k].amount ELSE 0], Len(rows))

(* The balances of one or more updates, each added to its miner's row. *)
update_rewards(d, batch) ==
  LET Hit(i) == \E k \in DOMAIN batch : batch[k].miner = d.rewards[i].miner
      after == [i \in DOMAIN d.rewards |->
                 [d.rewards[i] EXCEPT !.balance = @ + PaidTo(d.rewards[i].miner, batch)]]
  IN  Transaction(d, [d EXCEPT !.rewards = after], Cardinality({i \in DOMAIN after : Hit(i)}))

update_pool_rewards(d, amount) == Execute(d, [d EXCEPT !.total = @ + amount], 1)

(* The first of several rows, as LIMIT 1 would give. *)
get_contribution_id_with_nonceBug(d, nonce) ==
  LET rows == {row \in ToSet(d.contributions) : row.nonce = nonce}
  IN  QueryOne(d, {row \in rows : \A other \in rows : row.id <= other.id})

(* ORDER BY id DESC, without LIMIT: a nonce of two rounds gives two rows. *)
get_contribution_id_with_nonce(d, nonce) ==
  QueryOne(d, {row \in ToSet(d.contributions) : row.nonce = nonce})

update_challenge_rewards(d, c, contribution, rewards) ==
  LET Hit(i) == d.challenges[i].challenge = c
      Set(row) == [row EXCEPT !.contribution = contribution, !.rewards = rewards]
      after == [i \in DOMAIN d.challenges |->
                 IF Hit(i) THEN Set(d.challenges[i]) ELSE d.challenges[i]]
  IN  Execute(d, [d EXCEPT !.challenges = after], Cardinality({i \in DOMAIN after : Hit(i)}))

-----------------------------------------------------------------------------
(* miners (pubkey is unique), pools (authority_pubkey is unique), rewards   *)

get_miner_by_pubkey_str(d, m) ==
  QueryOne(d, {row \in ToSet(d.miners) : row.pubkey = m})

HasMiner(d, m) == \E i \in DOMAIN d.miners : d.miners[i].pubkey = m

WithMiner(d, m) ==
  [d EXCEPT !.miners = Append(@, [id |-> Len(@) + 1, pubkey |-> m, enabled |-> TRUE])]

add_new_miner(d, m) == IF HasMiner(d, m) THEN Refused(d) ELSE Execute(d, WithMiner(d, m), 1)

get_pool_by_authority_pubkey(d) == QueryOne(d, ToSet(d.pools))

add_new_pool(d) ==
  IF d.pools = <<>> THEN Execute(d, [d EXCEPT !.pools = Append(@, [id |-> 1])], 1)
                    ELSE Refused(d)

WithReward(d, id) == [d EXCEPT !.rewards = Append(@, [miner |-> id, balance |-> 0])]

add_new_reward(d, id) == Execute(d, WithReward(d, id), 1)

(* Without a transaction, and the second insert is not looked at. *)
signup_enrollmentBug(d, m) ==
  IF HasMiner(d, m)
  THEN {Answer(d, "abort", NoRow, "none")} \cup NoConnection(d)
  ELSE LET withMiner == WithMiner(d, m)
       IN  {Answer(WithReward(withMiner, Len(withMiner.miners)), "ok", NoRow, "none")}
           \cup Unless("statement", Answer(withMiner, "ok", NoRow, "statement"))

(* Miner and balance in one transaction, whose first statement is unwrapped: a *)
(* miner that exists aborts the process. A missing pool rolls it back.         *)
signup_enrollment(d, m) ==
  IF HasMiner(d, m)
  THEN {Answer(d, "abort", NoRow, "none")} \cup NoConnection(d)
  ELSE LET withMiner == WithMiner(d, m)
           after == WithReward(withMiner, Len(withMiner.miners))
       IN  IF d.pools = <<>> THEN Refused(d) ELSE Transaction(d, after, 2)
=============================================================================
