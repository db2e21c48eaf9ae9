----------------------------- MODULE Settlement -----------------------------
(***************************************************************************)
(* Settling a round in the database. The task that attends a landed        *)
(* transaction records the challenges and the commissions and sends what   *)
(* was mined to pool_mine_success_processor, which records the earnings,   *)
(* balances and contributions of the miners, the pool's total and the      *)
(* winning contribution. Both are cut at every call of the database.       *)
(*                                                                         *)
(* A challenge is the number of the round it opens. How a round is mined   *)
(* is the subject of MiningRound: here it has one of RoundResults. The     *)
(* attender holds PAUSED until it has sent its message, so there is one.   *)
(* A definition whose name ends in Bug is a faulty variant of the one that *)
(* follows it, for mutation testing.                                       *)
(***************************************************************************)
EXTENDS Database, RewardSplit

CONSTANTS
  Miners,       \* miners that contribute, by the id of their record
  Receiver,     \* commissions_miner_id
  Enrolled,     \* miners with a row in rewards
  RoundResults, \* [rewards, best_nonce, contributions] of a landed transaction
  BatchSize,    \* rows in one transaction: 200
  MaxRounds,    \* bound: challenges of the chain
  MaxRows,      \* bound: rows of challenges
  MaxFaults     \* bound: faults

Contribution == [miner: Miners, nonce: Nat, hashpower: Nat \ {0}]
RoundResult == [rewards: Nat, best_nonce: Nat, contributions: Seq(Contribution)]

ASSUME MinersAssumption ==
  Receiver \notin Miners /\ Enrolled \subseteq Miners /\ IsFiniteSet(Enrolled)

(* The contributions of a round are a map from miners to what they found. *)
ASSUME ResultsAssumption ==
  /\ RoundResults \subseteq RoundResult
  /\ \A result \in RoundResults : \A i, j \in DOMAIN result.contributions :
       result.contributions[i].miner = result.contributions[j].miner => i = j
ASSUME BoundsAssumption ==
  /\ BatchSize \in Nat \ {0} /\ MaxRounds \in Nat \ {0}
  /\ MaxRows \in Nat /\ MaxFaults \in Nat

VARIABLES
  db,         \* the tables challenges, contributions, earnings, rewards, and total
  challenge,  \* the challenge of the proof on the chain
  server,     \* start-up, as far as the challenge's record is concerned
  attender,   \* the task that attends a landed transaction
  queue,      \* mine_success_sender's channel
  processor,  \* pool_mine_success_processor
  rewarded,   \* history: the reward of every attended round, 0 for the others
  crashed,    \* history: whether the process has died
  faults      \* the faults so far, by kind

tasks == <<attender, queue, processor>>
vars == <<db, challenge, server, tasks, rewarded, crashed, faults>>

NoResult == [rewards |-> 0, best_nonce |-> 0, contributions |-> <<>>]
NoAttender == [pc |-> "idle", old |-> 0, latest |-> 0, id |-> 0, result |-> NoResult]
NoMessage == [id |-> 0, challenge |-> 0, result |-> NoResult]
NoProcessor == [pc |-> "idle", msg |-> NoMessage, done |-> 0, contribution |-> 0]

(* Whether an answer with this fault is within the bound, and its count. *)
Counted(fault) ==
  IF fault = "none" THEN UNCHANGED faults
  ELSE /\ faults["connection"] + faults["statement"] + faults["answer"] + faults["crash"] < MaxFaults
       /\ faults' = [faults EXCEPT ![fault] = @ + 1]

(* The process dies, and with it every task and the channel. *)
Die ==
  /\ server' = [pc |-> "down", challenge |-> 0]
  /\ attender' = NoAttender /\ queue' = <<>> /\ processor' = NoProcessor
  /\ crashed' = TRUE

-----------------------------------------------------------------------------
(* The attender                                                             *)

(* The proof has changed: the transaction of this round has landed. *)
Land(result) ==
  /\ server.pc = "up" /\ attender.pc = "idle"
  /\ challenge < MaxRounds
  /\ challenge' = challenge + 1
  /\ attender' = [pc |-> "find", old |-> challenge, latest |-> challenge + 1, id |-> 0,
                  result |-> result]
  /\ rewarded' = [rewarded EXCEPT ![challenge] = result.rewards]
  /\ UNCHANGED <<db, server, queue, processor, crashed, faults>>

(* A challenge that changes without an attender: a transaction that landed *)
(* after the submission gave it up, or while the server was down.          *)
LandUnattended ==
  /\ attender.pc = "idle"
  /\ challenge < MaxRounds
  /\ challenge' = challenge + 1
  /\ UNCHANGED <<db, server, tasks, rewarded, crashed, faults>>

(* A call of the attender: After is its state once it has the answer. *)
Attend(pc, answers, After(_)) ==
  /\ attender.pc = pc
  /\ \E a \in answers :
       /\ Counted(a.fault)
       /\ db' = a.db
       /\ IF a.result = "abort" THEN Die
          ELSE attender' = After(a) /\ UNCHANGED <<server, queue, processor, crashed>>
  /\ UNCHANGED <<challenge, rewarded>>

At(pc) == [attender EXCEPT !.pc = pc]

(* The record's id is not kept. *)
FoundBug(a, otherwise) == IF a.result = "ok" THEN At("latest") ELSE At(otherwise)

Found(a, otherwise) ==
  IF a.result = "ok" THEN [attender EXCEPT !.pc = "latest", !.id = a.row.id] ELSE At(otherwise)

Then(a, pc, otherwise) == IF a.result = "ok" THEN At(pc) ELSE At(otherwise)

(* 'db_challenge: the old proof's record, or a new one after any error. *)
FindChallenge ==
  Attend("find", get_challenge_by_challenge(db, attender.old), LAMBDA a: Found(a, "insert"))

InsertMissing ==
  /\ Len(db.challenges) < MaxRows
  /\ Attend("insert", add_new_challenge(db, attender.old), LAMBDA a: Then(a, "again", "check"))

CheckMissing ==
  Attend("check", get_challenge_by_challenge(db, attender.old), LAMBDA a: Found(a, "insert"))

FindAgain ==
  Attend("again", get_challenge_by_challenge(db, attender.old), LAMBDA a: Found(a, "find"))

InsertLatest ==
  /\ Len(db.challenges) < MaxRows
  /\ Attend("latest", add_new_challenge(db, attender.latest),
            LAMBDA a: Then(a, "commission", "checkLatest"))

CheckLatest ==
  Attend("checkLatest", get_challenge_by_challenge(db, attender.latest),
         LAMBDA a: Then(a, "commission", "latest"))

AddCommission ==
  Attend("commission",
         add_new_earnings_batch(db, <<[miner |-> Receiver, challenge |-> attender.id,
                                       amount |-> commissions(attender.result.rewards)]>>),
         LAMBDA a: Then(a, "credit", "commission"))

CreditCommission ==
  Attend("credit",
         update_rewards(db, <<[miner |-> Receiver,
                               amount |-> commissions(attender.result.rewards)]>>),
         LAMBDA a: Then(a, "send", "credit"))

(* Then the nonce and the epoch's hashes are reset, and PAUSED is cleared. *)
SendMineSuccess ==
  /\ attender.pc = "send"
  /\ queue' = Append(queue, [id |-> attender.id, challenge |-> attender.old,
                             result |-> attender.result])
  /\ attender' = NoAttender
  /\ UNCHANGED <<db, challenge, server, processor, rewarded, crashed, faults>>

AttenderNext ==
  \/ FindChallenge \/ InsertMissing \/ CheckMissing \/ FindAgain
  \/ InsertLatest \/ CheckLatest
  \/ AddCommission \/ CreditCommission \/ SendMineSuccess

-----------------------------------------------------------------------------
(* pool_mine_success_processor                                              *)

Receive ==
  /\ processor.pc = "idle" /\ queue # <<>> /\ server.pc = "up"
  /\ queue' = Tail(queue)
  /\ processor' = [NoProcessor EXCEPT !.pc = "earnings", !.msg = Head(queue)]
  /\ UNCHANGED <<db, challenge, server, attender, rewarded, crashed, faults>>

MinersRewardsBug(result) == result.rewards

(* msg.rewards - msg.commissions *)
MinersRewards(result) == result.rewards - commissions(result.rewards)

Contributions == processor.msg.result.contributions

Share(c) ==
  earned_rewards(c.hashpower, total_hashpower(Contributions), MinersRewards(processor.msg.result))

(* The rows of the next batch: i_earnings, i_rewards or i_contributions. *)
Batch(Row(_)) ==
  LET last == Min({processor.done + BatchSize, Len(Contributions)})
  IN  [k \in 1..(last - processor.done) |-> Row(Contributions[processor.done + k])]

Earning(c) == [miner |-> c.miner, challenge |-> processor.msg.id, amount |-> Share(c)]

(* The commissions are not subtracted. *)
RewardBug(c) ==
  [miner |-> c.miner,
   amount |-> earned_rewards(c.hashpower, total_hashpower(Contributions),
                             processor.msg.result.rewards)]

Reward(c) == [miner |-> c.miner, amount |-> Share(c)]
ContributionRow(c) == [miner |-> c.miner, challenge |-> processor.msg.id, nonce |-> c.nonce]

Process(pc, answers, After(_)) ==
  /\ processor.pc = pc
  /\ \E a \in answers :
       /\ Counted(a.fault)
       /\ db' = a.db
       /\ IF a.result = "abort" THEN Die
          ELSE processor' = After(a) /\ UNCHANGED <<server, attender, queue, crashed>>
  /\ UNCHANGED <<challenge, rewarded>>

(* A batch that fails is skipped. *)
WrittenOnceBug(a) ==
  IF a.result = "abort" THEN processor ELSE [processor EXCEPT !.done = @ + BatchSize]

WrittenBug(a) ==
  IF a.result = "ok" THEN [processor EXCEPT !.done = @ + 1] ELSE processor

(* A batch is repeated until it is written. *)
Written(a) ==
  IF a.result = "ok" THEN [processor EXCEPT !.done = @ + BatchSize] ELSE processor

(* One batch too many, with no rows. *)
UnwrittenBug == processor.done <= Len(Contributions)

Unwritten == processor.done < Len(Contributions)

AddEarnings ==
  Unwritten /\ Process("earnings", add_new_earnings_batch(db, Batch(Earning)), Written)

UpdateRewards ==
  Unwritten /\ Process("rewards", update_rewards(db, Batch(Reward)), Written)

AddContributions ==
  Unwritten /\ Process("contributions",
                       add_new_contributions_batch(db, Batch(ContributionRow)), Written)

(* The order of the tables. *)
AfterTable ==
  [earnings |-> "rewards", rewards |-> "contributions", contributions |-> "pool"]

NextTable ==
  /\ processor.pc \in DOMAIN AfterTable /\ ~Unwritten
  /\ processor' = [processor EXCEPT !.pc = AfterTable[@], !.done = 0]
  /\ UNCHANGED <<db, challenge, server, attender, queue, rewarded, crashed, faults>>

UpdatePool ==
  Process("pool", update_pool_rewards(db, processor.msg.result.rewards),
          LAMBDA a: IF a.result = "ok" THEN [processor EXCEPT !.pc = "winner"] ELSE processor)

(* By the nonce alone. Without exactly one row, the record is left as it is. *)
FindWinner ==
  Process("winner", get_contribution_id_with_nonce(db, processor.msg.result.best_nonce),
          LAMBDA a: IF a.result = "ok"
                    THEN [processor EXCEPT !.pc = "challenge", !.contribution = a.row.id]
                    ELSE NoProcessor)

(* An error is only logged. *)
UpdateChallenge ==
  Process("challenge",
          update_challenge_rewards(db, processor.msg.challenge, processor.contribution,
                                   processor.msg.result.rewards),
          LAMBDA a: NoProcessor)

ProcessorNext ==
  \/ Receive \/ AddEarnings \/ UpdateRewards \/ AddContributions \/ NextTable
  \/ UpdatePool \/ FindWinner \/ UpdateChallenge

-----------------------------------------------------------------------------
(* Crash and start-up                                                       *)

Crash ==
  /\ "crash" \in Faults /\ Counted("crash")
  /\ server.pc = "up"
  /\ Die
  /\ UNCHANGED <<db, challenge, rewarded>>

(* Start-up reads the proof. *)
Start ==
  /\ server.pc = "down"
  /\ server' = [pc |-> "find", challenge |-> challenge]
  /\ UNCHANGED <<db, challenge, tasks, rewarded, crashed, faults>>

(* A failure of start-up's panics, after which the server is started again. *)
Started(pc, answers, Next(_)) ==
  /\ server.pc = pc
  /\ \E a \in answers :
       /\ Counted(a.fault)
       /\ db' = a.db
       /\ server' = [server EXCEPT !.pc = Next(a.result)]
  /\ UNCHANGED <<challenge, tasks, rewarded, crashed>>

StartFind ==
  Started("find", get_challenge_by_challenge(db, server.challenge),
          LAMBDA result: CASE result = "ok" -> "up"
                           [] result = "connection" -> "down"
                           [] OTHER -> "insert")

StartInsert ==
  /\ Len(db.challenges) < MaxRows
  /\ Started("insert", add_new_challenge(db, server.challenge),
             LAMBDA result: IF result = "ok" THEN "up" ELSE "down")

-----------------------------------------------------------------------------
Init ==
  /\ db = [challenges |-> <<>>, contributions |-> <<>>, earnings |-> <<>>, total |-> 0,
           rewards |-> SetToSeq({[miner |-> m, balance |-> 0] : m \in Enrolled \cup {Receiver}})]
  /\ challenge = 1
  /\ server = [pc |-> "down", challenge |-> 0]
  /\ attender = NoAttender /\ queue = <<>> /\ processor = NoProcessor
  /\ rewarded = [c \in 1..MaxRounds |-> 0]
  /\ crashed = FALSE
  /\ faults = [kind \in FaultKinds |-> 0]

Next ==
  \/ \E result \in RoundResults : Land(result)
  \/ LandUnattended
  \/ AttenderNext
  \/ ProcessorNext
  \/ Crash \/ Start \/ StartFind \/ StartInsert

Spec == Init /\ [][Next]_vars

(* The server is started again, its tasks run, and faults come to an end. *)
FairSpec ==
  /\ Spec
  /\ WF_vars(AttenderNext) /\ WF_vars(ProcessorNext)
  /\ WF_vars(Start \/ StartFind \/ StartInsert)

-----------------------------------------------------------------------------
(* Properties                                                               *)

Rounds == 1..MaxRounds
Payees == Miners \cup {Receiver}
RowIds == 0..MaxRows

Messages == [id: RowIds, challenge: 0..MaxRounds, result: RoundResults \cup {NoResult}]

Database ==
  [challenges: Seq([id: RowIds, challenge: Rounds, contribution: Nat, rewards: Nat]),
   contributions: Seq([id: Nat, miner: Miners, challenge: RowIds \ {0}, nonce: Nat]),
   earnings: Seq([miner: Payees, challenge: RowIds \ {0}, amount: Nat]),
   rewards: Seq([miner: Payees, balance: Nat]),
   total: Nat]

(* The variables have their types. *)
TypeOK ==
  /\ db \in Database
  /\ challenge \in Rounds
  /\ server \in [pc: {"up", "down", "find", "insert"}, challenge: 0..MaxRounds]
  /\ attender \in [pc: {"idle", "find", "insert", "check", "again", "latest", "checkLatest",
                        "commission", "credit", "send"},
                   old: 0..MaxRounds, latest: 0..MaxRounds, id: RowIds,
                   result: RoundResults \cup {NoResult}]
  /\ queue \in Seq(Messages)
  /\ processor \in [pc: {"idle", "pool", "winner", "challenge"} \cup DOMAIN AfterTable,
                    msg: Messages, done: Nat, contribution: Nat]
  /\ rewarded \in [Rounds -> Nat]
  /\ crashed \in BOOLEAN
  /\ faults \in [FaultKinds -> 0..MaxFaults]

RoundOf(row) == db.challenges[row.challenge].challenge
Earned(m) == PaidTo(m, db.earnings)

(* What is recorded as earned in a round. *)
RoundPaid(c) ==
  SumTo([k \in DOMAIN db.earnings |-> IF RoundOf(db.earnings[k]) = c THEN db.earnings[k].amount ELSE 0],
        Len(db.earnings))

(* No round is settled twice for a miner, however often a batch is repeated, *)
(* whatever a restart leaves behind and whoever else writes: two rows of     *)
(* earnings, or of contributions, of the same miner are of different rounds. *)
SettledOnce ==
  /\ \A i, j \in DOMAIN db.earnings :
       /\ db.earnings[i].miner = db.earnings[j].miner
       /\ RoundOf(db.earnings[i]) = RoundOf(db.earnings[j])
       => i = j
  /\ \A i, j \in DOMAIN db.contributions :
       /\ db.contributions[i].miner = db.contributions[j].miner
       /\ RoundOf(db.contributions[i]) = RoundOf(db.contributions[j])
       => i = j

(* A balance never runs ahead of the earnings that explain it: a process that *)
(* dies between the two tables leaves earnings without balance, never a       *)
(* balance without earnings.                                                  *)
BalancesAreEarned ==
  \A i \in DOMAIN db.rewards : db.rewards[i].balance <= Earned(db.rewards[i].miner)

(* What is recorded as earned in a round, commissions included, never exceeds *)
(* what the pool was paid for it, though the shares are rounded twice and the *)
(* commissions are written by another task.                                   *)
NotOverpaid == \A c \in Rounds : RoundPaid(c) <= rewarded[c]

Settled ==
  server.pc = "up" /\ attender.pc = "idle" /\ queue = <<>> /\ processor.pc = "idle"

(* Once every round is settled by a process that never died, each balance is  *)
(* what the miner earned, and the pool's total is what it was paid; each lost *)
(* answer can at most have counted a reward once more.                        *)
BooksBalance ==
  Settled /\ ~crashed =>
    LET paid == SumTo(rewarded, MaxRounds)
    IN  /\ \A i \in DOMAIN db.rewards : db.rewards[i].balance = Earned(db.rewards[i].miner)
        /\ db.total >= paid
        /\ faults["answer"] = 0 => db.total = paid

(* Contribution k is of round c, unless c has no contribution of its nonce. *)
IsOfRound(k, c) ==
  \A j \in DOMAIN db.contributions :
    /\ db.contributions[j].nonce = db.contributions[k].nonce
    /\ RoundOf(db.contributions[j]) = c
    => RoundOf(db.contributions[k]) = c

(* A winner is looked up by its nonce, and nonces start again every round: a *)
(* challenge names the contribution of another round as its winner only when *)
(* the frozen contributions of its own round lack the nonce that was sent.   *)
WinnerIsOfRound ==
  \A i \in DOMAIN db.challenges :
    LET row == db.challenges[i]
    IN  row.contribution # 0 => IsOfRound(row.contribution, row.challenge)

(* A challenge has one record: the attender inserts one only "if necessary/  *)
(* missing", and every reader expects exactly one.                           *)
OneRowPerChallenge ==
  \A i, j \in DOMAIN db.challenges :
    db.challenges[i].challenge = db.challenges[j].challenge => i = j

(* The next batch of rewards, if any, is of a miner with a row. update_rewards *)
(* refuses a batch that changes no row, and it is repeated for ever.           *)
SomeoneIsEnrolled ==
  processor.pc = "rewards" /\ processor.done < Len(Contributions) =>
    \E update \in ToSet(Batch(Reward)), row \in ToSet(db.rewards) : row.miner = update.miner

(* In spite of any faults and restarts, the attender ends its work and with it *)
(* the pause as long as no challenge has two records, and the processor drains *)
(* its queue as long as, in addition, every batch has a miner with a row.      *)
RoundsAreSettled ==
  []OneRowPerChallenge =>
    /\ []<>(attender.pc = "idle")
    /\ []SomeoneIsEnrolled => []<>(queue = <<>> /\ processor.pc = "idle")
=============================================================================
