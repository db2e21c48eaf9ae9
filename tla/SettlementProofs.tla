-------------------------- MODULE SettlementProofs --------------------------
(***************************************************************************)
(* What Settlement's runs check on small instances, for every number of    *)
(* miners, rounds, rows, faults and crashes, and every batch size. The     *)
(* inductive invariant comes in layers, each proved from those before it:  *)
(* which round every record, message and task belongs to (Shape), what is  *)
(* written of a round already (Fresh), what is earned and not yet added to *)
(* a balance (Owed), what of a reward is paid out (Paid), what is still to *)
(* be added to the pool's total (Booked), and that a round whose winner is *)
(* named is over (Named).                                                  *)
(***************************************************************************)
EXTENDS Settlement, SumProofs, SequenceTheorems

-----------------------------------------------------------------------------
(* The rounds of the records, the messages and the tasks                   *)

(* The rows of earnings and contributions are of challenges with a record. *)
RowsAreOfChallenges ==
  /\ \A i \in DOMAIN db.challenges :
       /\ db.challenges[i].id = i
       /\ db.challenges[i].contribution \in {0} \cup DOMAIN db.contributions
  /\ \A i \in DOMAIN db.contributions :
       /\ db.contributions[i].id = i
       /\ db.contributions[i].challenge \in DOMAIN db.challenges
  /\ \A i \in DOMAIN db.earnings : db.earnings[i].challenge \in DOMAIN db.challenges

(* A past round, with the record of its challenge and its reward. *)
IsRound(id, c, result) ==
  /\ result \in RoundResults
  /\ c \in 1..(challenge - 1)
  /\ id \in DOMAIN db.challenges
  /\ db.challenges[id].challenge = c
  /\ rewarded[c] = result.rewards

WithRecord == {"latest", "checkLatest", "commission", "credit", "send"}

AttenderShape ==
  /\ attender.pc = "idle" => attender = NoAttender
  /\ attender.pc # "idle" =>
       /\ attender.result \in RoundResults
       /\ attender.old = challenge - 1 /\ attender.old >= 1
       /\ attender.latest = challenge
       /\ rewarded[attender.old] = attender.result.rewards
  /\ attender.pc \in WithRecord => IsRound(attender.id, attender.old, attender.result)

QueueShape ==
  /\ \A k \in DOMAIN queue :
       /\ IsRound(queue[k].id, queue[k].challenge, queue[k].result)
       /\ attender.pc # "idle" => queue[k].challenge < attender.old
  /\ \A k, l \in DOMAIN queue : k < l => queue[k].challenge < queue[l].challenge

ProcessorShape ==
  /\ processor.pc = "idle" => processor = NoProcessor
  /\ processor.pc # "idle" =>
       /\ IsRound(processor.msg.id, processor.msg.challenge, processor.msg.result)
       /\ attender.pc # "idle" => processor.msg.challenge < attender.old
       /\ \A k \in DOMAIN queue : processor.msg.challenge < queue[k].challenge
  /\ processor.pc = "challenge" => processor.contribution \in DOMAIN db.contributions

OtherShape ==
  /\ server.pc \in {"find", "insert"} => server.challenge \in Rounds
  /\ \A c \in Rounds : c >= challenge => rewarded[c] = 0

Shape ==
  /\ TypeOK /\ RowsAreOfChallenges
  /\ AttenderShape /\ QueueShape /\ ProcessorShape /\ OtherShape

-----------------------------------------------------------------------------
(* What is written of a round                                              *)

Upto(p) ==
  IF p.done < Len(p.msg.result.contributions) THEN p.done ELSE Len(p.msg.result.contributions)

(* How many of the contributions are in the three tables. *)
EarningsWritten(p) == IF p.pc = "earnings" THEN Upto(p) ELSE Len(p.msg.result.contributions)
RewardsWritten(p) ==
  IF p.pc = "earnings" THEN 0
  ELSE IF p.pc = "rewards" THEN Upto(p) ELSE Len(p.msg.result.contributions)
ContributionsWritten(p) ==
  IF p.pc \in {"earnings", "rewards"} THEN 0
  ELSE IF p.pc = "contributions" THEN Upto(p) ELSE Len(p.msg.result.contributions)

Among(m, n) == \E k \in 1..n : Contributions[k].miner = m

(* A row for a miner and a round that is recorded already. *)
OtherFresh(m, r) ==
  /\ r \in 1..(challenge - 1)
  /\ attender.pc # "idle" /\ r = attender.old => m = Receiver /\ attender.pc \in {"credit", "send"}
  /\ \A k \in DOMAIN queue : r = queue[k].challenge => m = Receiver
WrittenFresh(m, r, n) ==
  processor.pc # "idle" /\ r = processor.msg.challenge => m = Receiver \/ Among(m, n)

EarningsFresh ==
  \A i \in DOMAIN db.earnings :
    LET row == db.earnings[i]
    IN  /\ OtherFresh(row.miner, RoundOf(row))
        /\ WrittenFresh(row.miner, RoundOf(row), EarningsWritten(processor))

ContributionsFresh ==
  \A i \in DOMAIN db.contributions :
    LET row == db.contributions[i]
    IN  /\ OtherFresh(row.miner, RoundOf(row))
        /\ WrittenFresh(row.miner, RoundOf(row), ContributionsWritten(processor))

Fresh == EarningsFresh /\ ContributionsFresh /\ SettledOnce

-----------------------------------------------------------------------------
(* Balances                                                                *)

PaidFirst(m, rows, n) ==
  SumTo([k \in DOMAIN rows |-> IF rows[k].miner = m THEN rows[k].amount ELSE 0], n)

Shares == [k \in DOMAIN Contributions |->
             [miner |-> Contributions[k].miner, amount |-> Share(Contributions[k])]]

(* What a miner has earned and its balance has not got yet. *)
CommissionDue(m) ==
  IF attender.pc = "credit" /\ m = Receiver THEN commissions(attender.result.rewards) ELSE 0

ShareDue(m) ==
  PaidFirst(m, Shares, EarningsWritten(processor)) - PaidFirst(m, Shares, RewardsWritten(processor))

Owed ==
  \A i \in DOMAIN db.rewards :
    LET m == db.rewards[i].miner
        owed == db.rewards[i].balance + CommissionDue(m) + ShareDue(m)
    IN  /\ owed <= Earned(m)
        /\ ~crashed => owed = Earned(m)

-----------------------------------------------------------------------------
(* Rewards                                                                 *)

AmountOf(rows, n) == SumTo([k \in DOMAIN rows |-> rows[k].amount], n)

PaidFor(c) ==
  /\ RoundPaid(c) <= rewarded[c]
  /\ attender.pc # "idle" /\ c = attender.old =>
       RoundPaid(c) <= commissions(attender.result.rewards)
  /\ \A k \in DOMAIN queue :
       c = queue[k].challenge => RoundPaid(c) <= commissions(queue[k].result.rewards)
  /\ processor.pc # "idle" /\ c = processor.msg.challenge =>
       RoundPaid(c)
         <= commissions(processor.msg.result.rewards) + AmountOf(Shares, EarningsWritten(processor))

Paid == \A c \in Rounds : PaidFor(c)

-----------------------------------------------------------------------------
(* The pool's total                                                        *)

Queued == SumTo([k \in DOMAIN queue |-> queue[k].result.rewards], Len(queue))
InHand ==
  IF processor.pc \in {"winner", "challenge"} THEN 0 ELSE processor.msg.result.rewards

(* The rewards that are not added yet. *)
Outstanding == attender.result.rewards + Queued + InHand

Booked ==
  ~crashed =>
    LET paid == SumTo(rewarded, MaxRounds)
    IN  /\ db.total + Outstanding >= paid
        /\ faults["answer"] = 0 => db.total + Outstanding = paid

-----------------------------------------------------------------------------
(* The winner                                                              *)

(* Nothing more is recorded of a round. *)
Closed(r) ==
  /\ r \in 1..(challenge - 1)
  /\ attender.pc # "idle" => r # attender.old
  /\ \A k \in DOMAIN queue : r # queue[k].challenge
  /\ processor.pc # "idle" => r # processor.msg.challenge

Named ==
  /\ processor.pc = "challenge" => IsOfRound(processor.contribution, processor.msg.challenge)
  /\ \A i \in DOMAIN db.challenges :
       LET row == db.challenges[i]
       IN  row.contribution # 0 =>
             Closed(row.challenge) /\ IsOfRound(row.contribution, row.challenge)

-----------------------------------------------------------------------------
(* How a reward is split                                                   *)

(* A quotient, multiplied back. *)
LEMMA Division ==
  \A n \in Nat, d \in Nat : d > 0 => n \div d \in Nat /\ (n \div d) * d <= n
  OBVIOUS

(* The commissions are a part of the reward. *)
LEMMA CommissionsBound ==
  \A r \in Nat : commissions(r) \in Nat /\ commissions(r) <= r
  <1>1. \A r \in Nat : (r * 5) \div 100 \in Nat /\ (r * 5) \div 100 <= r
    OBVIOUS
  <1> QED BY <1>1 DEF commissions

Hashpowers(cs) == [k \in DOMAIN cs |-> cs[k].hashpower]

(* There is hashpower to divide by. *)
LEMMA TotalPositive ==
  ASSUME NEW cs, NEW n \in Nat \ {0}, DOMAIN cs = 1..n, Len(cs) = n,
         \A k \in 1..n : cs[k].hashpower \in Nat \ {0}
  PROVE  total_hashpower(cs) \in Nat \ {0}
  <1> DEFINE h == Hashpowers(cs)
  <1>1. \A k \in 1..n : h[k] \in Nat \ {0}
    BY DEF Hashpowers
  <1>2. total_hashpower(cs) = SumTo(h, n)
    BY DEF total_hashpower, Hashpowers
  <1> HIDE DEF h
  <1>3. SumTo(h, n) = SumTo(h, n - 1) + h[n]
    <2>1. n - 1 \in Nat /\ (n - 1) + 1 = n
      OBVIOUS
    <2> QED
      BY <2>1, SumNext
  <1>4. SumTo(h, n - 1) \in Nat
    BY <1>1, SumOfNaturals
  <1> QED
    BY <1>1, <1>2, <1>3, <1>4

(* Products that the provers are not to look into. *)
Times(x, y) == x * y
Million == 1000000

(* What of the products is needed. *)
LEMMA TimesFacts ==
  /\ Million \in Nat \ {0}
  /\ \A x, y \in Nat : Times(x, y) \in Nat
  /\ \A x \in Nat : Times(0, x) = 0
  /\ \A x, y, z \in Nat : x <= y => Times(x, z) <= Times(y, z)
  /\ \A x, y \in Nat, z \in Nat \ {0} : Times(x, z) <= Times(y, z) => x <= y
  /\ \A x, y \in Nat : Times(x, y) = Times(y, x)
  BY SMT DEF Times, Million

(* A sum times a number, one step. *)
LEMMA SumTimes ==
  ASSUME NEW f, NEW k \in Nat, NEW z \in Nat, SumTo(f, k) \in Nat, f[k + 1] \in Nat
  PROVE  Times(SumTo(f, k + 1), z) = Times(SumTo(f, k), z) + Times(f[k + 1], z)
  <1>1. SumTo(f, k + 1) = SumTo(f, k) + f[k + 1]
    BY SumNext
  <1>2. \A x, y \in Nat : (x + y) * z = x * z + y * z
    BY SMT
  <1> QED
    BY <1>1, <1>2, SMT DEF Times

(* The two divisions of a share, multiplied back. *)
LEMMA ShareBound ==
  ASSUME NEW hashpower \in Nat, NEW total \in Nat \ {0}, NEW reward \in Nat
  PROVE  /\ hashpower_percent(hashpower, total) \in Nat
         /\ Times(hashpower_percent(hashpower, total), total) <= Times(hashpower, Million)
         /\ earned_rewards(hashpower, total, reward) \in Nat
         /\ Times(earned_rewards(hashpower, total, reward), Million)
              <= Times(hashpower_percent(hashpower, total), reward)
  <1> DEFINE q == hashpower_percent(hashpower, total)
  <1>1. q = Times(hashpower, Million) \div total
    BY SMT DEF hashpower_percent, Times, Million
  <1>2. Times(hashpower, Million) \in Nat
    BY TimesFacts
  <1>3. \A n, d \in Nat : d > 0 => n \div d \in Nat /\ Times(n \div d, d) <= n
    BY Division, SMT DEF Times
  <1> HIDE DEF q
  <1>4. q \in Nat /\ Times(q, total) <= Times(hashpower, Million)
    BY <1>1, <1>2, <1>3, SMT
  <1>5. earned_rewards(hashpower, total, reward) = Times(q, reward) \div Million
    BY SMT DEF earned_rewards, q, Times, Million
  <1>6. Times(q, reward) \in Nat
    BY <1>4, TimesFacts
  <1>7. Million \in Nat /\ Million > 0
    BY TimesFacts
  <1>8. /\ Times(q, reward) \div Million \in Nat
        /\ Times(Times(q, reward) \div Million, Million) <= Times(q, reward)
    BY <1>3, <1>6, <1>7, SMT
  <1> QED
    BY <1>4, <1>5, <1>8 DEF q

(* The shares of a round, each rounded down twice, come to no more than what *)
(* there is to share.                                                        *)
LEMMA SharesBound ==
  ASSUME NEW cs, NEW n \in Nat \ {0}, DOMAIN cs = 1..n, Len(cs) = n,
         \A k \in 1..n : cs[k].hashpower \in Nat \ {0},
         NEW reward \in Nat, NEW shares, NEW m \in Nat, m <= n,
         \A k \in 1..n :
           shares[k] = earned_rewards(cs[k].hashpower, total_hashpower(cs), reward)
  PROVE  SumTo(shares, m) <= reward
  <1> DEFINE total == total_hashpower(cs)
             h == Hashpowers(cs)
             q == [k \in 1..n |-> hashpower_percent(cs[k].hashpower, total)]
  <1>1. total \in Nat \ {0}
    BY TotalPositive
  <1>2. total = SumTo(h, n)
    BY DEF total_hashpower, Hashpowers
  <1>3. \A k \in 1..n : h[k] = cs[k].hashpower /\ h[k] \in Nat
    BY DEF Hashpowers
  <1>4. \A k \in 1..n : /\ q[k] \in Nat /\ Times(q[k], total) <= Times(h[k], Million)
                        /\ shares[k] \in Nat /\ Times(shares[k], Million) <= Times(q[k], reward)
    <2> TAKE k \in 1..n
    <2>1. shares[k] = earned_rewards(cs[k].hashpower, total, reward)
      OBVIOUS
    <2>2. q[k] = hashpower_percent(cs[k].hashpower, total)
      OBVIOUS
    <2> HIDE DEF total, h, q
    <2>3. PICK p \in Nat : p = cs[k].hashpower
      BY <1>3
    <2>4. /\ hashpower_percent(p, total) \in Nat
          /\ Times(hashpower_percent(p, total), total) <= Times(p, Million)
          /\ earned_rewards(p, total, reward) \in Nat
          /\ Times(earned_rewards(p, total, reward), Million)
               <= Times(hashpower_percent(p, total), reward)
      BY <1>1, ShareBound
    <2> QED
      BY <1>3, <2>1, <2>2, <2>3, <2>4
  <1> HIDE DEF total, h, q
  <1>5. \A k \in Nat : k <= n =>
          SumTo(q, k) \in Nat /\ SumTo(h, k) \in Nat /\ SumTo(shares, k) \in Nat
    BY <1>3, <1>4, SumOfNaturals
  <1> DEFINE Bounded(k) == /\ Times(SumTo(q, k), total) <= Times(SumTo(h, k), Million)
                           /\ Times(SumTo(shares, k), Million) <= Times(SumTo(q, k), reward)
             I == {k \in Nat : k <= n => Bounded(k)}
  <1>6. 0 \in I
    <2>1. SumTo(q, 0) = 0 /\ SumTo(h, 0) = 0 /\ SumTo(shares, 0) = 0
      BY SumZero
    <2>2. /\ Times(0, total) = 0 /\ Times(0, Million) = 0 /\ Times(0, reward) = 0
      BY <1>1, TimesFacts
    <2> QED
      BY <2>1, <2>2
  <1>7. \A k \in Nat : k \in I => k + 1 \in I
    <2> HIDE DEF Bounded
    <2> SUFFICES ASSUME NEW k \in Nat, k \in I, k + 1 <= n
                 PROVE  Bounded(k + 1)
      OBVIOUS
    <2>1. /\ Times(SumTo(q, k), total) <= Times(SumTo(h, k), Million)
          /\ Times(SumTo(shares, k), Million) <= Times(SumTo(q, k), reward)
      BY DEF Bounded
    <2> HIDE DEF I
    <2>2. /\ SumTo(q, k + 1) = SumTo(q, k) + q[k + 1]
          /\ SumTo(h, k + 1) = SumTo(h, k) + h[k + 1]
          /\ SumTo(shares, k + 1) = SumTo(shares, k) + shares[k + 1]
      BY SumNext
    <2>3. SumTo(q, k) \in Nat /\ SumTo(h, k) \in Nat /\ SumTo(shares, k) \in Nat
      BY <1>5
    <2>4. /\ q[k + 1] \in Nat /\ Times(q[k + 1], total) <= Times(h[k + 1], Million)
          /\ h[k + 1] \in Nat /\ shares[k + 1] \in Nat
          /\ Times(shares[k + 1], Million) <= Times(q[k + 1], reward)
      BY <1>3, <1>4
    <2>5. /\ Times(SumTo(q, k + 1), total)
               = Times(SumTo(q, k), total) + Times(q[k + 1], total)
          /\ Times(SumTo(h, k + 1), Million)
               = Times(SumTo(h, k), Million) + Times(h[k + 1], Million)
          /\ Times(SumTo(shares, k + 1), Million)
               = Times(SumTo(shares, k), Million) + Times(shares[k + 1], Million)
          /\ Times(SumTo(q, k + 1), reward)
               = Times(SumTo(q, k), reward) + Times(q[k + 1], reward)
      <3>1. Million \in Nat /\ total \in Nat
        BY <1>1, TimesFacts
      <3> QED
        BY <2>3, <2>4, <3>1, SumTimes
    <2>6. /\ Times(SumTo(q, k), total) \in Nat /\ Times(q[k + 1], total) \in Nat
          /\ Times(SumTo(h, k), Million) \in Nat /\ Times(h[k + 1], Million) \in Nat
          /\ Times(SumTo(shares, k), Million) \in Nat /\ Times(shares[k + 1], Million) \in Nat
          /\ Times(SumTo(q, k), reward) \in Nat /\ Times(q[k + 1], reward) \in Nat
      BY <1>1, <2>3, <2>4, TimesFacts
    <2>7. Times(SumTo(q, k + 1), total) <= Times(SumTo(h, k + 1), Million)
      <3>1. PICK a, b, c, d \in Nat :
              /\ a = Times(SumTo(q, k), total) /\ b = Times(q[k + 1], total)
              /\ c = Times(SumTo(h, k), Million) /\ d = Times(h[k + 1], Million)
        BY <2>6
      <3>2. a <= c /\ b <= d
        BY <2>1, <2>4, <3>1
      <3>3. a + b <= c + d
        BY <3>2
      <3> QED
        BY <2>5, <3>1, <3>3
    <2>8. Times(SumTo(shares, k + 1), Million) <= Times(SumTo(q, k + 1), reward)
      <3>1. PICK a, b, c, d \in Nat :
              /\ a = Times(SumTo(shares, k), Million) /\ b = Times(shares[k + 1], Million)
              /\ c = Times(SumTo(q, k), reward) /\ d = Times(q[k + 1], reward)
        BY <2>6
      <3>2. a <= c /\ b <= d
        BY <2>1, <2>4, <3>1
      <3>3. a + b <= c + d
        BY <3>2
      <3> QED
        BY <2>5, <3>1, <3>3
    <2> QED
      BY <2>7, <2>8 DEF Bounded
  <1> HIDE DEF I
  <1>8. m \in I
    BY <1>6, <1>7, SetInduction
  <1>9. /\ Times(SumTo(q, m), total) <= Times(SumTo(h, m), Million)
        /\ Times(SumTo(shares, m), Million) <= Times(SumTo(q, m), reward)
    BY <1>8 DEF I
  <1>10. SumTo(h, m) <= total
    BY <1>2, <1>3, SumPrefix
  <1>11. SumTo(q, m) \in Nat /\ SumTo(h, m) \in Nat /\ SumTo(shares, m) \in Nat
    BY <1>5
  <1>12. SumTo(q, m) <= Million
    <2>1. Times(SumTo(h, m), Million) <= Times(total, Million)
      BY <1>1, <1>10, <1>11, TimesFacts
    <2>2. Times(total, Million) = Times(Million, total)
      BY <1>1, TimesFacts
    <2>3. /\ Times(SumTo(q, m), total) \in Nat /\ Times(SumTo(h, m), Million) \in Nat
          /\ Times(Million, total) \in Nat
      BY <1>1, <1>11, TimesFacts
    <2>4. Times(SumTo(q, m), total) <= Times(Million, total)
      BY <1>9, <2>1, <2>2, <2>3
    <2> QED
      BY <1>1, <1>11, <2>4, TimesFacts
  <1>13. Times(SumTo(shares, m), Million) <= Times(reward, Million)
    <2>1. Times(SumTo(q, m), reward) <= Times(Million, reward)
      BY <1>11, <1>12, TimesFacts
    <2>2. Times(Million, reward) = Times(reward, Million)
      BY TimesFacts
    <2>3. /\ Times(SumTo(q, m), reward) \in Nat /\ Times(Million, reward) \in Nat
          /\ Times(SumTo(shares, m), Million) \in Nat
      BY <1>11, TimesFacts
    <2> QED
      BY <1>9, <2>1, <2>2, <2>3
  <1> QED
    BY <1>11, <1>13, TimesFacts

-----------------------------------------------------------------------------
(* The answers of the database                                             *)

AnyFault == FaultKinds \cup {"none"}

(* What a query for one row may answer. *)
LEMMA LookupAnswers ==
  ASSUME NEW d, NEW rows, NEW a \in QueryOne(d, rows)
  PROVE  /\ a.db = d
         /\ a.fault \in AnyFault /\ a.result \in {"ok", "query", "connection"}
         /\ a.result = "ok" => rows = {a.row}
  BY DEF QueryOne, NoConnection, Unless, Answer, AnyFault, FaultKinds

(* What a single statement may answer. *)
LEMMA ExecuteAnswers ==
  ASSUME NEW d, NEW after, NEW n, NEW a \in Execute(d, after, n)
  PROVE  /\ a.fault \in AnyFault
         /\ \/ a.db = after /\ a.result = IF n = 1 THEN "ok" ELSE "rows"
            \/ a.db = d /\ a.result \in {"query", "connection"}
            \/ a.db = after /\ a.result = "query" /\ a.fault = "answer"
  BY DEF Execute, NoConnection, Unless, Answer, AnyFault, FaultKinds

(* What a transaction of several statements may answer. *)
LEMMA TransactionAnswers ==
  ASSUME NEW d, NEW after, NEW n, NEW a \in Transaction(d, after, n)
  PROVE  /\ a.fault \in AnyFault
         /\ \/ a.db = after /\ a.result = IF n = 0 THEN "rows" ELSE "ok"
            \/ a.db = d /\ a.result = "connection"
            \/ a.db \in {d, after} /\ a.result = "abort"
  BY DEF Transaction, NoConnection, Unless, Answer, AnyFault, FaultKinds

FaultStep == faults' \in [FaultKinds -> 0..MaxFaults] /\ faults'["answer"] >= faults["answer"]

(* A fault is counted within its bound, an answer that is lost as one. *)
LEMMA FaultsCounted ==
  ASSUME faults \in [FaultKinds -> 0..MaxFaults], NEW fault \in AnyFault, Counted(fault)
  PROVE  FaultStep /\ (fault = "answer" => faults'["answer"] > 0)
  <1>1. CASE fault = "none"
    BY <1>1 DEF Counted, FaultStep, FaultKinds
  <1>2. CASE fault \in FaultKinds
    <2>1. fault # "none"
      BY <1>2 DEF FaultKinds
    <2>2. /\ faults["connection"] \in 0..MaxFaults /\ faults["statement"] \in 0..MaxFaults
          /\ faults["answer"] \in 0..MaxFaults /\ faults["crash"] \in 0..MaxFaults
      BY DEF FaultKinds
    <2>3. /\ faults["connection"] + faults["statement"] + faults["answer"] + faults["crash"] < MaxFaults
          /\ faults' = [faults EXCEPT ![fault] = @ + 1]
      BY <2>1 DEF Counted
    <2>4. MaxFaults \in Nat
      BY BoundsAssumption
    <2>5. faults[fault] + 1 \in 0..MaxFaults
      BY <1>2, <2>2, <2>3, <2>4 DEF FaultKinds
    <2>6. faults' \in [FaultKinds -> 0..MaxFaults]
      BY <2>3, <2>5
    <2>7. faults'["answer"] = IF fault = "answer" THEN faults["answer"] + 1 ELSE faults["answer"]
      BY <2>3 DEF FaultKinds
    <2> QED
      BY <2>2, <2>6, <2>7 DEF FaultStep
  <1> QED
    BY <1>1, <1>2 DEF AnyFault

-----------------------------------------------------------------------------
(* What a step does, with the calls and their answers taken apart          *)

WithChallenge(c) ==
  [db EXCEPT !.challenges = Append(@, [id |-> Len(@) + 1, challenge |-> c,
                                       contribution |-> 0, rewards |-> 0])]
WithEarnings(batch) == [db EXCEPT !.earnings = @ \o batch]
WithBalances(batch) ==
  [db EXCEPT !.rewards =
    [i \in DOMAIN db.rewards |->
      [db.rewards[i] EXCEPT !.balance = @ + PaidTo(db.rewards[i].miner, batch)]]]
NewContribution(batch, k) ==
  [id |-> Len(db.contributions) + k, miner |-> batch[k].miner,
   challenge |-> batch[k].challenge, nonce |-> batch[k].nonce]
WithContributions(batch) ==
  [db EXCEPT !.contributions = @ \o [k \in 1..Len(batch) |-> NewContribution(batch, k)]]
WithTotal(amount) == [db EXCEPT !.total = @ + amount]
WithWinner(c, contribution, rewards) ==
  [db EXCEPT !.challenges =
    [i \in DOMAIN db.challenges |->
      IF db.challenges[i].challenge = c
      THEN [db.challenges[i] EXCEPT !.contribution = contribution, !.rewards = rewards]
      ELSE db.challenges[i]]]

Commission == <<[miner |-> Receiver, challenge |-> attender.id,
                 amount |-> commissions(attender.result.rewards)]>>
CommissionUpdate == <<[miner |-> Receiver, amount |-> commissions(attender.result.rewards)]>>

AttenderIs(next) == attender' = next /\ UNCHANGED <<server, queue, processor, crashed>>
ProcessorIs(next) == processor' = next /\ UNCHANGED <<server, attender, queue, crashed>>
NextBatch == [processor EXCEPT !.done = @ + BatchSize]

(* A call ends well, or is to be repeated, or the process dies of it. *)
Attended(after, next) ==
  \/ db' = after /\ AttenderIs(next)
  \/ db' = db /\ AttenderIs(attender)
  \/ db' \in {db, after} /\ Die
Processed(after, next) ==
  \/ db' = after /\ ProcessorIs(next)
  \/ db' = db /\ ProcessorIs(processor)
  \/ db' \in {db, after} /\ Die

Grown(c) == db' = db \/ (Len(db.challenges) < MaxRows /\ db' = WithChallenge(c))

Searching == {"find", "insert", "check", "again"}

SearchStep ==
  /\ attender.pc \in Searching
  /\ Grown(attender.old)
  /\ \E pc \in Searching : AttenderIs(At(pc))
FoundStep ==
  /\ attender.pc \in Searching
  /\ db' = db
  /\ \E id \in DOMAIN db.challenges :
       /\ db.challenges[id].challenge = attender.old
       /\ AttenderIs([attender EXCEPT !.pc = "latest", !.id = id])
LatestStep ==
  /\ attender.pc \in {"latest", "checkLatest"}
  /\ Grown(attender.latest)
  /\ \E pc \in {"latest", "checkLatest", "commission"} : AttenderIs(At(pc))
CommissionStep ==
  attender.pc = "commission" /\ Attended(WithEarnings(Commission), At("credit"))
CreditStep ==
  attender.pc = "credit" /\ Attended(WithBalances(CommissionUpdate), At("send"))

EarningsStep ==
  /\ processor.pc = "earnings" /\ Unwritten
  /\ Processed(WithEarnings(Batch(Earning)), NextBatch)
RewardsStep ==
  /\ processor.pc = "rewards" /\ Unwritten
  /\ Processed(WithBalances(Batch(Reward)), NextBatch)
ContributionsStep ==
  /\ processor.pc = "contributions" /\ Unwritten
  /\ Processed(WithContributions(Batch(ContributionRow)), NextBatch)
PoolStep ==
  /\ processor.pc = "pool"
  /\ LET after == WithTotal(processor.msg.result.rewards)
     IN  \/ db' = after /\ ProcessorIs([processor EXCEPT !.pc = "winner"])
         \/ db' = db /\ ProcessorIs(processor)
         \/ db' = after /\ ProcessorIs(processor) /\ faults'["answer"] > 0
WinnerStep ==
  /\ processor.pc = "winner"
  /\ db' = db
  /\ \/ ProcessorIs(NoProcessor)
     \/ \E i \in DOMAIN db.contributions :
          /\ db.contributions[i].nonce = processor.msg.result.best_nonce
          /\ \A j \in DOMAIN db.contributions :
               db.contributions[j].nonce = processor.msg.result.best_nonce => j = i
          /\ ProcessorIs([processor EXCEPT !.pc = "challenge", !.contribution = i])
ChallengeStep ==
  /\ processor.pc = "challenge"
  /\ db' \in {db, WithWinner(processor.msg.challenge, processor.contribution,
                             processor.msg.result.rewards)}
  /\ ProcessorIs(NoProcessor)

CrashStep == db' = db /\ Die
StartStep ==
  /\ server.pc # "up"
  /\ UNCHANGED <<tasks, crashed>>
  /\ server' \in [pc: {"up", "down", "find", "insert"}, challenge: 0..MaxRounds]
  /\ server'.pc \in {"find", "insert"} => server'.challenge \in Rounds
  /\ db' = db \/ (server.pc = "insert" /\ Grown(server.challenge))

CallStep ==
  /\ UNCHANGED <<challenge, rewarded>> /\ FaultStep
  /\ \/ SearchStep \/ FoundStep \/ LatestStep \/ CommissionStep \/ CreditStep
     \/ EarningsStep \/ RewardsStep \/ ContributionsStep
     \/ PoolStep \/ WinnerStep \/ ChallengeStep
     \/ CrashStep \/ StartStep

Step ==
  \/ \E result \in RoundResults : Land(result)
  \/ LandUnattended \/ SendMineSuccess \/ Receive \/ NextTable
  \/ CallStep

(* What a query for a challenge may answer. *)
LEMMA ChallengeAnswers ==
  ASSUME RowsAreOfChallenges, NEW c, NEW a \in get_challenge_by_challenge(db, c)
  PROVE  /\ a.db = db
         /\ a.fault \in AnyFault /\ a.result \in {"ok", "query", "connection"}
         /\ a.result = "ok" =>
              \E id \in DOMAIN db.challenges : a.row.id = id /\ db.challenges[id].challenge = c
  <1>1. a \in QueryOne(db, {row \in ToSet(db.challenges) : row.challenge = c})
    BY DEF get_challenge_by_challenge
  <1>2. a.result = "ok" => a.row \in {row \in ToSet(db.challenges) : row.challenge = c}
    BY <1>1, LookupAnswers
  <1>3. ASSUME a.result = "ok"
        PROVE  \E id \in DOMAIN db.challenges : a.row.id = id /\ db.challenges[id].challenge = c
    <2>1. PICK id \in DOMAIN db.challenges : a.row = db.challenges[id]
      BY <1>2, <1>3 DEF ToSet
    <2> QED
      BY <1>2, <1>3, <2>1 DEF RowsAreOfChallenges
  <1> QED
    BY <1>1, <1>3, LookupAnswers

(* The attender looks a challenge up. *)
LEMMA LookedUp ==
  ASSUME TypeOK, RowsAreOfChallenges,
         attender.pc \in Searching, UNCHANGED <<challenge, rewarded>>,
         NEW otherwise \in Searching, NEW a \in get_challenge_by_challenge(db, attender.old),
         Counted(a.fault), db' = a.db,
         IF a.result = "abort" THEN Die ELSE AttenderIs(Found(a, otherwise))
  PROVE  CallStep
  <1>1. /\ a.db = db
        /\ a.fault \in AnyFault /\ a.result \in {"ok", "query", "connection"}
        /\ a.result = "ok" =>
             \E id \in DOMAIN db.challenges :
               a.row.id = id /\ db.challenges[id].challenge = attender.old
    BY ChallengeAnswers
  <1>2. FaultStep
    BY <1>1, FaultsCounted DEF TypeOK
  <1>3. AttenderIs(Found(a, otherwise)) /\ db' = db
    BY <1>1
  <1>4. CASE a.result = "ok"
    <2>1. FoundStep
      BY <1>1, <1>3, <1>4 DEF Found, FoundStep
    <2> QED
      BY <1>2, <2>1 DEF CallStep
  <1>5. CASE a.result # "ok"
    <2>1. SearchStep
      BY <1>3, <1>5 DEF Found, SearchStep, Grown
    <2> QED
      BY <1>2, <2>1 DEF CallStep
  <1> QED
    BY <1>4, <1>5

(* The attender's search for the record of the old challenge. *)
LEMMA SearchCalls ==
  ASSUME TypeOK, RowsAreOfChallenges, FindChallenge \/ CheckMissing \/ FindAgain
  PROVE  CallStep
  <1> USE DEF Searching
  <1>1. CASE FindChallenge
    <2>1. PICK a \in get_challenge_by_challenge(db, attender.old) :
            /\ Counted(a.fault) /\ db' = a.db
            /\ IF a.result = "abort" THEN Die
               ELSE AttenderIs(Found(a, "insert"))
      BY <1>1 DEF FindChallenge, Attend, AttenderIs
    <2>2. attender.pc = "find" /\ UNCHANGED <<challenge, rewarded>>
      BY <1>1 DEF FindChallenge, Attend
    <2> QED
      BY <2>1, <2>2, LookedUp
  <1>2. CASE CheckMissing
    <2>1. PICK a \in get_challenge_by_challenge(db, attender.old) :
            /\ Counted(a.fault) /\ db' = a.db
            /\ IF a.result = "abort" THEN Die
               ELSE AttenderIs(Found(a, "insert"))
      BY <1>2 DEF CheckMissing, Attend, AttenderIs
    <2>2. attender.pc = "check" /\ UNCHANGED <<challenge, rewarded>>
      BY <1>2 DEF CheckMissing, Attend
    <2> QED
      BY <2>1, <2>2, LookedUp
  <1>3. CASE FindAgain
    <2>1. PICK a \in get_challenge_by_challenge(db, attender.old) :
            /\ Counted(a.fault) /\ db' = a.db
            /\ IF a.result = "abort" THEN Die
               ELSE AttenderIs(Found(a, "find"))
      BY <1>3 DEF FindAgain, Attend, AttenderIs
    <2>2. attender.pc = "again" /\ UNCHANGED <<challenge, rewarded>>
      BY <1>3 DEF FindAgain, Attend
    <2> QED
      BY <2>1, <2>2, LookedUp
  <1> QED
    BY <1>1, <1>2, <1>3

(* The attender's inserts of challenges. *)
LEMMA InsertCalls ==
  ASSUME TypeOK, InsertMissing \/ InsertLatest \/ CheckLatest, RowsAreOfChallenges
  PROVE  CallStep
  <1>1. CASE InsertMissing
    <2>1. PICK a \in add_new_challenge(db, attender.old) :
            /\ Counted(a.fault) /\ db' = a.db
            /\ IF a.result = "abort" THEN Die
               ELSE AttenderIs(Then(a, "again", "check"))
      BY <1>1 DEF InsertMissing, Attend, AttenderIs
    <2>2. /\ attender.pc = "insert" /\ UNCHANGED <<challenge, rewarded>>
          /\ Len(db.challenges) < MaxRows
      BY <1>1 DEF InsertMissing, Attend
    <2>3. a \in Execute(db, WithChallenge(attender.old), 1)
      BY DEF add_new_challenge, WithChallenge
    <2>4. /\ a.fault \in AnyFault /\ a.db \in {db, WithChallenge(attender.old)}
          /\ a.result # "abort"
      BY <2>3, ExecuteAnswers
    <2>5. SearchStep
      BY <2>1, <2>2, <2>4 DEF SearchStep, Searching, Grown, Then
    <2> QED
      BY <2>1, <2>2, <2>4, <2>5, FaultsCounted DEF CallStep, TypeOK
  <1>2. CASE InsertLatest
    <2>1. PICK a \in add_new_challenge(db, attender.latest) :
            /\ Counted(a.fault) /\ db' = a.db
            /\ IF a.result = "abort" THEN Die
               ELSE AttenderIs(Then(a, "commission", "checkLatest"))
      BY <1>2 DEF InsertLatest, Attend, AttenderIs
    <2>2. /\ attender.pc = "latest" /\ UNCHANGED <<challenge, rewarded>>
          /\ Len(db.challenges) < MaxRows
      BY <1>2 DEF InsertLatest, Attend
    <2>3. a \in Execute(db, WithChallenge(attender.latest), 1)
      BY DEF add_new_challenge, WithChallenge
    <2>4. /\ a.fault \in AnyFault /\ a.db \in {db, WithChallenge(attender.latest)}
          /\ a.result # "abort"
      BY <2>3, ExecuteAnswers
    <2>5. LatestStep
      BY <2>1, <2>2, <2>4 DEF LatestStep, Grown, Then
    <2> QED
      BY <2>1, <2>2, <2>4, <2>5, FaultsCounted DEF CallStep, TypeOK
  <1>3. CASE CheckLatest
    <2>1. PICK a \in get_challenge_by_challenge(db, attender.latest) :
            /\ Counted(a.fault) /\ db' = a.db
            /\ IF a.result = "abort" THEN Die
               ELSE AttenderIs(Then(a, "commission", "latest"))
      BY <1>3 DEF CheckLatest, Attend, AttenderIs
    <2>2. attender.pc = "checkLatest" /\ UNCHANGED <<challenge, rewarded>>
      BY <1>3 DEF CheckLatest, Attend
    <2>3. a.fault \in AnyFault /\ a.db = db /\ a.result # "abort"
      BY ChallengeAnswers
    <2>4. LatestStep
      BY <2>1, <2>2, <2>3 DEF LatestStep, Grown, Then
    <2> QED
      BY <2>1, <2>2, <2>3, <2>4, FaultsCounted DEF CallStep, TypeOK
  <1> QED
    BY <1>1, <1>2, <1>3

-----------------------------------------------------------------------------
(* The rows of the next batch, counted from 1. *)
BatchEnd ==
  IF processor.done + BatchSize < Len(Contributions) THEN processor.done + BatchSize
                                                     ELSE Len(Contributions)
BatchLen == BatchEnd - processor.done

(* The batch that is written next, and its end. *)
LEMMA BatchIs ==
  ASSUME TypeOK, Unwritten
  PROVE  /\ Contributions \in Seq(Contribution)
         /\ BatchLen \in Nat \ {0} /\ processor.done \in Nat
         /\ processor.done + BatchLen = BatchEnd /\ BatchEnd <= Len(Contributions)
         /\ Batch(Earning) = [k \in 1..BatchLen |-> Earning(Contributions[processor.done + k])]
         /\ Batch(Reward) = [k \in 1..BatchLen |-> Reward(Contributions[processor.done + k])]
         /\ Batch(ContributionRow)
              = [k \in 1..BatchLen |-> ContributionRow(Contributions[processor.done + k])]
  <1>1. Contributions \in Seq(Contribution)
    <2>1. processor.msg.result \in RoundResults \cup {NoResult}
      BY DEF TypeOK, Messages
    <2>2. CASE processor.msg.result = NoResult
      <3>1. Contributions = <<>>
        BY <2>2 DEF Contributions, NoResult
      <3>2. <<>> \in Seq(Contribution)
        OBVIOUS
      <3> QED
        BY <3>1, <3>2
    <2>3. CASE processor.msg.result \in RoundResults
      <3>1. PICK result \in RoundResult : result = processor.msg.result
        BY <2>3, ResultsAssumption
      <3>2. result.contributions \in Seq(Contribution)
        BY <3>1 DEF RoundResult
      <3> QED
        BY <3>1, <3>2 DEF Contributions
    <2> QED
      BY <2>1, <2>2, <2>3
  <1>2. processor.done \in Nat /\ BatchSize \in Nat \ {0} /\ Len(Contributions) \in Nat
    BY <1>1, BoundsAssumption DEF TypeOK
  <1>3. Min({processor.done + BatchSize, Len(Contributions)}) = BatchEnd
    BY <1>2 DEF Min, BatchEnd
  <1>4. processor.done < Len(Contributions)
    BY DEF Unwritten
  <1> QED
    BY <1>1, <1>2, <1>3, <1>4 DEF Batch, BatchLen, BatchEnd

(* An update that hits no row changes nothing. *)
LEMMA NoHits ==
  ASSUME TypeOK, NEW batch,
         \A i \in DOMAIN db.rewards : \A k \in DOMAIN batch : batch[k].miner # db.rewards[i].miner,
         Len(batch) \in Nat, DOMAIN batch = 1..Len(batch)
  PROVE  WithBalances(batch) = db
  <1>1. \A i \in DOMAIN db.rewards : PaidTo(db.rewards[i].miner, batch) = 0
    <2> TAKE i \in DOMAIN db.rewards
    <2> DEFINE m == db.rewards[i].miner
               f == [k \in DOMAIN batch |-> IF batch[k].miner = m THEN batch[k].amount ELSE 0]
    <2>1. \A k \in 1..Len(batch) : f[k] = 0
      OBVIOUS
    <2> HIDE DEF f
    <2>2. SumTo(f, Len(batch)) = 0
      BY <2>1, SumOfZeros
    <2> QED
      BY <2>2 DEF PaidTo, f
  <1>2. db.rewards \in Seq([miner: Payees, balance: Nat])
    BY DEF TypeOK, Database
  <1>3. \A i \in DOMAIN db.rewards :
          [db.rewards[i] EXCEPT !.balance = @ + PaidTo(db.rewards[i].miner, batch)] = db.rewards[i]
    <2> TAKE i \in DOMAIN db.rewards
    <2>1. i \in 1..Len(db.rewards)
      BY <1>2
    <2>2. db.rewards[i] \in [miner: Payees, balance: Nat]
      BY <1>2, <2>1, ElementOfSeq
    <2> QED
      BY <1>1, <2>2
  <1>4. [i \in DOMAIN db.rewards |->
           [db.rewards[i] EXCEPT !.balance = @ + PaidTo(db.rewards[i].miner, batch)]] = db.rewards
    <2>1. db.rewards = [i \in DOMAIN db.rewards |-> db.rewards[i]]
      BY <1>2
    <2> QED
      BY <1>3, <2>1
  <1> QED
    BY <1>4 DEF WithBalances, TypeOK, Database

(* What an update of balances may answer. *)
LEMMA BalanceAnswers ==
  ASSUME TypeOK, NEW batch, Len(batch) \in Nat, DOMAIN batch = 1..Len(batch),
         NEW a \in update_rewards(db, batch)
  PROVE  /\ a.fault \in AnyFault
         /\ \/ a.db = WithBalances(batch) /\ a.result = "ok"
            \/ a.db = db /\ a.result \in {"connection", "rows"}
            \/ a.db \in {db, WithBalances(batch)} /\ a.result = "abort"
  <1> DEFINE after == WithBalances(batch).rewards
             hit == {i \in DOMAIN after : \E k \in DOMAIN batch :
                                             batch[k].miner = db.rewards[i].miner}
  <1>1. db.rewards \in Seq([miner: Payees, balance: Nat])
    BY DEF TypeOK, Database
  <1>2. after = [i \in DOMAIN db.rewards |->
                   [db.rewards[i] EXCEPT !.balance = @ + PaidTo(db.rewards[i].miner, batch)]]
    BY DEF WithBalances, TypeOK, Database
  <1>3. a \in Transaction(db, WithBalances(batch), Cardinality(hit))
    BY <1>2 DEF update_rewards, WithBalances
  <1>4. DOMAIN after = 1..Len(db.rewards) /\ DOMAIN db.rewards = 1..Len(db.rewards)
    BY <1>1, <1>2
  <1>5. IsFiniteSet(hit)
    <2>1. IsFiniteSet(1..Len(db.rewards))
      BY <1>1, FS_Interval
    <2>2. hit \subseteq 1..Len(db.rewards)
      BY <1>4
    <2> QED
      BY <2>1, <2>2, FS_Subset
  <1>6. ASSUME Cardinality(hit) = 0
        PROVE  WithBalances(batch) = db
    <2>1. hit = {}
      BY <1>5, <1>6, FS_EmptySet
    <2>2. \A i \in DOMAIN db.rewards : \A k \in DOMAIN batch : batch[k].miner # db.rewards[i].miner
      BY <1>4, <2>1
    <2> QED
      BY <2>2, NoHits
  <1> HIDE DEF hit
  <1>7. /\ a.fault \in AnyFault
        /\ \/ a.db = WithBalances(batch) /\ a.result = IF Cardinality(hit) = 0 THEN "rows" ELSE "ok"
           \/ a.db = db /\ a.result = "connection"
           \/ a.db \in {db, WithBalances(batch)} /\ a.result = "abort"
    BY <1>3, TransactionAnswers
  <1> QED
    BY <1>6, <1>7

(* The commissions' row and balance. *)
LEMMA PaymentCalls ==
  ASSUME TypeOK, AddCommission \/ CreditCommission
  PROVE  CallStep
  <1>0. \A pc : pc = attender.pc => At(pc) = attender
    BY DEF At, TypeOK
  <1>1. CASE AddCommission
    <2>1. PICK a \in add_new_earnings_batch(db, Commission) :
            /\ Counted(a.fault) /\ db' = a.db
            /\ IF a.result = "abort" THEN Die
               ELSE AttenderIs(Then(a, "credit", "commission"))
      BY <1>1 DEF AddCommission, Attend, AttenderIs, Commission
    <2>2. attender.pc = "commission" /\ UNCHANGED <<challenge, rewarded>>
      BY <1>1 DEF AddCommission, Attend
    <2>3. Len(Commission) = 1
      BY DEF Commission
    <2>4. a \in Transaction(db, WithEarnings(Commission), 1)
      BY <2>3 DEF add_new_earnings_batch, WithEarnings
    <2>5. /\ a.fault \in AnyFault
          /\ \/ a.db = WithEarnings(Commission) /\ a.result = "ok"
             \/ a.db = db /\ a.result = "connection"
             \/ a.db \in {db, WithEarnings(Commission)} /\ a.result = "abort"
      BY <2>4, TransactionAnswers
    <2>6. CommissionStep
      BY <1>0, <2>1, <2>2, <2>5 DEF CommissionStep, Attended, Then
    <2> QED
      BY <2>1, <2>2, <2>5, <2>6, FaultsCounted DEF CallStep, TypeOK
  <1>2. CASE CreditCommission
    <2>1. PICK a \in update_rewards(db, CommissionUpdate) :
            /\ Counted(a.fault) /\ db' = a.db
            /\ IF a.result = "abort" THEN Die
               ELSE AttenderIs(Then(a, "send", "credit"))
      BY <1>2 DEF CreditCommission, Attend, AttenderIs, CommissionUpdate
    <2>2. attender.pc = "credit" /\ UNCHANGED <<challenge, rewarded>>
      BY <1>2 DEF CreditCommission, Attend
    <2>3. Len(CommissionUpdate) = 1 /\ DOMAIN CommissionUpdate = 1..1
      BY DEF CommissionUpdate
    <2>4. /\ a.fault \in AnyFault
          /\ \/ a.db = WithBalances(CommissionUpdate) /\ a.result = "ok"
             \/ a.db = db /\ a.result \in {"connection", "rows"}
             \/ a.db \in {db, WithBalances(CommissionUpdate)} /\ a.result = "abort"
      BY <2>3, BalanceAnswers
    <2>5. CreditStep
      BY <1>0, <2>1, <2>2, <2>4 DEF CreditStep, Attended, Then
    <2> QED
      BY <2>1, <2>2, <2>4, <2>5, FaultsCounted DEF CallStep, TypeOK
  <1> QED
    BY <1>1, <1>2

(* The batches of the three tables. *)
LEMMA TableCalls ==
  ASSUME TypeOK, AddEarnings \/ UpdateRewards \/ AddContributions
  PROVE  CallStep
  <1>1. /\ Unwritten
        /\ BatchLen \in Nat \ {0}
        /\ Batch(Earning) = [k \in 1..BatchLen |-> Earning(Contributions[processor.done + k])]
        /\ Batch(Reward) = [k \in 1..BatchLen |-> Reward(Contributions[processor.done + k])]
        /\ Batch(ContributionRow)
             = [k \in 1..BatchLen |-> ContributionRow(Contributions[processor.done + k])]
    BY BatchIs DEF AddEarnings, UpdateRewards, AddContributions
  <1>2. CASE AddEarnings
    <2>1. PICK a \in add_new_earnings_batch(db, Batch(Earning)) :
            /\ Counted(a.fault) /\ db' = a.db
            /\ IF a.result = "abort" THEN Die ELSE ProcessorIs(Written(a))
      BY <1>2 DEF AddEarnings, Process, ProcessorIs
    <2>2. processor.pc = "earnings" /\ UNCHANGED <<challenge, rewarded>>
      BY <1>2 DEF AddEarnings, Process
    <2>3. Len(Batch(Earning)) = BatchLen /\ BatchLen # 0
      BY <1>1
    <2>4. a \in Transaction(db, WithEarnings(Batch(Earning)), BatchLen)
      BY <2>3 DEF add_new_earnings_batch, WithEarnings
    <2>5. /\ a.fault \in AnyFault
          /\ \/ a.db = WithEarnings(Batch(Earning)) /\ a.result = "ok"
             \/ a.db = db /\ a.result = "connection"
             \/ a.db \in {db, WithEarnings(Batch(Earning))} /\ a.result = "abort"
      BY <2>3, <2>4, TransactionAnswers
    <2>6. EarningsStep
      BY <1>1, <2>1, <2>2, <2>5 DEF EarningsStep, Processed, Written, NextBatch
    <2> QED
      BY <2>1, <2>2, <2>5, <2>6, FaultsCounted DEF CallStep, TypeOK
  <1>3. CASE UpdateRewards
    <2>1. PICK a \in update_rewards(db, Batch(Reward)) :
            /\ Counted(a.fault) /\ db' = a.db
            /\ IF a.result = "abort" THEN Die ELSE ProcessorIs(Written(a))
      BY <1>3 DEF UpdateRewards, Process, ProcessorIs
    <2>2. processor.pc = "rewards" /\ UNCHANGED <<challenge, rewarded>>
      BY <1>3 DEF UpdateRewards, Process
    <2>3. Len(Batch(Reward)) = BatchLen /\ DOMAIN Batch(Reward) = 1..BatchLen
      BY <1>1
    <2>4. /\ a.fault \in AnyFault
          /\ \/ a.db = WithBalances(Batch(Reward)) /\ a.result = "ok"
             \/ a.db = db /\ a.result \in {"connection", "rows"}
             \/ a.db \in {db, WithBalances(Batch(Reward))} /\ a.result = "abort"
      BY <1>1, <2>3, BalanceAnswers
    <2>5. RewardsStep
      BY <1>1, <2>1, <2>2, <2>4 DEF RewardsStep, Processed, Written, NextBatch
    <2> QED
      BY <2>1, <2>2, <2>4, <2>5, FaultsCounted DEF CallStep, TypeOK
  <1>4. CASE AddContributions
    <2>1. PICK a \in add_new_contributions_batch(db, Batch(ContributionRow)) :
            /\ Counted(a.fault) /\ db' = a.db
            /\ IF a.result = "abort" THEN Die ELSE ProcessorIs(Written(a))
      BY <1>4 DEF AddContributions, Process, ProcessorIs
    <2>2. processor.pc = "contributions" /\ UNCHANGED <<challenge, rewarded>>
      BY <1>4 DEF AddContributions, Process
    <2>3. Len(Batch(ContributionRow)) = BatchLen /\ BatchLen # 0
      BY <1>1
    <2>4. a \in Transaction(db, WithContributions(Batch(ContributionRow)), BatchLen)
      BY <2>3 DEF add_new_contributions_batch, WithContributions, NewContribution
    <2>5. /\ a.fault \in AnyFault
          /\ \/ a.db = WithContributions(Batch(ContributionRow)) /\ a.result = "ok"
             \/ a.db = db /\ a.result = "connection"
             \/ a.db \in {db, WithContributions(Batch(ContributionRow))} /\ a.result = "abort"
      BY <2>3, <2>4, TransactionAnswers
    <2>6. ContributionsStep
      BY <1>1, <2>1, <2>2, <2>5 DEF ContributionsStep, Processed, Written, NextBatch
    <2> QED
      BY <2>1, <2>2, <2>5, <2>6, FaultsCounted DEF CallStep, TypeOK
  <1> QED
    BY <1>2, <1>3, <1>4

(* What is done once per round: the total and the winner. *)
LEMMA RoundCalls ==
  ASSUME TypeOK, RowsAreOfChallenges, UpdatePool \/ FindWinner \/ UpdateChallenge
  PROVE  CallStep
  <1>1. CASE UpdatePool
    <2> DEFINE after == WithTotal(processor.msg.result.rewards)
    <2>1. PICK a \in update_pool_rewards(db, processor.msg.result.rewards) :
            /\ Counted(a.fault) /\ db' = a.db
            /\ IF a.result = "abort" THEN Die
               ELSE ProcessorIs(IF a.result = "ok" THEN [processor EXCEPT !.pc = "winner"]
                                                   ELSE processor)
      BY <1>1 DEF UpdatePool, Process, ProcessorIs
    <2>2. processor.pc = "pool" /\ UNCHANGED <<challenge, rewarded>>
      BY <1>1 DEF UpdatePool, Process
    <2>3. a \in Execute(db, after, 1)
      BY DEF update_pool_rewards, WithTotal
    <2>4. /\ a.fault \in AnyFault
          /\ \/ a.db = after /\ a.result = "ok"
             \/ a.db = db /\ a.result \in {"query", "connection"}
             \/ a.db = after /\ a.result = "query" /\ a.fault = "answer"
      BY <2>3, ExecuteAnswers
    <2>5. FaultStep /\ (a.fault = "answer" => faults'["answer"] > 0)
      BY <2>1, <2>4, FaultsCounted DEF TypeOK
    <2>6. PoolStep
      BY <2>1, <2>2, <2>4, <2>5 DEF PoolStep
    <2> QED
      BY <2>2, <2>5, <2>6 DEF CallStep
  <1>2. CASE FindWinner
    <2> DEFINE nonce == processor.msg.result.best_nonce
               rows == {row \in ToSet(db.contributions) : row.nonce = nonce}
    <2>1. PICK a \in get_contribution_id_with_nonce(db, nonce) :
            /\ Counted(a.fault) /\ db' = a.db
            /\ IF a.result = "abort" THEN Die
               ELSE ProcessorIs(IF a.result = "ok"
                                THEN [processor EXCEPT !.pc = "challenge", !.contribution = a.row.id]
                                ELSE NoProcessor)
      BY <1>2 DEF FindWinner, Process, ProcessorIs
    <2>2. processor.pc = "winner" /\ UNCHANGED <<challenge, rewarded>>
      BY <1>2 DEF FindWinner, Process
    <2>3. a \in QueryOne(db, rows)
      BY DEF get_contribution_id_with_nonce
    <2> HIDE DEF rows
    <2>4. /\ a.fault \in AnyFault /\ a.db = db /\ a.result # "abort"
          /\ a.result = "ok" => rows = {a.row}
      BY <2>3, LookupAnswers
    <2>5. ASSUME a.result = "ok"
          PROVE  \E i \in DOMAIN db.contributions :
                   /\ a.row.id = i /\ db.contributions[i].nonce = nonce
                   /\ \A j \in DOMAIN db.contributions :
                        db.contributions[j].nonce = nonce => j = i
      <3>1. a.row \in rows
        BY <2>4, <2>5
      <3>2. PICK i \in DOMAIN db.contributions : a.row = db.contributions[i]
        BY <3>1 DEF rows, ToSet
      <3>3. \A j \in DOMAIN db.contributions :
              db.contributions[j].nonce = nonce => db.contributions[j] \in rows
        BY DEF rows, ToSet
      <3>4. \A j \in DOMAIN db.contributions :
              db.contributions[j].nonce = nonce => db.contributions[j] = a.row
        BY <2>4, <2>5, <3>3
      <3>5. \A j \in DOMAIN db.contributions : db.contributions[j].id = j
        BY DEF RowsAreOfChallenges
      <3>6. db.contributions[i].nonce = nonce
        BY <3>1, <3>2 DEF rows
      <3> QED
        BY <3>2, <3>4, <3>5, <3>6
    <2>6. WinnerStep
      BY <2>1, <2>2, <2>4, <2>5 DEF WinnerStep
    <2> QED
      BY <2>1, <2>2, <2>4, <2>6, FaultsCounted DEF CallStep, TypeOK
  <1>3. CASE UpdateChallenge
    <2> DEFINE after == WithWinner(processor.msg.challenge, processor.contribution,
                                   processor.msg.result.rewards)
    <2>1. PICK a \in update_challenge_rewards(db, processor.msg.challenge,
                       processor.contribution, processor.msg.result.rewards) :
            /\ Counted(a.fault) /\ db' = a.db
            /\ IF a.result = "abort" THEN Die ELSE ProcessorIs(NoProcessor)
      BY <1>3 DEF UpdateChallenge, Process, ProcessorIs
    <2>2. processor.pc = "challenge" /\ UNCHANGED <<challenge, rewarded>>
      BY <1>3 DEF UpdateChallenge, Process
    <2>3. \E n : a \in Execute(db, after, n)
      BY DEF update_challenge_rewards, WithWinner
    <2>4. a.fault \in AnyFault /\ a.db \in {db, after} /\ a.result # "abort"
      BY <2>3, ExecuteAnswers
    <2>5. ChallengeStep
      BY <2>1, <2>2, <2>4 DEF ChallengeStep
    <2> QED
      BY <2>1, <2>2, <2>4, <2>5, FaultsCounted DEF CallStep, TypeOK
  <1> QED
    BY <1>1, <1>2, <1>3

(* A fault of no kind is none. *)
LEMMA NoFault ==
  ASSUME TypeOK, UNCHANGED faults
  PROVE  FaultStep
  BY DEF TypeOK, FaultStep, FaultKinds

(* The challenge's record at start-up, and crashes. *)
LEMMA StartCalls ==
  ASSUME TypeOK, RowsAreOfChallenges, OtherShape, Crash \/ Start \/ StartFind \/ StartInsert
  PROVE  CallStep
  <1>1. CASE Crash
    <2>1. FaultStep
      BY <1>1, FaultsCounted DEF Crash, TypeOK, AnyFault, FaultKinds
    <2> QED
      BY <1>1, <2>1 DEF Crash, CrashStep, CallStep
  <1>2. challenge \in Rounds /\ challenge \in 0..MaxRounds
    BY BoundsAssumption DEF TypeOK, Rounds
  <1>3. CASE Start
    <2>1. StartStep
      BY <1>2, <1>3 DEF Start, StartStep
    <2>2. UNCHANGED <<challenge, rewarded>> /\ FaultStep
      BY <1>3, NoFault DEF Start
    <2> QED
      BY <2>1, <2>2 DEF CallStep
  <1>4. server.pc \in {"find", "insert"} =>
          /\ server \in [pc: {"up", "down", "find", "insert"}, challenge: 0..MaxRounds]
          /\ server.challenge \in Rounds
    BY DEF OtherShape, TypeOK
  <1>5. CASE StartFind
    <2>1. PICK a \in get_challenge_by_challenge(db, server.challenge) :
            /\ Counted(a.fault) /\ db' = a.db
            /\ server' = [server EXCEPT !.pc = CASE a.result = "ok" -> "up"
                                                 [] a.result = "connection" -> "down"
                                                 [] OTHER -> "insert"]
      BY <1>5 DEF StartFind, Started
    <2>2. server.pc = "find" /\ UNCHANGED <<challenge, tasks, rewarded, crashed>>
      BY <1>5 DEF StartFind, Started
    <2>3. a.fault \in AnyFault /\ a.db = db /\ a.result \in {"ok", "query", "connection"}
      BY ChallengeAnswers
    <2>4. \E pc \in {"up", "down", "insert"} : server' = [server EXCEPT !.pc = pc]
      BY <2>1, <2>3
    <2>5. StartStep
      BY <1>4, <2>1, <2>2, <2>3, <2>4 DEF StartStep
    <2> QED
      BY <2>1, <2>2, <2>3, <2>5, FaultsCounted DEF CallStep, TypeOK
  <1>6. CASE StartInsert
    <2>1. PICK a \in add_new_challenge(db, server.challenge) :
            /\ Counted(a.fault) /\ db' = a.db
            /\ server' = [server EXCEPT !.pc = IF a.result = "ok" THEN "up" ELSE "down"]
      BY <1>6 DEF StartInsert, Started
    <2>2. /\ server.pc = "insert" /\ UNCHANGED <<challenge, tasks, rewarded, crashed>>
          /\ Len(db.challenges) < MaxRows
      BY <1>6 DEF StartInsert, Started
    <2>3. a \in Execute(db, WithChallenge(server.challenge), 1)
      BY DEF add_new_challenge, WithChallenge
    <2>4. a.fault \in AnyFault /\ a.db \in {db, WithChallenge(server.challenge)}
      BY <2>3, ExecuteAnswers
    <2>5. \E pc \in {"up", "down"} : server' = [server EXCEPT !.pc = pc]
      BY <2>1
    <2>6. StartStep
      BY <1>4, <2>1, <2>2, <2>4, <2>5 DEF StartStep, Grown
    <2> QED
      BY <2>1, <2>2, <2>4, <2>6, FaultsCounted DEF CallStep, TypeOK
  <1> QED
    BY <1>1, <1>3, <1>5, <1>6

(* Every step of the specification is one of those of above. *)
LEMMA StepIs ==
  ASSUME TypeOK, RowsAreOfChallenges, OtherShape, Next
  PROVE  Step
  BY SearchCalls, InsertCalls, PaymentCalls, TableCalls, RoundCalls, StartCalls
     DEF Next, AttenderNext, ProcessorNext, Step

-----------------------------------------------------------------------------
(* The tables keep their shape                                             *)

ChallengeRow == [id: RowIds, challenge: Rounds, contribution: Nat, rewards: Nat]
ContributionRowType == [id: Nat, miner: Miners, challenge: RowIds \ {0}, nonce: Nat]
EarningRow == [miner: Payees, challenge: RowIds \ {0}, amount: Nat]
BalanceRow == [miner: Payees, balance: Nat]

(* The tables, one by one. *)
LEMMA DatabaseFacts ==
  ASSUME db \in Database
  PROVE  /\ db.challenges \in Seq(ChallengeRow) /\ DOMAIN db.challenges = 1..Len(db.challenges)
         /\ db.contributions \in Seq(ContributionRowType)
         /\ DOMAIN db.contributions = 1..Len(db.contributions)
         /\ db.earnings \in Seq(EarningRow) /\ DOMAIN db.earnings = 1..Len(db.earnings)
         /\ db.rewards \in Seq(BalanceRow) /\ DOMAIN db.rewards = 1..Len(db.rewards)
         /\ db.total \in Nat
         /\ db = [challenges |-> db.challenges, contributions |-> db.contributions,
                  earnings |-> db.earnings, rewards |-> db.rewards, total |-> db.total]
         /\ \A i \in DOMAIN db.challenges : db.challenges[i] \in ChallengeRow
         /\ \A i \in DOMAIN db.contributions : db.contributions[i] \in ContributionRowType
         /\ \A i \in DOMAIN db.earnings : db.earnings[i] \in EarningRow
         /\ \A i \in DOMAIN db.rewards : db.rewards[i] \in BalanceRow
  <1>1. /\ db.challenges \in Seq(ChallengeRow)
        /\ db.contributions \in Seq(ContributionRowType)
        /\ db.earnings \in Seq(EarningRow)
        /\ db.rewards \in Seq(BalanceRow)
        /\ db.total \in Nat
        /\ db = [challenges |-> db.challenges, contributions |-> db.contributions,
                 earnings |-> db.earnings, rewards |-> db.rewards, total |-> db.total]
    BY DEF Database, ChallengeRow, ContributionRowType, EarningRow, BalanceRow
  <1>2. /\ DOMAIN db.challenges = 1..Len(db.challenges)
        /\ DOMAIN db.contributions = 1..Len(db.contributions)
        /\ DOMAIN db.earnings = 1..Len(db.earnings)
        /\ DOMAIN db.rewards = 1..Len(db.rewards)
    BY <1>1
  <1>3. \A i \in DOMAIN db.challenges : db.challenges[i] \in ChallengeRow
    BY <1>1, <1>2, ElementOfSeq
  <1>4. \A i \in DOMAIN db.contributions : db.contributions[i] \in ContributionRowType
    BY <1>1, <1>2, ElementOfSeq
  <1>5. \A i \in DOMAIN db.earnings : db.earnings[i] \in EarningRow
    BY <1>1, <1>2, ElementOfSeq
  <1>6. \A i \in DOMAIN db.rewards : db.rewards[i] \in BalanceRow
    BY <1>1, <1>2, ElementOfSeq
  <1> QED
    BY <1>1, <1>2, <1>3, <1>4, <1>5, <1>6

(* A database of tables that have their types. *)
LEMMA DatabaseBuilt ==
  ASSUME NEW challenges \in Seq(ChallengeRow), NEW contributions \in Seq(ContributionRowType),
         NEW earnings \in Seq(EarningRow), NEW rewards \in Seq(BalanceRow), NEW total \in Nat
  PROVE  [challenges |-> challenges, contributions |-> contributions, earnings |-> earnings,
          rewards |-> rewards, total |-> total] \in Database
  BY DEF Database, ChallengeRow, ContributionRowType, EarningRow, BalanceRow

(* The record of a challenge is at its id. *)
LEMMA RecordIds ==
  ASSUME db \in Database, RowsAreOfChallenges
  PROVE  /\ DOMAIN db.challenges \subseteq RowIds \ {0}
         /\ Len(db.challenges) \in RowIds
  <1>1. \A i \in DOMAIN db.challenges : i \in RowIds
    BY DatabaseFacts DEF RowsAreOfChallenges, ChallengeRow
  <1>2. DOMAIN db.challenges = 1..Len(db.challenges) /\ Len(db.challenges) \in Nat
    BY DatabaseFacts
  <1>3. CASE Len(db.challenges) = 0
    BY <1>2, <1>3, BoundsAssumption DEF RowIds
  <1>4. CASE Len(db.challenges) > 0
    BY <1>1, <1>2, <1>4 DEF RowIds
  <1> QED
    BY <1>2, <1>3, <1>4

(* The rounds of the records stay. *)
ChallengesKept ==
  /\ \A i \in DOMAIN db.challenges :
       i \in DOMAIN db'.challenges /\ db'.challenges[i].challenge = db.challenges[i].challenge
  /\ DOMAIN db.contributions \subseteq DOMAIN db'.contributions

DatabaseKept == db' \in Database /\ RowsAreOfChallenges' /\ ChallengesKept

(* An unchanged database keeps what it has. *)
LEMMA Unchanged ==
  ASSUME db \in Database, RowsAreOfChallenges, db' = db
  PROVE  DatabaseKept
  BY DEF DatabaseKept, ChallengesKept, RowsAreOfChallenges

(* Appending. *)
LEMMA Concatenated ==
  ASSUME NEW T, NEW s \in Seq(T), NEW t \in Seq(T)
  PROVE  /\ s \o t \in Seq(T) /\ Len(s \o t) = Len(s) + Len(t)
         /\ DOMAIN (s \o t) = 1..(Len(s) + Len(t))
         /\ \A i \in 1..Len(s) : (s \o t)[i] = s[i]
         /\ \A i \in 1..Len(t) : (s \o t)[Len(s) + i] = t[i]
         /\ \A i \in DOMAIN (s \o t) :
              i \in DOMAIN s \/ (i > Len(s) /\ i - Len(s) \in DOMAIN t /\ i = Len(s) + (i - Len(s)))
  OBVIOUS

(* A new challenge has no winner, and the others keep theirs. *)
LEMMA ChallengeAdded ==
  ASSUME db \in Database, RowsAreOfChallenges, NEW c \in Rounds,
         Len(db.challenges) < MaxRows, db' = WithChallenge(c)
  PROVE  /\ DatabaseKept
         /\ db'.contributions = db.contributions /\ db'.earnings = db.earnings
         /\ db'.rewards = db.rewards /\ db'.total = db.total
         /\ \A i \in DOMAIN db'.challenges : db'.challenges[i].contribution # 0 =>
              i \in DOMAIN db.challenges /\ db'.challenges[i] = db.challenges[i]
  <1> DEFINE s == db.challenges
             row == [id |-> Len(s) + 1, challenge |-> c, contribution |-> 0, rewards |-> 0]
  <1>1. /\ db'.challenges = Append(s, row) /\ db'.contributions = db.contributions
        /\ db'.earnings = db.earnings /\ db'.rewards = db.rewards /\ db'.total = db.total
    BY DatabaseFacts DEF WithChallenge
  <1>2. s \in Seq(ChallengeRow) /\ Len(s) \in Nat
    BY DatabaseFacts
  <1>3. row \in ChallengeRow
    BY <1>2, BoundsAssumption DEF ChallengeRow, RowIds
  <1>4. /\ row.id = Len(s) + 1 /\ row.contribution = 0
    OBVIOUS
  <1> HIDE DEF row
  <1>5. /\ Append(s, row) \in Seq(ChallengeRow)
        /\ Len(Append(s, row)) = Len(s) + 1
        /\ DOMAIN Append(s, row) = 1..(Len(s) + 1) /\ DOMAIN s = 1..Len(s)
        /\ \A i \in 1..Len(s) : Append(s, row)[i] = s[i]
        /\ Append(s, row)[Len(s) + 1] = row
    BY <1>2, <1>3
  <1>6. db' = [challenges |-> Append(s, row), contributions |-> db.contributions,
               earnings |-> db.earnings, rewards |-> db.rewards, total |-> db.total]
    BY DatabaseFacts DEF WithChallenge, row
  <1>7. db' \in Database
    <2>1. /\ db.contributions \in Seq(ContributionRowType) /\ db.earnings \in Seq(EarningRow)
          /\ db.rewards \in Seq(BalanceRow) /\ db.total \in Nat
      BY DatabaseFacts
    <2>2. PICK t \in Seq(ChallengeRow) :
            db' = [challenges |-> t, contributions |-> db.contributions,
                   earnings |-> db.earnings, rewards |-> db.rewards, total |-> db.total]
      BY <1>5, <1>6
    <2> QED
      BY <2>1, <2>2, DatabaseBuilt
  <1>8. ChallengesKept
    BY <1>1, <1>5 DEF ChallengesKept
  <1>9. RowsAreOfChallenges'
    BY <1>1, <1>2, <1>4, <1>5 DEF RowsAreOfChallenges
  <1> QED
    BY <1>1, <1>2, <1>4, <1>5, <1>7, <1>8, <1>9 DEF DatabaseKept

(* New rows of earnings. *)
LEMMA EarningsAdded ==
  ASSUME db \in Database, RowsAreOfChallenges,
         NEW batch \in Seq([miner: Payees, challenge: DOMAIN db.challenges, amount: Nat]),
         db' = WithEarnings(batch)
  PROVE  /\ DatabaseKept
         /\ db'.earnings = db.earnings \o batch
         /\ db'.challenges = db.challenges /\ db'.contributions = db.contributions
         /\ db'.rewards = db.rewards /\ db'.total = db.total
  <1>1. /\ db'.earnings = db.earnings \o batch
        /\ db'.challenges = db.challenges /\ db'.contributions = db.contributions
        /\ db'.rewards = db.rewards /\ db'.total = db.total
        /\ db' = [challenges |-> db.challenges, contributions |-> db.contributions,
                  earnings |-> db.earnings \o batch, rewards |-> db.rewards, total |-> db.total]
    BY DatabaseFacts DEF WithEarnings
  <1>2. \A i \in 1..Len(batch) : /\ batch[i] \in EarningRow
                                 /\ batch[i].challenge \in DOMAIN db.challenges
    <2> TAKE i \in 1..Len(batch)
    <2>1. batch[i] \in [miner: Payees, challenge: DOMAIN db.challenges, amount: Nat]
      BY ElementOfSeq
    <2> QED
      BY <2>1, RecordIds DEF EarningRow
  <1>3. batch \in Seq(EarningRow)
    BY <1>2
  <1>4. db.earnings \in Seq(EarningRow)
    BY DatabaseFacts
  <1>5. /\ db.earnings \o batch \in Seq(EarningRow)
        /\ DOMAIN batch = 1..Len(batch) /\ DOMAIN db.earnings = 1..Len(db.earnings)
        /\ \A i \in 1..Len(db.earnings) : (db.earnings \o batch)[i] = db.earnings[i]
        /\ \A i \in 1..Len(batch) : (db.earnings \o batch)[Len(db.earnings) + i] = batch[i]
        /\ \A i \in DOMAIN (db.earnings \o batch) :
             i \in DOMAIN db.earnings
             \/ (/\ i > Len(db.earnings) /\ i - Len(db.earnings) \in DOMAIN batch
                 /\ i = Len(db.earnings) + (i - Len(db.earnings)))
    BY <1>3, <1>4, Concatenated
  <1>6. db' \in Database
    <2>1. PICK earnings \in Seq(EarningRow) : earnings = db.earnings \o batch
      BY <1>5
    <2>2. [challenges |-> db.challenges, contributions |-> db.contributions,
           earnings |-> earnings, rewards |-> db.rewards, total |-> db.total] \in Database
      BY DatabaseFacts, DatabaseBuilt
    <2> QED
      BY <1>1, <2>1, <2>2
  <1>7. \A i \in DOMAIN db'.earnings : db'.earnings[i].challenge \in DOMAIN db'.challenges
    <2> TAKE i \in DOMAIN db'.earnings
    <2>1. CASE i \in DOMAIN db.earnings
      BY <1>1, <1>5, <2>1 DEF RowsAreOfChallenges
    <2>2. CASE i \notin DOMAIN db.earnings
      <3> DEFINE k == i - Len(db.earnings)
      <3>1. k \in 1..Len(batch) /\ i = Len(db.earnings) + k
        BY <1>1, <1>5, <2>2
      <3> HIDE DEF k
      <3>2. db'.earnings[i] = batch[k]
        BY <1>1, <1>5, <3>1
      <3> QED
        BY <1>1, <1>2, <3>1, <3>2
    <2> QED
      BY <2>1, <2>2
  <1>8. RowsAreOfChallenges'
    BY <1>1, <1>7 DEF RowsAreOfChallenges
  <1> QED
    BY <1>1, <1>6, <1>8 DEF DatabaseKept, ChallengesKept

(* Amounts added to balances. *)
LEMMA BalancesAdded ==
  ASSUME db \in Database, RowsAreOfChallenges,
         NEW batch, \A m \in Payees : PaidTo(m, batch) \in Nat,
         db' = WithBalances(batch)
  PROVE  /\ DatabaseKept
         /\ db'.challenges = db.challenges /\ db'.contributions = db.contributions
         /\ db'.earnings = db.earnings /\ db'.total = db.total
         /\ DOMAIN db'.rewards = DOMAIN db.rewards
         /\ \A i \in DOMAIN db.rewards :
              /\ db'.rewards[i].miner = db.rewards[i].miner
              /\ db'.rewards[i].balance
                   = db.rewards[i].balance + PaidTo(db.rewards[i].miner, batch)
  <1> DEFINE after == [i \in DOMAIN db.rewards |->
                 [db.rewards[i] EXCEPT !.balance = @ + PaidTo(db.rewards[i].miner, batch)]]
  <1>1. /\ db'.rewards = after
        /\ db'.challenges = db.challenges /\ db'.contributions = db.contributions
        /\ db'.earnings = db.earnings /\ db'.total = db.total
        /\ db' = [challenges |-> db.challenges, contributions |-> db.contributions,
                  earnings |-> db.earnings, rewards |-> after, total |-> db.total]
    BY DatabaseFacts DEF WithBalances
  <1>2. \A i \in DOMAIN db.rewards :
          /\ after[i] \in BalanceRow
          /\ after[i].miner = db.rewards[i].miner
          /\ after[i].balance = db.rewards[i].balance + PaidTo(db.rewards[i].miner, batch)
    <2> TAKE i \in DOMAIN db.rewards
    <2>1. db.rewards[i] \in BalanceRow
      BY DatabaseFacts
    <2>2. PaidTo(db.rewards[i].miner, batch) \in Nat
      BY <2>1 DEF BalanceRow
    <2> QED
      BY <2>1, <2>2 DEF BalanceRow
  <1>3. DOMAIN after = DOMAIN db.rewards /\ DOMAIN db.rewards = 1..Len(db.rewards)
        /\ Len(db.rewards) \in Nat
    BY DatabaseFacts
  <1> HIDE DEF after
  <1>4. after \in Seq(BalanceRow)
    <2>1. after = [i \in 1..Len(db.rewards) |-> after[i]]
      BY <1>3 DEF after
    <2>2. \A i \in 1..Len(db.rewards) : after[i] \in BalanceRow
      BY <1>2, <1>3
    <2> QED
      BY <1>3, <2>1, <2>2
  <1>5. db' \in Database
    BY <1>1, <1>4, DatabaseFacts, DatabaseBuilt
  <1>6. RowsAreOfChallenges'
    BY <1>1 DEF RowsAreOfChallenges
  <1> QED
    BY <1>1, <1>2, <1>3, <1>5, <1>6 DEF DatabaseKept, ChallengesKept

(* New rows of contributions. *)
LEMMA ContributionsAdded ==
  ASSUME db \in Database, RowsAreOfChallenges,
         NEW batch \in Seq([miner: Miners, challenge: DOMAIN db.challenges, nonce: Nat]),
         db' = WithContributions(batch)
  PROVE  /\ DatabaseKept
         /\ db'.challenges = db.challenges /\ db'.earnings = db.earnings
         /\ db'.rewards = db.rewards /\ db'.total = db.total
         /\ DOMAIN db'.contributions = 1..(Len(db.contributions) + Len(batch))
         /\ \A i \in DOMAIN db.contributions : db'.contributions[i] = db.contributions[i]
         /\ \A k \in 1..Len(batch) :
              /\ db'.contributions[Len(db.contributions) + k].miner = batch[k].miner
              /\ db'.contributions[Len(db.contributions) + k].challenge = batch[k].challenge
              /\ db'.contributions[Len(db.contributions) + k].nonce = batch[k].nonce
  <1> DEFINE rows == [k \in 1..Len(batch) |-> NewContribution(batch, k)]
             s == db.contributions
  <1>1. /\ db'.contributions = s \o rows
        /\ db'.challenges = db.challenges /\ db'.earnings = db.earnings
        /\ db'.rewards = db.rewards /\ db'.total = db.total
        /\ db' = [challenges |-> db.challenges, contributions |-> s \o rows,
                  earnings |-> db.earnings, rewards |-> db.rewards, total |-> db.total]
    BY DatabaseFacts DEF WithContributions
  <1>2. s \in Seq(ContributionRowType) /\ Len(s) \in Nat /\ Len(batch) \in Nat
    BY DatabaseFacts
  <1>3. \A k \in 1..Len(batch) :
          /\ rows[k] \in ContributionRowType /\ rows[k].id = Len(s) + k
          /\ rows[k].challenge \in DOMAIN db.challenges
          /\ rows[k].miner = batch[k].miner /\ rows[k].challenge = batch[k].challenge
          /\ rows[k].nonce = batch[k].nonce
    <2> TAKE k \in 1..Len(batch)
    <2>1. batch[k] \in [miner: Miners, challenge: DOMAIN db.challenges, nonce: Nat]
      BY ElementOfSeq
    <2>2. rows[k] = NewContribution(batch, k)
      OBVIOUS
    <2>3. batch[k].challenge \in RowIds \ {0}
      BY <2>1, RecordIds
    <2> QED
      BY <1>2, <2>1, <2>2, <2>3 DEF NewContribution, ContributionRowType
  <1>4. rows \in Seq(ContributionRowType) /\ Len(rows) = Len(batch)
    BY <1>2, <1>3
  <1> HIDE DEF rows
  <1>5. /\ s \o rows \in Seq(ContributionRowType)
        /\ DOMAIN (s \o rows) = 1..(Len(s) + Len(rows))
        /\ DOMAIN s = 1..Len(s) /\ DOMAIN rows = 1..Len(rows)
        /\ \A i \in 1..Len(s) : (s \o rows)[i] = s[i]
        /\ \A i \in 1..Len(rows) : (s \o rows)[Len(s) + i] = rows[i]
        /\ \A i \in DOMAIN (s \o rows) :
             i \in DOMAIN s \/ (/\ i > Len(s) /\ i - Len(s) \in DOMAIN rows
                                /\ i = Len(s) + (i - Len(s)))
    <2>1. PICK u \in Seq(ContributionRowType) : u = s
      BY <1>2
    <2>2. PICK v \in Seq(ContributionRowType) : v = rows
      BY <1>4
    <2>3. /\ u \o v \in Seq(ContributionRowType) /\ Len(u \o v) = Len(u) + Len(v)
          /\ DOMAIN (u \o v) = 1..(Len(u) + Len(v))
          /\ \A i \in 1..Len(u) : (u \o v)[i] = u[i]
          /\ \A i \in 1..Len(v) : (u \o v)[Len(u) + i] = v[i]
          /\ \A i \in DOMAIN (u \o v) :
               i \in DOMAIN u \/ (i > Len(u) /\ i - Len(u) \in DOMAIN v /\ i = Len(u) + (i - Len(u)))
      BY Concatenated
    <2>4. DOMAIN u = 1..Len(u) /\ DOMAIN v = 1..Len(v)
      OBVIOUS
    <2> QED
      BY <2>1, <2>2, <2>3, <2>4
  <1>6. db' \in Database
    <2>1. PICK t \in Seq(ContributionRowType) : t = s \o rows
      BY <1>5
    <2>2. [challenges |-> db.challenges, contributions |-> t, earnings |-> db.earnings,
           rewards |-> db.rewards, total |-> db.total] \in Database
      BY DatabaseFacts, DatabaseBuilt
    <2> QED
      BY <1>1, <2>1, <2>2
  <1>7. \A i \in DOMAIN db'.contributions :
          /\ db'.contributions[i].id = i
          /\ db'.contributions[i].challenge \in DOMAIN db'.challenges
    <2> TAKE i \in DOMAIN db'.contributions
    <2>1. CASE i \in DOMAIN s
      BY <1>1, <1>5, <2>1 DEF RowsAreOfChallenges
    <2>2. CASE i \notin DOMAIN s
      <3> DEFINE k == i - Len(s)
      <3>1. k \in 1..Len(batch) /\ i = Len(s) + k
        BY <1>1, <1>4, <1>5, <2>2
      <3> HIDE DEF k
      <3>2. db'.contributions[i] = rows[k]
        BY <1>1, <1>4, <1>5, <3>1
      <3> QED
        BY <1>1, <1>3, <3>1, <3>2
    <2> QED
      BY <2>1, <2>2
  <1>8. DOMAIN s \subseteq DOMAIN db'.contributions
    BY <1>1, <1>2, <1>4, <1>5
  <1>9. RowsAreOfChallenges'
    BY <1>1, <1>7, <1>8 DEF RowsAreOfChallenges
  <1>10. ChallengesKept
    BY <1>1, <1>8 DEF ChallengesKept
  <1>11. \A i \in DOMAIN db.contributions : db'.contributions[i] = db.contributions[i]
    BY <1>1, <1>5
  <1>12. \A k \in 1..Len(batch) : db'.contributions[Len(db.contributions) + k] = rows[k]
    BY <1>1, <1>4, <1>5
  <1>13. DOMAIN db'.contributions = 1..(Len(db.contributions) + Len(batch))
    BY <1>1, <1>4, <1>5
  <1> QED
    BY <1>1, <1>3, <1>6, <1>9, <1>10, <1>11, <1>12, <1>13 DEF DatabaseKept

(* An amount added to the pool's total. *)
LEMMA TotalAdded ==
  ASSUME db \in Database, RowsAreOfChallenges, NEW amount \in Nat, db' = WithTotal(amount)
  PROVE  /\ DatabaseKept
         /\ db'.challenges = db.challenges /\ db'.contributions = db.contributions
         /\ db'.earnings = db.earnings /\ db'.rewards = db.rewards
         /\ db'.total = db.total + amount
  <1>1. /\ db'.challenges = db.challenges /\ db'.contributions = db.contributions
        /\ db'.earnings = db.earnings /\ db'.rewards = db.rewards
        /\ db'.total = db.total + amount /\ db.total + amount \in Nat
        /\ db' = [challenges |-> db.challenges, contributions |-> db.contributions,
                  earnings |-> db.earnings, rewards |-> db.rewards,
                  total |-> db.total + amount]
    BY DatabaseFacts DEF WithTotal
  <1>2. db' \in Database
    BY <1>1, DatabaseFacts, DatabaseBuilt
  <1> QED
    BY <1>1, <1>2 DEF DatabaseKept, ChallengesKept, RowsAreOfChallenges

(* The winner of a challenge, and no other's. *)
LEMMA WinnerSet ==
  ASSUME db \in Database, RowsAreOfChallenges,
         NEW c, NEW contribution \in DOMAIN db.contributions, NEW rewards \in Nat,
         db' = WithWinner(c, contribution, rewards)
  PROVE  /\ DatabaseKept
         /\ DOMAIN db'.challenges = DOMAIN db.challenges
         /\ \A i \in DOMAIN db.challenges :
              /\ db.challenges[i].challenge = c => db'.challenges[i].contribution = contribution
              /\ db.challenges[i].challenge # c => db'.challenges[i] = db.challenges[i]
         /\ db'.contributions = db.contributions
         /\ db'.earnings = db.earnings /\ db'.rewards = db.rewards /\ db'.total = db.total
  <1> DEFINE s == db.challenges
             after == [i \in DOMAIN s |->
                        IF s[i].challenge = c
                        THEN [s[i] EXCEPT !.contribution = contribution, !.rewards = rewards]
                        ELSE s[i]]
  <1>1. /\ db'.challenges = after
        /\ db'.contributions = db.contributions
        /\ db'.earnings = db.earnings /\ db'.rewards = db.rewards /\ db'.total = db.total
        /\ db' = [challenges |-> after, contributions |-> db.contributions,
                  earnings |-> db.earnings, rewards |-> db.rewards, total |-> db.total]
    BY DatabaseFacts DEF WithWinner
  <1>2. DOMAIN after = 1..Len(s) /\ DOMAIN s = 1..Len(s) /\ Len(s) \in Nat
    BY DatabaseFacts
  <1>3. \A i \in DOMAIN s :
          /\ after[i] \in ChallengeRow
          /\ after[i].id = s[i].id /\ after[i].challenge = s[i].challenge
          /\ s[i].challenge = c => after[i].contribution = contribution
          /\ s[i].challenge # c => after[i] = s[i]
    <2> TAKE i \in DOMAIN s
    <2>1. s[i] \in ChallengeRow /\ contribution \in Nat
      BY DatabaseFacts
    <2> QED
      BY <2>1 DEF ChallengeRow
  <1> HIDE DEF after
  <1>4. after \in Seq(ChallengeRow)
    <2>1. after = [i \in 1..Len(s) |-> after[i]]
      BY <1>2 DEF after
    <2> QED
      BY <1>2, <1>3, <2>1
  <1>5. db' \in Database
    BY <1>1, <1>4, DatabaseFacts, DatabaseBuilt
  <1>6. \A i \in DOMAIN s : after[i].contribution \in {0} \cup DOMAIN db.contributions
    BY <1>3 DEF RowsAreOfChallenges
  <1>7. RowsAreOfChallenges'
    BY <1>1, <1>2, <1>3, <1>6 DEF RowsAreOfChallenges
  <1>8. ChallengesKept
    BY <1>1, <1>2, <1>3 DEF ChallengesKept
  <1> QED
    BY <1>1, <1>2, <1>3, <1>5, <1>7, <1>8 DEF DatabaseKept

-----------------------------------------------------------------------------
(* What is written has its type                                            *)

LEMMA PaidNat ==
  ASSUME NEW m, NEW rows, NEW n \in Nat, Len(rows) = n, DOMAIN rows = 1..n,
         \A k \in 1..n : rows[k].amount \in Nat
  PROVE  PaidTo(m, rows) \in Nat
  <1> DEFINE f == [k \in DOMAIN rows |-> IF rows[k].miner = m THEN rows[k].amount ELSE 0]
  <1>1. \A k \in 1..n : f[k] \in Nat
    OBVIOUS
  <1> HIDE DEF f
  <1>2. SumTo(f, n) \in Nat
    BY <1>1, SumOfNaturals
  <1> QED
    BY <1>2 DEF PaidTo, f

(* The commissions' row and update have their types. *)
LEMMA CommissionTyped ==
  ASSUME Shape, attender.pc \in WithRecord
  PROVE  /\ Commission \in Seq([miner: Payees, challenge: DOMAIN db.challenges, amount: Nat])
         /\ commissions(attender.result.rewards) \in Nat
         /\ \A m \in Payees : PaidTo(m, CommissionUpdate) \in Nat
  <1>1. attender.result \in RoundResults /\ attender.id \in DOMAIN db.challenges
    BY DEF Shape, AttenderShape, IsRound
  <1>2. attender.result.rewards \in Nat
    BY <1>1, ResultsAssumption DEF RoundResult
  <1>3. commissions(attender.result.rewards) \in Nat
    BY <1>2, CommissionsBound
  <1>4. Commission \in Seq([miner: Payees, challenge: DOMAIN db.challenges, amount: Nat])
    BY <1>1, <1>3 DEF Commission, Payees
  <1>5. \A m \in Payees : PaidTo(m, CommissionUpdate) \in Nat
    <2>1. /\ Len(CommissionUpdate) = 1 /\ DOMAIN CommissionUpdate = 1..1
          /\ \A k \in 1..1 : CommissionUpdate[k].amount \in Nat
      BY <1>3 DEF CommissionUpdate
    <2> QED
      BY <2>1, PaidNat
  <1> QED
    BY <1>3, <1>4, <1>5

(* The contributions and the reward of the message at hand. *)
LEMMA ContributionsTyped ==
  ASSUME Shape, processor.pc # "idle"
  PROVE  /\ Contributions \in Seq(Contribution) /\ Len(Contributions) \in Nat
         /\ DOMAIN Contributions = 1..Len(Contributions)
         /\ \A k \in 1..Len(Contributions) : Contributions[k] \in Contribution
         /\ processor.msg.result.rewards \in Nat
         /\ MinersRewards(processor.msg.result) \in Nat
         /\ MinersRewards(processor.msg.result) + commissions(processor.msg.result.rewards)
              = processor.msg.result.rewards
         /\ \A k, l \in 1..Len(Contributions) : Contributions[k].miner = Contributions[l].miner => k = l
  <1>1. PICK result \in RoundResults : result = processor.msg.result
    BY DEF Shape, ProcessorShape, IsRound
  <1>2. result.contributions \in Seq(Contribution) /\ result.rewards \in Nat
    BY <1>1, ResultsAssumption DEF RoundResult
  <1>3. \A k, l \in DOMAIN result.contributions :
          result.contributions[k].miner = result.contributions[l].miner => k = l
    BY ResultsAssumption
  <1>4. Contributions = result.contributions
    BY <1>1 DEF Contributions
  <1>5. /\ MinersRewards(result) \in Nat
        /\ MinersRewards(result) + commissions(result.rewards) = result.rewards
    BY <1>2, CommissionsBound DEF MinersRewards
  <1>6. DOMAIN result.contributions = 1..Len(result.contributions)
    BY <1>2
  <1>7. \A k \in 1..Len(result.contributions) : result.contributions[k] \in Contribution
    BY <1>2, ElementOfSeq
  <1> QED
    BY <1>1, <1>2, <1>3, <1>4, <1>5, <1>6, <1>7

(* A share is an amount. *)
LEMMA ShareTyped ==
  ASSUME Shape, processor.pc # "idle", NEW k \in 1..Len(Contributions)
  PROVE  Share(Contributions[k]) \in Nat
  <1>1. PICK n \in Nat : n = Len(Contributions)
    BY ContributionsTyped
  <1>2. n \in Nat \ {0} /\ DOMAIN Contributions = 1..n
    BY <1>1, ContributionsTyped
  <1>3. \A l \in 1..n : Contributions[l].hashpower \in Nat \ {0}
    BY <1>1, ContributionsTyped DEF Contribution
  <1>4. PICK total \in Nat \ {0} : total = total_hashpower(Contributions)
    BY <1>1, <1>2, <1>3, TotalPositive
  <1>5. PICK hashpower \in Nat : hashpower = Contributions[k].hashpower
    BY <1>1, <1>3
  <1>6. PICK reward \in Nat : reward = MinersRewards(processor.msg.result)
    BY ContributionsTyped
  <1>7. earned_rewards(hashpower, total, reward) \in Nat
    BY ShareBound
  <1> QED
    BY <1>4, <1>5, <1>6, <1>7 DEF Share

(* The batches have their types. *)
LEMMA BatchTyped ==
  ASSUME Shape, processor.pc # "idle", Unwritten
  PROVE  /\ Batch(Earning) \in Seq([miner: Payees, challenge: DOMAIN db.challenges, amount: Nat])
         /\ Len(Batch(Earning)) = BatchLen
         /\ \A m \in Payees : PaidTo(m, Batch(Reward)) \in Nat
         /\ Batch(ContributionRow) \in Seq([miner: Miners, challenge: DOMAIN db.challenges, nonce: Nat])
         /\ Len(Batch(ContributionRow)) = BatchLen
  <1>1. PICK n \in Nat \ {0} : n = BatchLen
    BY BatchIs DEF Shape
  <1>2. PICK done \in Nat : done = processor.done
    BY BatchIs DEF Shape
  <1>3. done + n <= Len(Contributions) /\ Len(Contributions) \in Nat
    BY <1>1, <1>2, BatchIs, ContributionsTyped DEF Shape
  <1>4. /\ Batch(Earning) = [k \in 1..n |-> Earning(Contributions[done + k])]
        /\ Batch(Reward) = [k \in 1..n |-> Reward(Contributions[done + k])]
        /\ Batch(ContributionRow) = [k \in 1..n |-> ContributionRow(Contributions[done + k])]
    BY <1>1, <1>2, BatchIs DEF Shape
  <1>5. \A k \in 1..n : /\ Contributions[done + k] \in Contribution
                        /\ Share(Contributions[done + k]) \in Nat
    <2> TAKE k \in 1..n
    <2>1. done + k \in 1..Len(Contributions)
      BY <1>3
    <2> QED
      BY <2>1, ContributionsTyped, ShareTyped
  <1>6. processor.msg.id \in DOMAIN db.challenges
    BY DEF Shape, ProcessorShape, IsRound
  <1>7. \A k \in 1..n : Earning(Contributions[done + k])
                          \in [miner: Payees, challenge: DOMAIN db.challenges, amount: Nat]
    BY <1>5, <1>6 DEF Earning, Payees, Contribution
  <1>8. \A k \in 1..n : Reward(Contributions[done + k]).amount \in Nat
    BY <1>5 DEF Reward
  <1>9. \A k \in 1..n : ContributionRow(Contributions[done + k])
                          \in [miner: Miners, challenge: DOMAIN db.challenges, nonce: Nat]
    BY <1>5, <1>6 DEF ContributionRow, Contribution
  <1>10. /\ Batch(Earning) \in Seq([miner: Payees, challenge: DOMAIN db.challenges, amount: Nat])
         /\ Len(Batch(Earning)) = n
    BY <1>4, <1>7
  <1>11. /\ Batch(ContributionRow) \in Seq([miner: Miners, challenge: DOMAIN db.challenges, nonce: Nat])
         /\ Len(Batch(ContributionRow)) = n
    BY <1>4, <1>9
  <1>12. \A m \in Payees : PaidTo(m, Batch(Reward)) \in Nat
    <2>1. /\ Len(Batch(Reward)) = n /\ DOMAIN Batch(Reward) = 1..n
          /\ \A k \in 1..n : Batch(Reward)[k].amount \in Nat
      BY <1>4, <1>8
    <2> QED
      BY <2>1, PaidNat
  <1> QED
    BY <1>1, <1>10, <1>11, <1>12

(* Whatever a call does to the tables. *)
LEMMA CallDatabase ==
  ASSUME Shape, CallStep
  PROVE  DatabaseKept
  <1>1. db \in Database /\ RowsAreOfChallenges
    BY DEF Shape, TypeOK
  <1>2. CASE db' = db
    BY <1>1, <1>2, Unchanged
  <1>3. ASSUME NEW c \in Rounds, Grown(c)
        PROVE  DatabaseKept
    BY <1>1, <1>3, Unchanged, ChallengeAdded DEF Grown
  <1>4. CASE SearchStep \/ LatestStep
    <2>1. attender.pc # "idle"
      BY <1>4 DEF SearchStep, LatestStep, Searching
    <2>2. attender.old \in Rounds /\ attender.latest \in Rounds
      BY <2>1, BoundsAssumption DEF Shape, AttenderShape, TypeOK, Rounds
    <2> QED
      BY <1>3, <1>4, <2>2 DEF SearchStep, LatestStep
  <1>5. CASE StartStep
    <2>1. server.pc = "insert" => server.challenge \in Rounds
      BY DEF Shape, OtherShape
    <2> QED
      BY <1>2, <1>3, <1>5, <2>1 DEF StartStep
  <1>6. CASE CommissionStep
    <2>1. db' = db \/ db' = WithEarnings(Commission)
      BY <1>6 DEF CommissionStep, Attended
    <2>2. Commission \in Seq([miner: Payees, challenge: DOMAIN db.challenges, amount: Nat])
      BY <1>6, CommissionTyped DEF CommissionStep, WithRecord
    <2> QED
      BY <1>1, <1>2, <2>1, <2>2, EarningsAdded
  <1>7. CASE CreditStep
    <2>1. db' = db \/ db' = WithBalances(CommissionUpdate)
      BY <1>7 DEF CreditStep, Attended
    <2>2. \A m \in Payees : PaidTo(m, CommissionUpdate) \in Nat
      BY <1>7, CommissionTyped DEF CreditStep, WithRecord
    <2> QED
      BY <1>1, <1>2, <2>1, <2>2, BalancesAdded
  <1>8. CASE EarningsStep
    <2>1. db' = db \/ db' = WithEarnings(Batch(Earning))
      BY <1>8 DEF EarningsStep, Processed
    <2>2. Batch(Earning) \in Seq([miner: Payees, challenge: DOMAIN db.challenges, amount: Nat])
      BY <1>8, BatchTyped DEF EarningsStep
    <2> QED
      BY <1>1, <1>2, <2>1, <2>2, EarningsAdded
  <1>9. CASE RewardsStep
    <2>1. db' = db \/ db' = WithBalances(Batch(Reward))
      BY <1>9 DEF RewardsStep, Processed
    <2>2. \A m \in Payees : PaidTo(m, Batch(Reward)) \in Nat
      BY <1>9, BatchTyped DEF RewardsStep
    <2> QED
      BY <1>1, <1>2, <2>1, <2>2, BalancesAdded
  <1>10. CASE ContributionsStep
    <2>1. db' = db \/ db' = WithContributions(Batch(ContributionRow))
      BY <1>10 DEF ContributionsStep, Processed
    <2>2. Batch(ContributionRow) \in Seq([miner: Miners, challenge: DOMAIN db.challenges, nonce: Nat])
      BY <1>10, BatchTyped DEF ContributionsStep
    <2> QED
      BY <1>1, <1>2, <2>1, <2>2, ContributionsAdded
  <1>11. CASE PoolStep
    <2>1. db' = db \/ db' = WithTotal(processor.msg.result.rewards)
      BY <1>11 DEF PoolStep
    <2>2. processor.msg.result.rewards \in Nat
      BY <1>11, ContributionsTyped DEF PoolStep
    <2> QED
      BY <1>1, <1>2, <2>1, <2>2, TotalAdded
  <1>12. CASE ChallengeStep
    <2>1. db' = db \/ db' = WithWinner(processor.msg.challenge, processor.contribution,
                                       processor.msg.result.rewards)
      BY <1>12 DEF ChallengeStep
    <2>2. processor.msg.result.rewards \in Nat
      BY <1>12, ContributionsTyped DEF ChallengeStep
    <2>3. processor.contribution \in DOMAIN db.contributions
      BY <1>12 DEF ChallengeStep, Shape, ProcessorShape
    <2> QED
      BY <1>1, <1>2, <2>1, <2>2, <2>3, WinnerSet
  <1> QED
    BY <1>2, <1>4, <1>5, <1>6, <1>7, <1>8, <1>9, <1>10, <1>11, <1>12
       DEF CallStep, FoundStep, WinnerStep, CrashStep

-----------------------------------------------------------------------------
(* The rounds of messages and tasks are kept                               *)

ServerStates == [pc: {"up", "down", "find", "insert"}, challenge: 0..MaxRounds]
AttenderStates ==
  [pc: {"idle", "find", "insert", "check", "again", "latest", "checkLatest",
        "commission", "credit", "send"},
   old: 0..MaxRounds, latest: 0..MaxRounds, id: RowIds, result: RoundResults \cup {NoResult}]
ProcessorStates ==
  [pc: {"idle", "pool", "winner", "challenge"} \cup DOMAIN AfterTable,
   msg: Messages, done: Nat, contribution: Nat]

(* Where the attender and the processor may go by a call. *)
AttenderGoes(next) ==
  /\ attender.pc # "idle" /\ next.pc # "idle"
  /\ next \in AttenderStates
  /\ next.old = attender.old /\ next.latest = attender.latest /\ next.result = attender.result
  /\ next.pc \in WithRecord =>
       next.id \in DOMAIN db.challenges /\ db.challenges[next.id].challenge = attender.old
ProcessorGoes(next) ==
  /\ processor.pc # "idle"
  /\ \/ next = NoProcessor
     \/ /\ next.pc # "idle"
        /\ next \in ProcessorStates /\ next.msg = processor.msg
        /\ next.pc = "challenge" => next.contribution \in DOMAIN db.contributions

(* Where the tasks may go by a call. *)
LEMMA CallControl ==
  ASSUME Shape, CallStep
  PROVE  \/ Die
         \/ \E next : AttenderGoes(next) /\ AttenderIs(next)
         \/ \E next : ProcessorGoes(next) /\ ProcessorIs(next)
         \/ /\ server.pc # "up" /\ UNCHANGED <<tasks, crashed>>
            /\ server' \in ServerStates
            /\ server'.pc \in {"find", "insert"} => server'.challenge \in Rounds
  <1>1. attender \in AttenderStates /\ processor \in ProcessorStates
    BY DEF Shape, TypeOK, AttenderStates, ProcessorStates
  <1>2. attender.pc \in WithRecord =>
          attender.id \in DOMAIN db.challenges /\ db.challenges[attender.id].challenge = attender.old
    BY DEF Shape, AttenderShape, IsRound
  <1>3. \A pc \in Searching : attender.pc # "idle" => AttenderGoes(At(pc))
    BY <1>1 DEF Searching, WithRecord, At, AttenderGoes, AttenderStates
  <1>4. \A pc \in WithRecord : attender.pc \in WithRecord => AttenderGoes(At(pc))
    BY <1>1, <1>2 DEF WithRecord, At, AttenderGoes, AttenderStates
  <1>5. attender.pc # "idle" => AttenderGoes(attender)
    BY <1>1, <1>2 DEF AttenderGoes
  <1>6. processor.pc # "idle" => ProcessorGoes(processor)
    BY <1>1 DEF ProcessorGoes, Shape, ProcessorShape
  <1>7. processor.pc # "idle" => ProcessorGoes(NoProcessor)
    BY DEF ProcessorGoes
  <1>8. CASE SearchStep
    BY <1>3, <1>8 DEF SearchStep, Searching
  <1>9. CASE FoundStep
    <2>1. PICK id \in DOMAIN db.challenges :
            /\ db.challenges[id].challenge = attender.old
            /\ AttenderIs([attender EXCEPT !.pc = "latest", !.id = id])
      BY <1>9 DEF FoundStep
    <2>2. id \in RowIds
      BY RecordIds DEF Shape, TypeOK
    <2>3. AttenderGoes([attender EXCEPT !.pc = "latest", !.id = id])
      BY <1>1, <1>9, <2>1, <2>2 DEF FoundStep, Searching, AttenderGoes, AttenderStates
    <2> QED
      BY <2>1, <2>3
  <1>10. CASE LatestStep
    BY <1>4, <1>10 DEF LatestStep, WithRecord
  <1>11. CASE CommissionStep
    BY <1>4, <1>5, <1>11 DEF CommissionStep, Attended, WithRecord
  <1>12. CASE CreditStep
    BY <1>4, <1>5, <1>12 DEF CreditStep, Attended, WithRecord
  <1>13. CASE EarningsStep \/ RewardsStep \/ ContributionsStep
    <2>1. processor.pc \in DOMAIN AfterTable
      BY <1>13 DEF EarningsStep, RewardsStep, ContributionsStep, AfterTable
    <2>2. processor.done + BatchSize \in Nat
      BY <1>1, BoundsAssumption DEF ProcessorStates
    <2>3. ProcessorGoes(NextBatch)
      BY <1>1, <2>1, <2>2 DEF NextBatch, ProcessorGoes, ProcessorStates, AfterTable
    <2>4. processor.pc # "idle"
      BY <2>1 DEF AfterTable
    <2> QED
      BY <1>6, <1>13, <2>3, <2>4 DEF EarningsStep, RewardsStep, ContributionsStep, Processed
  <1>14. CASE PoolStep
    <2>1. ProcessorGoes([processor EXCEPT !.pc = "winner"])
      BY <1>1, <1>14 DEF PoolStep, ProcessorGoes, ProcessorStates
    <2> QED
      BY <1>6, <1>14, <2>1 DEF PoolStep
  <1>15. CASE WinnerStep
    <2>1. ASSUME NEW i \in DOMAIN db.contributions
          PROVE  ProcessorGoes([processor EXCEPT !.pc = "challenge", !.contribution = i])
      <3>1. i \in Nat
        BY DatabaseFacts DEF Shape, TypeOK
      <3> QED
        BY <1>1, <1>15, <3>1 DEF WinnerStep, ProcessorGoes, ProcessorStates
    <2> QED
      BY <1>7, <1>15, <2>1 DEF WinnerStep
  <1>16. CASE ChallengeStep
    BY <1>7, <1>16 DEF ChallengeStep
  <1> QED
    BY <1>8, <1>9, <1>10, <1>11, <1>12, <1>13, <1>14, <1>15, <1>16
       DEF CallStep, CrashStep, StartStep, ServerStates

(* A past round stays one. *)
LEMMA RoundKept ==
  ASSUME TypeOK, ChallengesKept, challenge' \in Nat, challenge' >= challenge,
         \A c \in 1..(challenge - 1) : rewarded'[c] = rewarded[c],
         NEW id, NEW c, NEW result, IsRound(id, c, result)
  PROVE  /\ result \in RoundResults
         /\ c \in 1..(challenge' - 1)
         /\ id \in DOMAIN db'.challenges
         /\ db'.challenges[id].challenge = c
         /\ rewarded'[c] = result.rewards
  BY DEF IsRound, ChallengesKept, TypeOK, Rounds

LEMMA NothingTyped ==
  /\ NoAttender \in AttenderStates /\ NoProcessor \in ProcessorStates
  /\ <<>> \in Seq(Messages)
  <1>1. NoResult \in RoundResults \cup {NoResult} /\ 0 \in 0..MaxRounds /\ 0 \in RowIds
    BY BoundsAssumption DEF RowIds
  <1> QED
    BY <1>1 DEF NoAttender, NoProcessor, NoMessage, AttenderStates, ProcessorStates, Messages

(* A call keeps what belongs to which round. *)
LEMMA CallShape ==
  ASSUME Shape, CallStep
  PROVE  Shape'
  <1>1. DatabaseKept
    BY CallDatabase
  <1>2. UNCHANGED <<challenge, rewarded>> /\ FaultStep
    BY DEF CallStep
  <1>3. challenge \in Nat
    BY DEF Shape, TypeOK, Rounds
  <1>4. \A id, c, result : IsRound(id, c, result) => IsRound(id, c, result)'
    <2> TAKE id, c, result
    <2> HAVE IsRound(id, c, result)
    <2> QED
      BY <1>1, <1>2, <1>3, RoundKept DEF DatabaseKept, IsRound, Shape
  <1>5. /\ db' \in Database /\ RowsAreOfChallenges'
        /\ challenge' \in Rounds /\ rewarded' \in [Rounds -> Nat]
        /\ faults' \in [FaultKinds -> 0..MaxFaults]
        /\ \A c \in Rounds : c >= challenge' => rewarded'[c] = 0
    BY <1>1, <1>2 DEF DatabaseKept, FaultStep, Shape, TypeOK, OtherShape
  <1>6. /\ server \in ServerStates /\ attender \in AttenderStates /\ queue \in Seq(Messages)
        /\ processor \in ProcessorStates /\ crashed \in BOOLEAN
    BY DEF Shape, TypeOK, ServerStates, AttenderStates, ProcessorStates
  <1>7. CASE Die
    <2>1. /\ server' \in ServerStates /\ server'.pc = "down"
          /\ attender' = NoAttender /\ queue' = <<>> /\ processor' = NoProcessor
          /\ crashed' = TRUE
      BY <1>7, BoundsAssumption DEF Die, ServerStates
    <2>2. TypeOK'
      BY <1>5, <2>1, NothingTyped DEF TypeOK, ServerStates, AttenderStates, ProcessorStates
    <2>3. AttenderShape'
      BY <2>1 DEF AttenderShape, NoAttender, WithRecord
    <2>4. QueueShape'
      BY <2>1 DEF QueueShape
    <2>5. ProcessorShape'
      BY <2>1 DEF ProcessorShape, NoProcessor
    <2>6. OtherShape'
      BY <1>5, <2>1 DEF OtherShape
    <2> QED
      BY <1>5, <2>2, <2>3, <2>4, <2>5, <2>6 DEF Shape
  <1>8. ASSUME NEW next, AttenderGoes(next), AttenderIs(next)
        PROVE  Shape'
    <2>1. /\ attender' = next /\ next \in AttenderStates /\ next.pc # "idle"
          /\ attender.pc # "idle"
          /\ next.old = attender.old /\ next.latest = attender.latest
          /\ next.result = attender.result
          /\ next.pc \in WithRecord => next.id \in DOMAIN db.challenges
                                       /\ db.challenges[next.id].challenge = attender.old
          /\ server' = server /\ queue' = queue /\ processor' = processor /\ crashed' = crashed
      BY <1>8 DEF AttenderGoes, AttenderIs
    <2>2. TypeOK'
      BY <1>5, <1>6, <2>1 DEF TypeOK, ServerStates, AttenderStates, ProcessorStates
    <2>3. AttenderShape'
      <3>1. /\ attender.result \in RoundResults /\ attender.old = challenge - 1 /\ attender.old >= 1
            /\ attender.latest = challenge
            /\ rewarded[attender.old] = attender.result.rewards
        BY <2>1 DEF Shape, AttenderShape
      <3>2. next.pc \in WithRecord => IsRound(next.id, next.old, next.result)
        BY <1>3, <2>1, <3>1 DEF IsRound
      <3>3. next.pc \in WithRecord => IsRound(next.id, next.old, next.result)'
        BY <1>4, <3>2
      <3> QED
        BY <1>2, <2>1, <3>1, <3>3 DEF AttenderShape, IsRound
    <2>4. QueueShape'
      <3>1. \A k \in DOMAIN queue :
              /\ IsRound(queue[k].id, queue[k].challenge, queue[k].result)
              /\ queue[k].challenge < attender.old
        BY <2>1 DEF Shape, QueueShape
      <3>2. \A k \in DOMAIN queue :
              \E id, c, result : /\ id = queue[k].id /\ c = queue[k].challenge
                                 /\ result = queue[k].result /\ IsRound(id, c, result)'
        BY <1>4, <3>1
      <3>3. \A k, l \in DOMAIN queue : k < l => queue[k].challenge < queue[l].challenge
        BY DEF Shape, QueueShape
      <3> QED
        BY <2>1, <3>1, <3>2, <3>3 DEF QueueShape, IsRound
    <2>5. ProcessorShape'
      <3>1. processor.pc # "idle" =>
              \E id, c, result : /\ id = processor.msg.id /\ c = processor.msg.challenge
                                 /\ result = processor.msg.result /\ IsRound(id, c, result)'
        BY <1>4 DEF Shape, ProcessorShape
      <3> QED
        BY <1>1, <2>1, <3>1 DEF Shape, ProcessorShape, IsRound, DatabaseKept, ChallengesKept
    <2>6. OtherShape'
      BY <1>5, <2>1 DEF Shape, OtherShape
    <2> QED
      BY <1>5, <2>2, <2>3, <2>4, <2>5, <2>6 DEF Shape
  <1>9. ASSUME NEW next, ProcessorGoes(next), ProcessorIs(next)
        PROVE  Shape'
    <2>1. /\ processor' = next /\ processor.pc # "idle"
          /\ \/ next = NoProcessor
             \/ /\ next.pc # "idle"
                /\ next \in ProcessorStates /\ next.msg = processor.msg
                /\ next.pc = "challenge" => next.contribution \in DOMAIN db.contributions
          /\ server' = server /\ queue' = queue /\ attender' = attender /\ crashed' = crashed
      BY <1>9 DEF ProcessorGoes, ProcessorIs
    <2>2. TypeOK'
      BY <1>5, <1>6, <2>1, NothingTyped DEF TypeOK, ServerStates, AttenderStates, ProcessorStates
    <2>3. AttenderShape'
      <3>1. attender.pc \in WithRecord =>
              \E id, c, result : /\ id = attender.id /\ c = attender.old
                                 /\ result = attender.result /\ IsRound(id, c, result)'
        BY <1>4 DEF Shape, AttenderShape
      <3> QED
        BY <1>2, <2>1, <3>1 DEF Shape, AttenderShape, IsRound
    <2>4. QueueShape'
      <3>1. \A k \in DOMAIN queue :
              \E id, c, result : /\ id = queue[k].id /\ c = queue[k].challenge
                                 /\ result = queue[k].result /\ IsRound(id, c, result)'
        BY <1>4 DEF Shape, QueueShape
      <3> QED
        BY <2>1, <3>1 DEF Shape, QueueShape, IsRound
    <2>5. ProcessorShape'
      <3>1. /\ \E id, c, result : /\ id = processor.msg.id /\ c = processor.msg.challenge
                                  /\ result = processor.msg.result /\ IsRound(id, c, result)'
            /\ attender.pc # "idle" => processor.msg.challenge < attender.old
            /\ \A k \in DOMAIN queue : processor.msg.challenge < queue[k].challenge
        BY <1>4, <2>1 DEF Shape, ProcessorShape
      <3>2. CASE next = NoProcessor
        BY <2>1, <3>2 DEF ProcessorShape, NoProcessor
      <3>3. CASE next # NoProcessor
        BY <1>1, <2>1, <3>1, <3>3 DEF ProcessorShape, IsRound, DatabaseKept, ChallengesKept
      <3> QED
        BY <3>2, <3>3
    <2>6. OtherShape'
      BY <1>5, <2>1 DEF Shape, OtherShape
    <2> QED
      BY <1>5, <2>2, <2>3, <2>4, <2>5, <2>6 DEF Shape
  <1>10. ASSUME UNCHANGED <<tasks, crashed>>, server' \in ServerStates,
                server'.pc \in {"find", "insert"} => server'.challenge \in Rounds
         PROVE  Shape'
    <2>1. attender' = attender /\ queue' = queue /\ processor' = processor /\ crashed' = crashed
      BY <1>10 DEF tasks
    <2>2. TypeOK'
      BY <1>5, <1>6, <1>10, <2>1 DEF TypeOK, ServerStates, AttenderStates, ProcessorStates
    <2>3. AttenderShape'
      <3>1. attender.pc \in WithRecord =>
              \E id, c, result : /\ id = attender.id /\ c = attender.old
                                 /\ result = attender.result /\ IsRound(id, c, result)'
        BY <1>4 DEF Shape, AttenderShape
      <3> QED
        BY <1>2, <2>1, <3>1 DEF Shape, AttenderShape, IsRound
    <2>4. QueueShape'
      <3>1. \A k \in DOMAIN queue :
              \E id, c, result : /\ id = queue[k].id /\ c = queue[k].challenge
                                 /\ result = queue[k].result /\ IsRound(id, c, result)'
        BY <1>4 DEF Shape, QueueShape
      <3> QED
        BY <2>1, <3>1 DEF Shape, QueueShape, IsRound
    <2>5. ProcessorShape'
      <3>1. processor.pc # "idle" =>
              \E id, c, result : /\ id = processor.msg.id /\ c = processor.msg.challenge
                                 /\ result = processor.msg.result /\ IsRound(id, c, result)'
        BY <1>4 DEF Shape, ProcessorShape
      <3> QED
        BY <1>1, <2>1, <3>1 DEF Shape, ProcessorShape, IsRound, DatabaseKept, ChallengesKept
    <2>6. OtherShape'
      BY <1>5, <1>10 DEF Shape, OtherShape
    <2> QED
      BY <1>5, <2>2, <2>3, <2>4, <2>5, <2>6 DEF Shape
  <1> QED
    BY <1>7, <1>8, <1>9, <1>10, CallControl

(* The steps that call nothing leave the tables and the faults alone. *)
LEMMA QuietSame ==
  ASSUME Shape, \/ \E result \in RoundResults : Land(result)
                \/ LandUnattended \/ SendMineSuccess \/ Receive \/ NextTable
  PROVE  /\ db' = db /\ server' = server /\ crashed' = crashed /\ faults' = faults
         /\ DatabaseKept /\ challenge \in Nat /\ challenge' \in Rounds /\ challenge' >= challenge
         /\ rewarded' \in [Rounds -> Nat]
         /\ \A c \in 1..(challenge - 1) : rewarded'[c] = rewarded[c]
         /\ \A c \in Rounds : c >= challenge' => rewarded'[c] = 0
  <1>1. db' = db /\ server' = server /\ crashed' = crashed /\ faults' = faults
    BY DEF Land, LandUnattended, SendMineSuccess, Receive, NextTable
  <1>2. DatabaseKept
    BY <1>1, Unchanged DEF Shape, TypeOK
  <1>3. /\ challenge \in Rounds /\ rewarded \in [Rounds -> Nat]
        /\ \A c \in Rounds : c >= challenge => rewarded[c] = 0
    BY DEF Shape, TypeOK, OtherShape
  <1>4. CASE UNCHANGED <<challenge, rewarded>>
    BY <1>1, <1>2, <1>3, <1>4 DEF Rounds
  <1>5. CASE LandUnattended
    BY <1>1, <1>2, <1>3, <1>5, BoundsAssumption DEF LandUnattended, Rounds
  <1>6. ASSUME NEW result \in RoundResults, Land(result)
        PROVE  /\ challenge' = challenge + 1 /\ challenge' \in Rounds
               /\ rewarded' = [rewarded EXCEPT ![challenge] = result.rewards]
               /\ result.rewards \in Nat
    BY <1>3, <1>6, BoundsAssumption, ResultsAssumption DEF Land, Rounds, RoundResult
  <1>7. CASE \E result \in RoundResults : Land(result)
    <2>1. PICK result \in RoundResults : Land(result)
      BY <1>7
    <2>2. PICK amount \in Nat : amount = result.rewards
      BY <1>6, <2>1
    <2>3. /\ challenge' = challenge + 1 /\ challenge' \in Rounds
          /\ rewarded' = [rewarded EXCEPT ![challenge] = amount]
      BY <1>6, <2>1, <2>2
    <2>4. /\ challenge \in Nat /\ challenge' >= challenge
          /\ rewarded' \in [Rounds -> Nat]
      BY <1>3, <2>3 DEF Rounds
    <2>5. \A c \in 1..(challenge - 1) : rewarded'[c] = rewarded[c]
      BY <1>3, <2>3 DEF Rounds
    <2>6. \A c \in Rounds : c >= challenge' => rewarded'[c] = 0
      BY <1>3, <2>3 DEF Rounds
    <2> QED
      BY <1>1, <1>2, <2>3, <2>4, <2>5, <2>6
  <1> QED
    BY <1>4, <1>5, <1>7 DEF SendMineSuccess, Receive, NextTable

(* And so do the steps that call nothing. *)
LEMMA QuietShape ==
  ASSUME Shape, \/ \E result \in RoundResults : Land(result)
                \/ LandUnattended \/ SendMineSuccess \/ Receive \/ NextTable
  PROVE  Shape'
  <1>1. /\ db' = db /\ server' = server /\ crashed' = crashed /\ faults' = faults
        /\ DatabaseKept /\ challenge \in Nat /\ challenge' \in Rounds /\ challenge' >= challenge
        /\ rewarded' \in [Rounds -> Nat]
        /\ \A c \in 1..(challenge - 1) : rewarded'[c] = rewarded[c]
        /\ \A c \in Rounds : c >= challenge' => rewarded'[c] = 0
    BY QuietSame
  <1>2. \A id, c, result : IsRound(id, c, result) => IsRound(id, c, result)'
    <2> TAKE id, c, result
    <2> HAVE IsRound(id, c, result)
    <2>1. challenge' \in Nat
      BY <1>1 DEF Rounds
    <2> QED
      BY <1>1, <2>1, RoundKept DEF DatabaseKept, IsRound, Shape
  <1>3. /\ server \in ServerStates /\ attender \in AttenderStates /\ queue \in Seq(Messages)
        /\ processor \in ProcessorStates /\ crashed \in BOOLEAN
        /\ faults \in [FaultKinds -> 0..MaxFaults]
    BY DEF Shape, TypeOK, ServerStates, AttenderStates, ProcessorStates
  <1>4. /\ db' \in Database /\ RowsAreOfChallenges'
        /\ server' \in ServerStates /\ crashed' \in BOOLEAN
        /\ faults' \in [FaultKinds -> 0..MaxFaults]
    BY <1>1, <1>3 DEF DatabaseKept
  <1>5. OtherShape'
    BY <1>1 DEF Shape, OtherShape
  <1>6. ASSUME attender' \in AttenderStates, queue' \in Seq(Messages),
               processor' \in ProcessorStates
        PROVE  TypeOK'
    BY <1>1, <1>4, <1>6 DEF TypeOK, ServerStates, AttenderStates, ProcessorStates
  <1>7. /\ \A k \in DOMAIN queue :
              \E id, c, result : /\ id = queue[k].id /\ c = queue[k].challenge
                                 /\ result = queue[k].result /\ IsRound(id, c, result)'
        /\ \A k, l \in DOMAIN queue : k < l => queue[k].challenge < queue[l].challenge
    BY <1>2 DEF Shape, QueueShape
  <1>8. processor.pc # "idle" =>
          /\ \E id, c, result : /\ id = processor.msg.id /\ c = processor.msg.challenge
                                /\ result = processor.msg.result /\ IsRound(id, c, result)'
          /\ \A k \in DOMAIN queue : processor.msg.challenge < queue[k].challenge
    BY <1>2 DEF Shape, ProcessorShape
  <1>9. ASSUME NEW result \in RoundResults, Land(result)
        PROVE  Shape'
    <2> DEFINE next == [pc |-> "find", old |-> challenge, latest |-> challenge + 1, id |-> 0,
                        result |-> result]
    <2>1. /\ attender.pc = "idle" /\ challenge' = challenge + 1 /\ challenge < MaxRounds
          /\ attender' = next /\ queue' = queue /\ processor' = processor
          /\ rewarded' = [rewarded EXCEPT ![challenge] = result.rewards]
      BY <1>9 DEF Land
    <2>2. challenge \in Rounds /\ rewarded \in [Rounds -> Nat]
      BY DEF Shape, TypeOK
    <2>3. next \in AttenderStates
      BY <1>9, <2>1, <2>2, BoundsAssumption DEF AttenderStates, RowIds, Rounds
    <2>4. TypeOK'
      BY <1>3, <1>6, <2>1, <2>3
    <2>5. AttenderShape'
      BY <2>1, <2>2 DEF AttenderShape, WithRecord, Rounds
    <2>6. QueueShape'
      <3>1. \A k \in DOMAIN queue : queue[k].challenge < challenge
        BY <2>2 DEF Shape, QueueShape, IsRound, Rounds
      <3> QED
        BY <1>7, <2>1, <3>1 DEF QueueShape, IsRound
    <2>7. ProcessorShape'
      <3>1. processor.pc # "idle" => processor.msg.challenge < challenge
        BY <2>2 DEF Shape, ProcessorShape, IsRound, Rounds
      <3> QED
        BY <1>1, <1>8, <2>1, <3>1 DEF Shape, ProcessorShape, IsRound
    <2> QED
      BY <1>4, <1>5, <2>4, <2>5, <2>6, <2>7 DEF Shape
  <1>10. CASE LandUnattended
    <2>1. attender.pc = "idle" /\ attender' = attender /\ queue' = queue /\ processor' = processor
      BY <1>10 DEF LandUnattended, tasks
    <2>2. TypeOK'
      BY <1>3, <1>6, <2>1
    <2>3. AttenderShape'
      BY <2>1 DEF Shape, AttenderShape, WithRecord
    <2>4. QueueShape'
      BY <1>7, <2>1 DEF QueueShape, IsRound
    <2>5. ProcessorShape'
      BY <1>1, <1>8, <2>1 DEF Shape, ProcessorShape, IsRound
    <2> QED
      BY <1>4, <1>5, <2>2, <2>3, <2>4, <2>5 DEF Shape
  <1>11. CASE SendMineSuccess
    <2> DEFINE message == [id |-> attender.id, challenge |-> attender.old,
                           result |-> attender.result]
    <2>1. /\ attender.pc = "send" /\ attender' = NoAttender /\ processor' = processor
          /\ queue' = Append(queue, message)
          /\ challenge' = challenge /\ rewarded' = rewarded
      BY <1>11 DEF SendMineSuccess
    <2>2. /\ message \in Messages
          /\ message.id = attender.id /\ message.challenge = attender.old
          /\ message.result = attender.result
      BY <1>3 DEF AttenderStates, Messages
    <2> HIDE DEF message
    <2>3. /\ queue \in Seq(Messages) /\ Len(queue) \in Nat
          /\ Append(queue, message) \in Seq(Messages)
          /\ DOMAIN queue = 1..Len(queue)
          /\ DOMAIN Append(queue, message) = 1..(Len(queue) + 1)
          /\ \A k \in 1..Len(queue) : Append(queue, message)[k] = queue[k]
          /\ Append(queue, message)[Len(queue) + 1] = message
      BY <1>3, <2>2
    <2>4. /\ IsRound(attender.id, attender.old, attender.result)
          /\ \A k \in DOMAIN queue : queue[k].challenge < attender.old
          /\ processor.pc # "idle" => processor.msg.challenge < attender.old
      BY <2>1 DEF Shape, AttenderShape, QueueShape, ProcessorShape, WithRecord
    <2>5. \E id, c, result : /\ id = attender.id /\ c = attender.old
                             /\ result = attender.result /\ IsRound(id, c, result)'
      BY <1>2, <2>4
    <2>6. TypeOK'
      BY <1>3, <1>6, <2>1, <2>3, NothingTyped
    <2>7. AttenderShape'
      BY <2>1 DEF AttenderShape, NoAttender, WithRecord
    <2>8. QueueShape'
      <3>1. \A k \in DOMAIN queue' :
              \E id, c, result : /\ id = queue'[k].id /\ c = queue'[k].challenge
                                 /\ result = queue'[k].result /\ IsRound(id, c, result)'
        BY <1>7, <2>1, <2>2, <2>3, <2>5
      <3>2. \A k, l \in DOMAIN queue' : k < l => queue'[k].challenge < queue'[l].challenge
        BY <1>7, <2>1, <2>2, <2>3, <2>4
      <3>3. attender'.pc = "idle"
        BY <2>1 DEF NoAttender
      <3> QED
        BY <3>1, <3>2, <3>3 DEF QueueShape, IsRound
    <2>9. ProcessorShape'
      <3>1. processor.pc # "idle" =>
              \A k \in DOMAIN queue' : processor.msg.challenge < queue'[k].challenge
        BY <1>8, <2>1, <2>2, <2>3, <2>4
      <3>2. attender'.pc = "idle"
        BY <2>1 DEF NoAttender
      <3> QED
        BY <1>1, <1>8, <2>1, <3>1, <3>2 DEF Shape, ProcessorShape, IsRound
    <2> QED
      BY <1>4, <1>5, <2>6, <2>7, <2>8, <2>9 DEF Shape
  <1>12. CASE Receive
    <2> DEFINE next == [NoProcessor EXCEPT !.pc = "earnings", !.msg = Head(queue)]
    <2>1. /\ processor.pc = "idle" /\ queue # <<>> /\ queue' = Tail(queue)
          /\ processor' = next /\ attender' = attender
          /\ challenge' = challenge /\ rewarded' = rewarded
      BY <1>12 DEF Receive
    <2>2. /\ Head(queue) = queue[1] /\ queue[1] \in Messages
          /\ Tail(queue) \in Seq(Messages) /\ Len(queue) \in Nat \ {0}
          /\ DOMAIN queue = 1..Len(queue)
          /\ DOMAIN Tail(queue) = 1..(Len(queue) - 1)
          /\ \A k \in 1..(Len(queue) - 1) : Tail(queue)[k] = queue[k + 1]
      BY <1>3, <2>1, HeadTailProperties, ElementOfSeq, EmptySeq
    <2>3. /\ next \in ProcessorStates /\ next.pc = "earnings" /\ next.msg = queue[1]
      BY <2>2, NothingTyped DEF ProcessorStates, NoProcessor, AfterTable
    <2> HIDE DEF next
    <2>4. TypeOK'
      BY <1>3, <1>6, <2>1, <2>2, <2>3
    <2>5. AttenderShape'
      <3>1. attender.pc \in WithRecord =>
              \E id, c, result : /\ id = attender.id /\ c = attender.old
                                 /\ result = attender.result /\ IsRound(id, c, result)'
        BY <1>2 DEF Shape, AttenderShape
      <3> QED
        BY <2>1, <3>1 DEF Shape, AttenderShape, IsRound
    <2>6. \A k \in DOMAIN queue' : k + 1 \in DOMAIN queue /\ queue'[k] = queue[k + 1]
      BY <2>1, <2>2
    <2>7. QueueShape'
      <3>1. \A k \in DOMAIN queue' :
              \E id, c, result : /\ id = queue'[k].id /\ c = queue'[k].challenge
                                 /\ result = queue'[k].result /\ IsRound(id, c, result)'
        BY <1>7, <2>6
      <3>2. \A k, l \in DOMAIN queue' : k < l => queue'[k].challenge < queue'[l].challenge
        <4>1. DOMAIN queue' \subseteq Nat
          BY <2>1, <2>2
        <4> QED
          BY <1>7, <2>6, <4>1
      <3>3. \A k \in DOMAIN queue' : attender.pc # "idle" => queue'[k].challenge < attender.old
        BY <2>6 DEF Shape, QueueShape
      <3> QED
        BY <2>1, <3>1, <3>2, <3>3 DEF QueueShape, IsRound
    <2>8. ProcessorShape'
      <3>1. /\ 1 \in DOMAIN queue
            /\ \A k \in DOMAIN queue' : 1 < k + 1
        BY <2>1, <2>2
      <3>2. \E id, c, result : /\ id = queue[1].id /\ c = queue[1].challenge
                               /\ result = queue[1].result /\ IsRound(id, c, result)'
        BY <1>7, <3>1
      <3>3. \A k \in DOMAIN queue' : queue[1].challenge < queue'[k].challenge
        BY <1>7, <2>6, <3>1
      <3>4. attender.pc # "idle" => queue[1].challenge < attender.old
        BY <3>1 DEF Shape, QueueShape
      <3> QED
        BY <2>1, <2>3, <3>2, <3>3, <3>4 DEF ProcessorShape, IsRound
    <2> QED
      BY <1>4, <1>5, <2>4, <2>5, <2>7, <2>8 DEF Shape
  <1>13. CASE NextTable
    <2>1. /\ processor.pc \in DOMAIN AfterTable
          /\ processor' = [processor EXCEPT !.pc = AfterTable[@], !.done = 0]
          /\ attender' = attender /\ queue' = queue
          /\ challenge' = challenge /\ rewarded' = rewarded
      BY <1>13 DEF NextTable
    <2>2. /\ processor.pc # "idle"
          /\ AfterTable[processor.pc] \in {"rewards", "contributions", "pool"}
      BY <2>1 DEF AfterTable
    <2>3. /\ processor' \in ProcessorStates /\ processor'.msg = processor.msg
          /\ processor'.pc \in {"rewards", "contributions", "pool"}
      BY <1>3, <2>1, <2>2 DEF ProcessorStates, AfterTable
    <2>4. TypeOK'
      BY <1>3, <1>6, <2>1, <2>3
    <2>5. AttenderShape'
      <3>1. attender.pc \in WithRecord =>
              \E id, c, result : /\ id = attender.id /\ c = attender.old
                                 /\ result = attender.result /\ IsRound(id, c, result)'
        BY <1>2 DEF Shape, AttenderShape
      <3> QED
        BY <2>1, <3>1 DEF Shape, AttenderShape, IsRound
    <2>6. QueueShape'
      BY <1>7, <2>1 DEF Shape, QueueShape, IsRound
    <2>7. ProcessorShape'
      <3>1. attender.pc # "idle" => processor.msg.challenge < attender.old
        BY <2>2 DEF Shape, ProcessorShape
      <3>2. processor'.pc # "idle" /\ processor'.pc # "challenge"
        BY <2>3
      <3> QED
        BY <1>8, <2>1, <2>2, <2>3, <3>1, <3>2 DEF ProcessorShape, IsRound
    <2> QED
      BY <1>4, <1>5, <2>4, <2>5, <2>6, <2>7 DEF Shape
  <1> QED
    BY <1>9, <1>10, <1>11, <1>12, <1>13

(* The balances at first. *)
NoBalances == {[miner |-> m, balance |-> 0] : m \in Enrolled \cup {Receiver}}

LEMMA NoBalancesListed == SetToSeq(NoBalances) \in Seq(NoBalances)
  <1>1. IsFiniteSet(Enrolled \cup {Receiver})
    BY MinersAssumption, FS_AddElement
  <1> DEFINE row == [m \in Enrolled \cup {Receiver} |-> [miner |-> m, balance |-> 0]]
  <1>2. row \in Surjection(Enrolled \cup {Receiver}, NoBalances)
    BY DEF Surjection, NoBalances
  <1>3. IsFiniteSet(NoBalances)
    BY <1>1, <1>2, FS_Surjection
  <1>4. PICK n \in Nat : ExistsBijection(1..n, NoBalances)
    BY <1>3, FS_NatBijection
  <1>5. n = Cardinality(NoBalances)
    BY <1>3, <1>4, FS_CountingElements
  <1>6. \E f \in [1..Cardinality(NoBalances) -> NoBalances] : IsInjective(f)
    BY <1>4, <1>5 DEF ExistsBijection, Bijection, Injection, IsInjective
  <1>7. SetToSeq(NoBalances) \in [1..Cardinality(NoBalances) -> NoBalances]
    BY <1>6 DEF SetToSeq
  <1> QED
    BY <1>4, <1>5, <1>7

LEMMA ShapeInit ==
  ASSUME Init
  PROVE  Shape
  <1> DEFINE rows == {[miner |-> m, balance |-> 0] : m \in Enrolled \cup {Receiver}}
  <1>1. SetToSeq(rows) \in Seq(rows)
    BY NoBalancesListed DEF NoBalances
  <1>2. rows \subseteq BalanceRow
    BY MinersAssumption DEF BalanceRow, Payees
  <1>3. SetToSeq(rows) \in Seq(BalanceRow)
    BY <1>1, <1>2
  <1>4. /\ <<>> \in Seq(ChallengeRow) /\ <<>> \in Seq(ContributionRowType)
        /\ <<>> \in Seq(EarningRow)
    OBVIOUS
  <1>5. /\ db \in Database
        /\ DOMAIN db.challenges = {} /\ DOMAIN db.contributions = {} /\ DOMAIN db.earnings = {}
    <2>1. db = [challenges |-> <<>>, contributions |-> <<>>, earnings |-> <<>>, total |-> 0,
                rewards |-> SetToSeq(rows)]
      BY DEF Init
    <2> HIDE DEF rows
    <2>2. PICK t \in Seq(BalanceRow) : t = SetToSeq(rows)
      BY <1>3
    <2>3. db = [challenges |-> <<>>, contributions |-> <<>>, earnings |-> <<>>,
                rewards |-> t, total |-> 0]
      BY <2>1, <2>2
    <2>4. [challenges |-> <<>>, contributions |-> <<>>, earnings |-> <<>>,
           rewards |-> t, total |-> 0] \in Database
      BY <1>4, DatabaseBuilt
    <2> QED
      BY <2>3, <2>4
  <1>6. TypeOK
    <2>1. /\ challenge \in Rounds /\ rewarded \in [Rounds -> Nat] /\ crashed \in BOOLEAN
          /\ faults \in [FaultKinds -> 0..MaxFaults]
      <3>1. challenge \in Rounds
        BY BoundsAssumption DEF Init, Rounds
      <3>2. rewarded \in [Rounds -> Nat]
        BY DEF Init, Rounds
      <3>3. 0 \in 0..MaxFaults
        BY BoundsAssumption
      <3>4. faults \in [FaultKinds -> 0..MaxFaults]
        BY <3>3 DEF Init
      <3>5. crashed \in BOOLEAN
        BY DEF Init
      <3> QED
        BY <3>1, <3>2, <3>4, <3>5
    <2>2. server \in ServerStates
      BY BoundsAssumption DEF Init, ServerStates
    <2>3. attender \in AttenderStates /\ queue \in Seq(Messages) /\ processor \in ProcessorStates
      BY NothingTyped DEF Init
    <2> QED
      BY <1>5, <2>1, <2>2, <2>3 DEF TypeOK, ServerStates, AttenderStates, ProcessorStates
  <1>7. RowsAreOfChallenges
    BY <1>5 DEF RowsAreOfChallenges
  <1>8. AttenderShape
    BY DEF Init, AttenderShape, NoAttender, WithRecord
  <1>9. QueueShape
    BY DEF Init, QueueShape
  <1>10. ProcessorShape
    BY DEF Init, ProcessorShape, NoProcessor
  <1>11. OtherShape
    BY DEF Init, OtherShape, Rounds
  <1> QED
    BY <1>6, <1>7, <1>8, <1>9, <1>10, <1>11 DEF Shape

LEMMA ShapeSame ==
  ASSUME Shape, UNCHANGED vars
  PROVE  Shape'
  <1>1. TypeOK'
    BY DEF Shape, TypeOK, vars, tasks
  <1>2. RowsAreOfChallenges'
    BY DEF Shape, RowsAreOfChallenges, vars
  <1>3. AttenderShape'
    BY DEF Shape, AttenderShape, IsRound, vars, tasks
  <1>4. QueueShape'
    BY DEF Shape, QueueShape, IsRound, vars, tasks
  <1>5. ProcessorShape'
    BY DEF Shape, ProcessorShape, IsRound, vars, tasks
  <1>6. OtherShape'
    BY DEF Shape, OtherShape, vars
  <1> QED
    BY <1>1, <1>2, <1>3, <1>4, <1>5, <1>6 DEF Shape

LEMMA ShapeStep ==
  ASSUME Shape, [Next]_vars
  PROVE  Shape'
  <1>1. CASE UNCHANGED vars
    BY <1>1, ShapeSame
  <1>2. CASE Next
    BY <1>2, StepIs, CallShape, QuietShape DEF Step, Shape
  <1> QED
    BY <1>1, <1>2

(* The variables have their types. *)
THEOREM TypeCorrect == Spec => []TypeOK
  <1>1. Shape => TypeOK
    BY DEF Shape
  <1> QED
    BY <1>1, ShapeInit, ShapeStep, PTL DEF Spec

-----------------------------------------------------------------------------
(* No round is settled twice                                               *)

EarningsOnce ==
  \A i, j \in DOMAIN db.earnings :
    /\ db.earnings[i].miner = db.earnings[j].miner
    /\ RoundOf(db.earnings[i]) = RoundOf(db.earnings[j])
    => i = j
ContributionsOnce ==
  \A i, j \in DOMAIN db.contributions :
    /\ db.contributions[i].miner = db.contributions[j].miner
    /\ RoundOf(db.contributions[i]) = RoundOf(db.contributions[j])
    => i = j

Paying == {"credit", "send"}

CommissionEarned ==
  /\ attender.pc = "commission"
  /\ db' = WithEarnings(Commission) /\ (AttenderIs(At("credit")) \/ Die)
BatchEarned ==
  /\ processor.pc = "earnings" /\ Unwritten
  /\ db' = WithEarnings(Batch(Earning)) /\ (ProcessorIs(NextBatch) \/ Die)
BatchContributed ==
  /\ processor.pc = "contributions" /\ Unwritten
  /\ db' = WithContributions(Batch(ContributionRow)) /\ (ProcessorIs(NextBatch) \/ Die)

(* The attender goes on, without having recorded its commission now. *)
AttenderGoesOn ==
  \/ attender' = attender
  \/ /\ attender.pc # "idle" /\ attender'.pc # "idle"
     /\ attender'.old = attender.old /\ attender'.result = attender.result
     /\ attender.pc \in Paying <=> attender'.pc \in Paying

(* The processor goes on, without having written to a table now. *)
ProcessorGoesOn(WrittenOf(_)) ==
  \/ processor' = processor
  \/ processor' = NoProcessor
  \/ /\ processor.pc # "idle" /\ processor'.pc # "idle"
     /\ processor'.msg = processor.msg
     /\ WrittenOf(processor') = WrittenOf(processor)

(* The attender's round and result, by a call. *)
LEMMA AttenderCalls ==
  ASSUME Shape, CallStep, ~Die, ~CommissionEarned
  PROVE  AttenderGoesOn
  <1>1. attender \in AttenderStates
    BY DEF Shape, TypeOK, AttenderStates
  <1>2. CASE SearchStep
    BY <1>1, <1>2 DEF SearchStep, Searching, AttenderIs, At, AttenderGoesOn, Paying, AttenderStates
  <1>3. CASE FoundStep
    <2>1. PICK id : attender' = [attender EXCEPT !.pc = "latest", !.id = id]
      BY <1>3 DEF FoundStep, AttenderIs
    <2> QED
      BY <1>1, <1>3, <2>1 DEF FoundStep, Searching, AttenderGoesOn, Paying, AttenderStates
  <1>4. CASE LatestStep
    BY <1>1, <1>4 DEF LatestStep, AttenderIs, At, AttenderGoesOn, Paying, AttenderStates
  <1>5. CASE CommissionStep
    BY <1>5 DEF CommissionStep, CommissionEarned, Attended, AttenderIs, AttenderGoesOn
  <1>6. CASE CreditStep
    BY <1>1, <1>6
       DEF CreditStep, Attended, AttenderIs, At, AttenderGoesOn, Paying, AttenderStates
  <1> QED
    BY <1>2, <1>3, <1>4, <1>5, <1>6
       DEF CallStep, EarningsStep, RewardsStep, ContributionsStep, PoolStep, WinnerStep,
           ChallengeStep, CrashStep, StartStep, Processed, ProcessorIs, AttenderGoesOn, tasks

(* No call touches the channel. *)
LEMMA QueueCalls ==
  ASSUME CallStep, ~Die
  PROVE  queue' = queue /\ crashed' = crashed
  BY DEF CallStep, SearchStep, FoundStep, LatestStep, CommissionStep, CreditStep, EarningsStep,
         RewardsStep, ContributionsStep, PoolStep, WinnerStep, ChallengeStep, CrashStep, StartStep,
         Attended, Processed, AttenderIs, ProcessorIs, tasks

(* How far the three tables are written when a batch is, and before. *)
LEMMA BatchWritten ==
  ASSUME Shape, processor.pc \in DOMAIN AfterTable, Unwritten
  PROVE  /\ NextBatch.pc = processor.pc /\ NextBatch.msg = processor.msg
         /\ Upto(processor) = processor.done /\ Upto(NextBatch) = BatchEnd
         /\ BatchEnd \in Nat /\ BatchEnd <= Len(Contributions)
  <1>1. processor \in ProcessorStates
    BY DEF Shape, TypeOK, ProcessorStates
  <1>2. /\ NextBatch.pc = processor.pc /\ NextBatch.msg = processor.msg
        /\ NextBatch.done = processor.done + BatchSize
    BY <1>1 DEF NextBatch, ProcessorStates
  <1>3. /\ processor.done \in Nat /\ BatchLen \in Nat \ {0}
        /\ processor.done + BatchLen = BatchEnd /\ BatchEnd <= Len(Contributions)
    BY BatchIs DEF Shape
  <1>4. processor.done < Len(Contributions)
    BY DEF Unwritten
  <1>5. Upto(processor) = processor.done
    BY <1>4 DEF Upto, Contributions
  <1>6. Upto(NextBatch) = BatchEnd
    BY <1>2 DEF Upto, BatchEnd, Contributions
  <1> QED
    BY <1>2, <1>3, <1>5, <1>6

(* How far the tables are written, by a call. *)
LEMMA TableCallsWrite ==
  ASSUME Shape, CallStep, ~Die
  PROVE  /\ (BatchEarned /\ processor' = NextBatch) \/ ProcessorGoesOn(EarningsWritten)
         /\ (BatchContributed /\ processor' = NextBatch) \/ ProcessorGoesOn(ContributionsWritten)
  <1>1. processor \in ProcessorStates
    BY DEF Shape, TypeOK, ProcessorStates
  <1>2. CASE EarningsStep
    <2>1. (BatchEarned /\ processor' = NextBatch) \/ processor' = processor
      BY <1>2 DEF EarningsStep, Processed, ProcessorIs, BatchEarned
    <2>2. NextBatch.pc = "earnings" /\ NextBatch.msg = processor.msg /\ processor.pc = "earnings"
      BY <1>2, BatchWritten DEF EarningsStep, AfterTable
    <2> QED
      BY <2>1, <2>2 DEF ProcessorGoesOn, ContributionsWritten
  <1>3. CASE RewardsStep
    <2>1. processor' \in {processor, NextBatch}
      BY <1>3 DEF RewardsStep, Processed, ProcessorIs
    <2>2. NextBatch.pc = "rewards" /\ NextBatch.msg = processor.msg /\ processor.pc = "rewards"
      BY <1>3, BatchWritten DEF RewardsStep, AfterTable
    <2> QED
      BY <2>1, <2>2 DEF ProcessorGoesOn, EarningsWritten, ContributionsWritten
  <1>4. CASE ContributionsStep
    <2>1. (BatchContributed /\ processor' = NextBatch) \/ processor' = processor
      BY <1>4 DEF ContributionsStep, Processed, ProcessorIs, BatchContributed
    <2>2. /\ NextBatch.pc = "contributions" /\ NextBatch.msg = processor.msg
          /\ processor.pc = "contributions"
      BY <1>4, BatchWritten DEF ContributionsStep, AfterTable
    <2> QED
      BY <2>1, <2>2 DEF ProcessorGoesOn, EarningsWritten
  <1>5. CASE PoolStep
    <2>1. processor' \in {processor, [processor EXCEPT !.pc = "winner"]} /\ processor.pc = "pool"
      BY <1>5 DEF PoolStep, ProcessorIs
    <2>2. /\ [processor EXCEPT !.pc = "winner"].pc = "winner"
          /\ [processor EXCEPT !.pc = "winner"].msg = processor.msg
      BY <1>1 DEF ProcessorStates
    <2> QED
      BY <2>1, <2>2 DEF ProcessorGoesOn, EarningsWritten, ContributionsWritten
  <1>6. CASE WinnerStep
    <2>1. ASSUME NEW i
          PROVE  /\ [processor EXCEPT !.pc = "challenge", !.contribution = i].pc = "challenge"
                 /\ [processor EXCEPT !.pc = "challenge", !.contribution = i].msg = processor.msg
      BY <1>1 DEF ProcessorStates
    <2>2. processor.pc = "winner"
      BY <1>6 DEF WinnerStep
    <2>3. processor' = NoProcessor
          \/ \E i : processor' = [processor EXCEPT !.pc = "challenge", !.contribution = i]
      BY <1>6 DEF WinnerStep, ProcessorIs
    <2>4. processor' = NoProcessor
          \/ (processor'.pc = "challenge" /\ processor'.msg = processor.msg)
      <3>1. CASE processor' = NoProcessor
        BY <3>1
      <3>2. CASE \E i : processor' = [processor EXCEPT !.pc = "challenge", !.contribution = i]
        <4>1. PICK i : processor' = [processor EXCEPT !.pc = "challenge", !.contribution = i]
          BY <3>2
        <4> QED
          BY <1>1, <4>1 DEF ProcessorStates
      <3> QED
        BY <2>3, <3>1, <3>2
    <2> QED
      BY <2>2, <2>4 DEF ProcessorGoesOn, EarningsWritten, ContributionsWritten
  <1>7. CASE ChallengeStep
    BY <1>7 DEF ChallengeStep, ProcessorIs, ProcessorGoesOn
  <1> QED
    BY <1>2, <1>3, <1>4, <1>5, <1>6, <1>7
       DEF CallStep, SearchStep, FoundStep, LatestStep, CommissionStep, CreditStep, CrashStep,
           StartStep, Attended, AttenderIs, ProcessorGoesOn, tasks

(* Who writes to the tables of earnings and contributions. *)
LEMMA TablesChange ==
  ASSUME Shape, CallStep
  PROVE  /\ db'.earnings = db.earnings \/ CommissionEarned \/ BatchEarned
         /\ db'.contributions = db.contributions \/ BatchContributed
  <1>1. CASE db' = db
    BY <1>1
  <1>2. db \in Database /\ RowsAreOfChallenges
    BY DEF Shape, TypeOK
  <1>3. ASSUME NEW c, Grown(c)
        PROVE  db'.earnings = db.earnings /\ db'.contributions = db.contributions
    BY <1>2, <1>3, DatabaseFacts DEF Grown, WithChallenge
  <1>4. CASE CommissionStep
    BY <1>1, <1>2, <1>4, DatabaseFacts
       DEF CommissionStep, Attended, CommissionEarned, WithEarnings
  <1>5. CASE CreditStep
    BY <1>1, <1>2, <1>5, DatabaseFacts DEF CreditStep, Attended, WithBalances
  <1>6. CASE EarningsStep
    BY <1>1, <1>2, <1>6, DatabaseFacts DEF EarningsStep, Processed, BatchEarned, WithEarnings
  <1>7. CASE RewardsStep
    BY <1>1, <1>2, <1>7, DatabaseFacts DEF RewardsStep, Processed, WithBalances
  <1>8. CASE ContributionsStep
    BY <1>1, <1>2, <1>8, DatabaseFacts
       DEF ContributionsStep, Processed, BatchContributed, WithContributions
  <1>9. CASE PoolStep
    BY <1>1, <1>2, <1>9, DatabaseFacts DEF PoolStep, WithTotal
  <1>10. CASE ChallengeStep
    BY <1>1, <1>2, <1>10, DatabaseFacts DEF ChallengeStep, WithWinner
  <1> QED
    BY <1>1, <1>3, <1>4, <1>5, <1>6, <1>7, <1>8, <1>9, <1>10
       DEF CallStep, SearchStep, FoundStep, LatestStep, WinnerStep, CrashStep, StartStep

(* The row of the commissions. *)
LEMMA CommissionEarnedRow ==
  ASSUME Shape, CommissionEarned, NEW n \in Nat, n = Len(db.earnings)
  PROVE  /\ DOMAIN db.earnings = 1..n /\ DOMAIN db'.earnings = 1..(n + 1)
         /\ \A i \in 1..n : db'.earnings[i] = db.earnings[i]
         /\ db'.earnings[n + 1].miner = Receiver
         /\ db'.earnings[n + 1].challenge = attender.id
         /\ db'.earnings[n + 1].amount = commissions(attender.result.rewards)
         /\ db'.challenges = db.challenges /\ db'.rewards = db.rewards
         /\ db.challenges[attender.id].challenge = attender.old
  <1>1. db \in Database /\ RowsAreOfChallenges
    BY DEF Shape, TypeOK
  <1>2. /\ Commission \in Seq([miner: Payees, challenge: DOMAIN db.challenges, amount: Nat])
        /\ db.challenges[attender.id].challenge = attender.old
    BY CommissionTyped DEF CommissionEarned, WithRecord, Shape, AttenderShape, IsRound
  <1>3. /\ db'.earnings = db.earnings \o Commission
        /\ db'.challenges = db.challenges /\ db'.rewards = db.rewards
    BY <1>1, <1>2, EarningsAdded DEF CommissionEarned
  <1>4. db.earnings \in Seq(EarningRow)
    BY <1>1, DatabaseFacts
  <1>5. /\ Len(Commission) = 1
        /\ Commission[1] = [miner |-> Receiver, challenge |-> attender.id,
                            amount |-> commissions(attender.result.rewards)]
    BY DEF Commission
  <1>6. PICK row : row = Commission[1]
    OBVIOUS
  <1>7. Commission = <<row>>
    BY <1>5, <1>6 DEF Commission
  <1>8. /\ DOMAIN db.earnings = 1..n /\ DOMAIN (db.earnings \o <<row>>) = 1..(n + 1)
        /\ \A i \in 1..n : (db.earnings \o <<row>>)[i] = db.earnings[i]
        /\ (db.earnings \o <<row>>)[n + 1] = row
    BY <1>4
  <1> QED
    BY <1>2, <1>3, <1>5, <1>6, <1>7, <1>8

(* Appending rows to a table. *)
LEMMA ConcatenatedRows ==
  ASSUME NEW S, NEW T, NEW s \in Seq(S), NEW t \in Seq(T), NEW n \in Nat, NEW b \in Nat,
         n = Len(s), b = Len(t)
  PROVE  /\ DOMAIN s = 1..n /\ DOMAIN (s \o t) = 1..(n + b)
         /\ \A i \in 1..n : (s \o t)[i] = s[i]
         /\ \A k \in 1..b : (s \o t)[n + k] = t[k]
  OBVIOUS

(* A batch of b rows, after n rows of earnings and done of the processor's. *)
EarningsBatch(n, b, done) ==
  /\ n = Len(db.earnings) /\ b = BatchLen /\ done = processor.done
  /\ DOMAIN db.earnings = 1..n /\ DOMAIN db'.earnings = 1..(n + b)
  /\ done + b = BatchEnd /\ BatchEnd <= Len(Contributions) /\ Len(Contributions) \in Nat
  /\ \A i \in 1..n : db'.earnings[i] = db.earnings[i]
  /\ \A k \in 1..b :
       /\ db'.earnings[n + k].miner = Contributions[done + k].miner
       /\ db'.earnings[n + k].challenge = processor.msg.id
       /\ db'.earnings[n + k].amount = Share(Contributions[done + k])
  /\ db'.challenges = db.challenges /\ db'.rewards = db.rewards
  /\ db.challenges[processor.msg.id].challenge = processor.msg.challenge

LEMMA BatchEarnedRows ==
  ASSUME Shape, BatchEarned
  PROVE  \E n, b, done \in Nat : EarningsBatch(n, b, done)
  <1> USE DEF EarningsBatch
  <1>1. db \in Database /\ RowsAreOfChallenges /\ processor.pc # "idle" /\ Unwritten
    BY DEF Shape, TypeOK, BatchEarned
  <1>b. PICK b \in Nat : b = BatchLen
    BY <1>1, BatchIs DEF Shape
  <1>d. PICK done \in Nat : done = processor.done
    BY <1>1, BatchIs DEF Shape
  <1>2. /\ Batch(Earning) \in Seq([miner: Payees, challenge: DOMAIN db.challenges, amount: Nat])
        /\ Len(Batch(Earning)) = b
    BY <1>1, <1>b, BatchTyped
  <1>3. /\ db'.earnings = db.earnings \o Batch(Earning)
        /\ db'.challenges = db.challenges /\ db'.rewards = db.rewards
    BY <1>1, <1>2, EarningsAdded DEF BatchEarned
  <1>4. db.earnings \in Seq(EarningRow)
    BY <1>1, DatabaseFacts
  <1>n. PICK n \in Nat : n = Len(db.earnings)
    BY <1>4
  <1>5. /\ done + b = BatchEnd /\ BatchEnd <= Len(Contributions) /\ Len(Contributions) \in Nat
        /\ Batch(Earning) = [k \in 1..b |-> Earning(Contributions[done + k])]
    BY <1>1, <1>b, <1>d, BatchIs, ContributionsTyped DEF Shape
  <1>6. PICK batch : batch = Batch(Earning)
    OBVIOUS
  <1>7. \A k \in 1..b : /\ batch[k].miner = Contributions[done + k].miner
                        /\ batch[k].challenge = processor.msg.id
                        /\ batch[k].amount = Share(Contributions[done + k])
    <2> TAKE k \in 1..b
    <2>1. batch[k] = Earning(Contributions[done + k])
      BY <1>5, <1>6
    <2> QED
      BY <2>1 DEF Earning
  <1>8. batch \in Seq([miner: Payees, challenge: DOMAIN db.challenges, amount: Nat]) /\ Len(batch) = b
    BY <1>2, <1>6
  <1>9. /\ DOMAIN db.earnings = 1..n /\ DOMAIN (db.earnings \o batch) = 1..(n + b)
        /\ \A i \in 1..n : (db.earnings \o batch)[i] = db.earnings[i]
        /\ \A k \in 1..b : (db.earnings \o batch)[n + k] = batch[k]
    BY <1>4, <1>8, <1>n, ConcatenatedRows
  <1>10. db.challenges[processor.msg.id].challenge = processor.msg.challenge
    BY <1>1 DEF Shape, ProcessorShape, IsRound
  <1>11. /\ DOMAIN db.earnings = 1..n /\ DOMAIN db'.earnings = 1..(n + b)
         /\ \A i \in 1..n : db'.earnings[i] = db.earnings[i]
    BY <1>3, <1>6, <1>9
  <1>12. \A k \in 1..b :
           /\ db'.earnings[n + k].miner = Contributions[done + k].miner
           /\ db'.earnings[n + k].challenge = processor.msg.id
           /\ db'.earnings[n + k].amount = Share(Contributions[done + k])
    <2> TAKE k \in 1..b
    <2>1. db'.earnings[n + k] = batch[k]
      BY <1>3, <1>6, <1>9
    <2> QED
      BY <1>7, <2>1
  <1> QED
    BY <1>3, <1>5, <1>10, <1>11, <1>12, <1>b, <1>d, <1>n

(* n rows, each of a miner and a round, and a batch of b rows that follow *)
(* done rows of the processor's round.                                    *)
Once(n, miner, round) ==
  \A i, j \in 1..n : miner[i] = miner[j] /\ round[i] = round[j] => i = j
Follows(n, b, done, miner, round) ==
  /\ done + b <= Len(Contributions)
  /\ Once(n, miner, round)
  /\ \A i \in 1..n : round[i] = processor.msg.challenge =>
                      miner[i] = Receiver \/ Among(miner[i], done)
  /\ \A k \in 1..b : /\ miner[n + k] = Contributions[done + k].miner
                     /\ round[n + k] = processor.msg.challenge

(* A batch of rows for miners that have none in the round yet. *)
LEMMA BatchOnce ==
  ASSUME Shape, processor.pc # "idle", NEW n \in Nat, NEW b \in Nat, NEW done \in Nat,
         NEW miner, NEW round, Follows(n, b, done, miner, round)
  PROVE  Once(n + b, miner, round)
  <1> USE DEF Follows, Once
  <1>1. PICK len \in Nat : len = Len(Contributions)
    BY ContributionsTyped
  <1>2. \A k, l \in 1..len : Contributions[k].miner = Contributions[l].miner => k = l
    BY <1>1, ContributionsTyped
  <1>3. \A k \in 1..len : Contributions[k].miner # Receiver
    BY <1>1, ContributionsTyped, MinersAssumption DEF Contribution
  <1>4. \A i \in 1..(n + b) : i \in 1..n \/ \E k \in 1..b : i = n + k
    <2> TAKE i \in 1..(n + b)
    <2>1. i \in 1..n \/ (i - n \in 1..b /\ i = n + (i - n))
      OBVIOUS
    <2> QED
      BY <2>1
  <1>5. \A k \in 1..b : done + k \in 1..len /\ done + k \notin 1..done
    BY <1>1
  <1>6. 1..done \subseteq 1..len
    BY <1>1
  <1>7. ASSUME NEW i \in 1..n, NEW k \in 1..b, miner[i] = miner[n + k], round[i] = round[n + k]
        PROVE  FALSE
    <2>1. miner[i] = Contributions[done + k].miner /\ round[i] = processor.msg.challenge
      BY <1>7
    <2>2. PICK l \in 1..done : Contributions[l].miner = miner[i]
      BY <1>3, <1>5, <2>1 DEF Among
    <2> QED
      BY <1>2, <1>5, <1>6, <2>1, <2>2
  <1>8. ASSUME NEW k \in 1..b, NEW l \in 1..b, miner[n + k] = miner[n + l]
        PROVE  k = l
    <2>1. Contributions[done + k].miner = Contributions[done + l].miner
      BY <1>8
    <2>2. done + k = done + l
      BY <1>2, <1>5, <2>1
    <2> QED
      BY <2>2
  <1> SUFFICES ASSUME NEW i \in 1..(n + b), NEW j \in 1..(n + b),
                      miner[i] = miner[j], round[i] = round[j]
               PROVE  i = j
    OBVIOUS
  <1>9. CASE i \in 1..n /\ j \in 1..n
    BY <1>9
  <1>10. CASE i \in 1..n /\ j \notin 1..n
    BY <1>4, <1>7, <1>10
  <1>11. CASE i \notin 1..n /\ j \in 1..n
    BY <1>4, <1>7, <1>11
  <1>12. CASE i \notin 1..n /\ j \notin 1..n
    <2>1. PICK k \in 1..b : i = n + k
      BY <1>4, <1>12
    <2>2. PICK l \in 1..b : j = n + l
      BY <1>4, <1>12
    <2> QED
      BY <1>8, <2>1, <2>2
  <1> QED
    BY <1>9, <1>10, <1>11, <1>12

(* New earnings are of a miner and a round without any. *)
LEMMA EarningsOnceStep ==
  ASSUME Shape, EarningsFresh, EarningsOnce, CallStep
  PROVE  EarningsOnce'
  <1>1. DatabaseKept
    BY CallDatabase
  <1>2. \A i \in DOMAIN db.earnings :
          /\ db.earnings[i].challenge \in DOMAIN db.challenges
          /\ db'.challenges[db.earnings[i].challenge].challenge = RoundOf(db.earnings[i])
    BY <1>1 DEF Shape, RowsAreOfChallenges, DatabaseKept, ChallengesKept, RoundOf
  <1>3. CASE db'.earnings = db.earnings
    <2> DEFINE round(i) == RoundOf(db.earnings[i])
    <2>1. \A i \in DOMAIN db.earnings :
            db'.challenges[db'.earnings[i].challenge].challenge = round(i)
      BY <1>2, <1>3
    <2>2. \A i, j \in DOMAIN db.earnings :
            db.earnings[i].miner = db.earnings[j].miner /\ round(i) = round(j) => i = j
      BY DEF EarningsOnce
    <2> HIDE DEF round
    <2> QED
      BY <1>3, <2>1, <2>2 DEF EarningsOnce, RoundOf
  <1>4. PICK n \in Nat : n = Len(db.earnings)
    <2>1. db.earnings \in Seq(EarningRow)
      BY DatabaseFacts DEF Shape, TypeOK
    <2> QED
      BY <2>1
  <1>5. CASE CommissionEarned
    <2>1. /\ DOMAIN db.earnings = 1..n /\ DOMAIN db'.earnings = 1..(n + 1)
          /\ \A i \in 1..n : db'.earnings[i] = db.earnings[i]
          /\ db'.earnings[n + 1].miner = Receiver
          /\ db'.earnings[n + 1].challenge = attender.id
          /\ db'.challenges = db.challenges
          /\ db.challenges[attender.id].challenge = attender.old
      BY <1>4, <1>5, CommissionEarnedRow
    <2>2. \A i \in 1..n : RoundOf(db.earnings[i]) # attender.old
      BY <1>5, <2>1 DEF CommissionEarned, EarningsFresh, OtherFresh
    <2>3. \A i \in 1..n : /\ db'.earnings[i].miner = db.earnings[i].miner
                          /\ db'.challenges[db'.earnings[i].challenge].challenge = RoundOf(db.earnings[i])
      BY <1>2, <2>1
    <2>4. db'.challenges[db'.earnings[n + 1].challenge].challenge = attender.old
      BY <2>1
    <2>5. \A i, j \in 1..n :
            /\ db.earnings[i].miner = db.earnings[j].miner
            /\ RoundOf(db.earnings[i]) = RoundOf(db.earnings[j])
            => i = j
      BY <2>1 DEF EarningsOnce
    <2>6. \A i \in 1..(n + 1) : i \in 1..n \/ i = n + 1
      BY <1>4
    <2> DEFINE round(i) == db'.challenges[db'.earnings[i].challenge].challenge
    <2>7. ASSUME NEW i \in 1..(n + 1), NEW j \in 1..(n + 1),
                 db'.earnings[i].miner = db'.earnings[j].miner, round(i) = round(j)
          PROVE  i = j
      <3>1. CASE i \in 1..n /\ j \in 1..n
        BY <2>3, <2>5, <2>7, <3>1
      <3>2. CASE i \in 1..n /\ j = n + 1
        BY <2>2, <2>3, <2>4, <2>7, <3>2
      <3>3. CASE i = n + 1 /\ j \in 1..n
        BY <2>2, <2>3, <2>4, <2>7, <3>3
      <3> QED
        BY <2>6, <3>1, <3>2, <3>3
    <2> QED
      BY <2>1, <2>7 DEF EarningsOnce, RoundOf
  <1>6. CASE BatchEarned
    <2>1. PICK m, b, done \in Nat : EarningsBatch(m, b, done)
      BY <1>6, BatchEarnedRows
    <2> USE DEF EarningsBatch
    <2>2. processor.pc = "earnings" /\ EarningsWritten(processor) = done
      <3>1. done = processor.done
        BY <2>1
      <3> QED
        BY <1>6, <3>1, BatchWritten DEF BatchEarned, EarningsWritten, AfterTable
    <2> DEFINE miner == [i \in 1..(m + b) |-> db'.earnings[i].miner]
               round == [i \in 1..(m + b) |-> db'.challenges[db'.earnings[i].challenge].challenge]
    <2>r. 1..m \subseteq 1..(m + b) /\ \A k \in 1..b : m + k \in 1..(m + b)
      OBVIOUS
    <2>d. /\ \A i \in 1..(m + b) : miner[i] = db'.earnings[i].miner
          /\ \A i \in 1..(m + b) :
               round[i] = db'.challenges[db'.earnings[i].challenge].challenge
      OBVIOUS
    <2> HIDE DEF miner, round
    <2>i. \A i \in 1..m : /\ i \in DOMAIN db.earnings /\ i \in 1..(m + b)
                          /\ db'.earnings[i] = db.earnings[i]
      BY <2>1, <2>r
    <2>3. \A i \in 1..m : miner[i] = db.earnings[i].miner /\ round[i] = RoundOf(db.earnings[i])
      BY <1>2, <2>i, <2>d
    <2>4. \A i, j \in 1..m : miner[i] = miner[j] /\ round[i] = round[j] => i = j
      <3>1. \A i, j \in 1..m :
              /\ db.earnings[i].miner = db.earnings[j].miner
              /\ RoundOf(db.earnings[i]) = RoundOf(db.earnings[j])
              => i = j
        BY <2>1 DEF EarningsOnce
      <3> QED
        BY <2>3, <3>1
    <2>5. \A i \in 1..m : round[i] = processor.msg.challenge =>
                            miner[i] = Receiver \/ Among(miner[i], done)
      BY <2>1, <2>2, <2>3 DEF EarningsFresh, WrittenFresh
    <2>6. \A k \in 1..b : /\ miner[m + k] = Contributions[done + k].miner
                          /\ round[m + k] = processor.msg.challenge
      <3> TAKE k \in 1..b
      <3>1. m + k \in 1..(m + b)
        BY <2>r
      <3> QED
        BY <2>1, <2>d, <3>1
    <2>7. done + b <= Len(Contributions)
      BY <2>1
    <2>8. Follows(m, b, done, miner, round)
      BY <2>4, <2>5, <2>6, <2>7 DEF Follows, Once
    <2>9. Once(m + b, miner, round)
      BY <2>2, <2>8, BatchOnce
    <2>10. \A i, j \in 1..(m + b) :
             /\ db'.earnings[i].miner = db'.earnings[j].miner
             /\ db'.challenges[db'.earnings[i].challenge].challenge
                  = db'.challenges[db'.earnings[j].challenge].challenge
             => i = j
      BY <2>9, <2>d DEF Once
    <2> QED
      BY <2>1, <2>10 DEF EarningsOnce, RoundOf
  <1> QED
    BY <1>3, <1>5, <1>6, TablesChange

(* A row that is recorded stays one that the attender and the queue's *)
(* messages do not record again.                                      *)
LEMMA OtherFreshCall ==
  ASSUME Shape, CallStep, NEW m, NEW r, OtherFresh(m, r)
  PROVE  OtherFresh(m, r)'
  <1>1. challenge' = challenge
    BY DEF CallStep
  <1>2. CASE Die
    BY <1>1, <1>2 DEF Die, NoAttender, OtherFresh
  <1>3. CASE ~Die /\ AttenderGoesOn
    BY <1>1, <1>3, QueueCalls DEF OtherFresh, AttenderGoesOn, Paying
  <1>4. CASE ~Die /\ CommissionEarned
    <2>1. attender \in AttenderStates
      BY DEF Shape, TypeOK, AttenderStates
    <2>2. attender.pc = "commission" /\ attender' = At("credit") /\ queue' = queue
      BY <1>4 DEF CommissionEarned, AttenderIs
    <2>3. At("credit").pc = "credit" /\ At("credit").old = attender.old
      BY <2>1 DEF At, AttenderStates
    <2> QED
      BY <1>1, <2>2, <2>3 DEF OtherFresh
  <1> QED
    BY <1>2, <1>3, <1>4, AttenderCalls

(* What a round that is not yet settled has no rows of, without a call. *)
LEMMA OtherFreshQuiet ==
  ASSUME Shape, NEW m, NEW r, OtherFresh(m, r),
         \/ \E result \in RoundResults : Land(result)
         \/ LandUnattended \/ SendMineSuccess \/ Receive \/ NextTable
  PROVE  OtherFresh(m, r)'
  <1>1. challenge \in Nat /\ challenge' \in Nat /\ challenge' >= challenge
    BY QuietSame DEF Rounds
  <1>2. r \in 1..(challenge - 1) /\ r \in 1..(challenge' - 1)
    BY <1>1 DEF OtherFresh
  <1>3. queue \in Seq(Messages)
    BY DEF Shape, TypeOK
  <1>4. CASE \E result \in RoundResults : Land(result)
    <2>1. PICK result \in RoundResults : Land(result)
      BY <1>4
    <2>2. attender'.old = challenge /\ queue' = queue
      BY <2>1 DEF Land
    <2>3. r # challenge
      BY <1>1, <1>2
    <2>4. \A k \in DOMAIN queue' : r = queue'[k].challenge => m = Receiver
      BY <2>2 DEF OtherFresh
    <2> QED
      BY <1>2, <2>2, <2>3, <2>4 DEF OtherFresh
  <1>5. CASE LandUnattended
    BY <1>2, <1>5 DEF LandUnattended, tasks, OtherFresh
  <1>6. CASE SendMineSuccess
    <2> DEFINE message == [id |-> attender.id, challenge |-> attender.old,
                           result |-> attender.result]
    <2>1. attender.pc = "send" /\ attender' = NoAttender /\ queue' = Append(queue, message)
      BY <1>6 DEF SendMineSuccess
    <2>2. r = message.challenge => m = Receiver
      BY <2>1 DEF OtherFresh
    <2> HIDE DEF message
    <2>3. \A k \in DOMAIN queue' : k \in DOMAIN queue \/ queue'[k] = message
      BY <1>3, <2>1
    <2>4. \A k \in DOMAIN queue : k \in DOMAIN queue' => queue'[k] = queue[k]
      BY <1>3, <2>1
    <2>5. \A k \in DOMAIN queue' : r = queue'[k].challenge => m = Receiver
      BY <2>2, <2>3, <2>4 DEF OtherFresh
    <2> QED
      BY <1>2, <2>1, <2>5 DEF OtherFresh, NoAttender
  <1>7. CASE Receive
    <2>1. attender' = attender /\ queue' = Tail(queue) /\ queue # <<>>
      BY <1>7 DEF Receive
    <2>2. \A k \in DOMAIN queue' : k + 1 \in DOMAIN queue /\ queue'[k] = queue[k + 1]
      BY <1>3, <2>1
    <2> QED
      BY <1>2, <2>1, <2>2 DEF OtherFresh
  <1>8. CASE NextTable
    BY <1>2, <1>8 DEF NextTable, OtherFresh
  <1> QED
    BY <1>4, <1>5, <1>6, <1>7, <1>8

(* The tables' turns write nothing. *)
LEMMA TurnWritten ==
  ASSUME Shape, NextTable
  PROVE  /\ processor.pc # "idle" /\ processor'.pc # "idle" /\ processor'.msg = processor.msg
         /\ EarningsWritten(processor') = EarningsWritten(processor)
         /\ RewardsWritten(processor') = RewardsWritten(processor)
         /\ ContributionsWritten(processor') = ContributionsWritten(processor)
  <1>1. processor \in ProcessorStates
    BY DEF Shape, TypeOK, ProcessorStates
  <1>2. /\ processor.pc \in DOMAIN AfterTable /\ ~Unwritten
        /\ processor' = [processor EXCEPT !.pc = AfterTable[@], !.done = 0]
    BY DEF NextTable
  <1>3. /\ processor'.pc = AfterTable[processor.pc] /\ processor'.msg = processor.msg
        /\ processor'.done = 0
    BY <1>1, <1>2 DEF ProcessorStates
  <1>4. processor.pc # "idle"
    BY <1>2 DEF AfterTable
  <1>5. PICK n \in Nat : n = Len(Contributions)
    BY <1>4, ContributionsTyped
  <1>6. n = Len(processor.msg.result.contributions) /\ n = Len(processor'.msg.result.contributions)
    BY <1>3, <1>5 DEF Contributions
  <1>7. ~(processor.done < n)
    BY <1>2, <1>5 DEF Unwritten
  <1>8. Upto(processor) = n
    BY <1>6, <1>7 DEF Upto
  <1>9. Upto(processor') = 0
    BY <1>3, <1>5, <1>6 DEF Upto
  <1>10. \/ processor.pc = "earnings" /\ processor'.pc = "rewards"
         \/ processor.pc = "rewards" /\ processor'.pc = "contributions"
         \/ processor.pc = "contributions" /\ processor'.pc = "pool"
    BY <1>2, <1>3 DEF AfterTable
  <1> QED
    BY <1>3, <1>4, <1>6, <1>8, <1>9, <1>10
       DEF EarningsWritten, RewardsWritten, ContributionsWritten

(* How far the tables are written. *)
LEMMA WrittenNat ==
  ASSUME Shape, processor.pc # "idle"
  PROVE  /\ EarningsWritten(processor) \in 0..Len(Contributions)
         /\ RewardsWritten(processor) \in 0..Len(Contributions)
         /\ ContributionsWritten(processor) \in 0..Len(Contributions)
         /\ RewardsWritten(processor) <= EarningsWritten(processor)
  <1>1. processor.done \in Nat
    BY DEF Shape, TypeOK
  <1>2. PICK n \in Nat : n = Len(Contributions)
    BY ContributionsTyped
  <1>3. n = Len(processor.msg.result.contributions)
    BY <1>2 DEF Contributions
  <1>4. Upto(processor) \in 0..n
    BY <1>1, <1>3 DEF Upto
  <1> QED
    BY <1>2, <1>3, <1>4 DEF EarningsWritten, RewardsWritten, ContributionsWritten

(* What the processor has recorded stays recorded, and what it receives *)
(* is recorded for nobody but the receiver of the commissions.          *)
LEMMA EarningsFreshCall ==
  ASSUME Shape, CallStep, NEW m, NEW r, WrittenFresh(m, r, EarningsWritten(processor))
  PROVE  WrittenFresh(m, r, EarningsWritten(processor))'
  <1>1. CASE Die
    BY <1>1 DEF Die, NoProcessor, WrittenFresh
  <1>2. CASE ~Die /\ BatchEarned /\ processor' = NextBatch
    <2>1. /\ processor.pc = "earnings" /\ Unwritten
          /\ NextBatch.pc = "earnings" /\ NextBatch.msg = processor.msg
          /\ Upto(processor) = processor.done /\ Upto(NextBatch) = BatchEnd
          /\ processor.done \in Nat /\ BatchEnd \in Nat /\ processor.done <= BatchEnd
      BY <1>2, BatchWritten, BatchIs DEF BatchEarned, AfterTable, Shape
    <2>2. /\ EarningsWritten(processor) = processor.done
          /\ EarningsWritten(processor') = BatchEnd
          /\ Contributions' = Contributions
      BY <1>2, <2>1 DEF EarningsWritten, Contributions
    <2>3. 1..processor.done \subseteq 1..BatchEnd
      BY <2>1
    <2> QED
      BY <1>2, <2>1, <2>2, <2>3 DEF WrittenFresh, Among
  <1>3. CASE ~Die /\ ProcessorGoesOn(EarningsWritten)
    BY <1>3 DEF ProcessorGoesOn, NoProcessor, WrittenFresh, Among, Contributions
  <1> QED
    BY <1>1, <1>2, <1>3, TableCallsWrite

LEMMA ContributionsFreshCall ==
  ASSUME Shape, CallStep, NEW m, NEW r, WrittenFresh(m, r, ContributionsWritten(processor))
  PROVE  WrittenFresh(m, r, ContributionsWritten(processor))'
  <1>1. CASE Die
    BY <1>1 DEF Die, NoProcessor, WrittenFresh
  <1>2. CASE ~Die /\ BatchContributed /\ processor' = NextBatch
    <2>1. /\ processor.pc = "contributions" /\ Unwritten
          /\ NextBatch.pc = "contributions" /\ NextBatch.msg = processor.msg
          /\ Upto(processor) = processor.done /\ Upto(NextBatch) = BatchEnd
          /\ processor.done \in Nat /\ BatchEnd \in Nat /\ processor.done <= BatchEnd
      BY <1>2, BatchWritten, BatchIs DEF BatchContributed, AfterTable, Shape
    <2>2. /\ ContributionsWritten(processor) = processor.done
          /\ ContributionsWritten(processor') = BatchEnd
          /\ Contributions' = Contributions
      BY <1>2, <2>1 DEF ContributionsWritten, Contributions
    <2>3. 1..processor.done \subseteq 1..BatchEnd
      BY <2>1
    <2> QED
      BY <1>2, <2>1, <2>2, <2>3 DEF WrittenFresh, Among
  <1>3. CASE ~Die /\ ProcessorGoesOn(ContributionsWritten)
    BY <1>3 DEF ProcessorGoesOn, NoProcessor, WrittenFresh, Among, Contributions
  <1> QED
    BY <1>1, <1>2, <1>3, TableCallsWrite

LEMMA WrittenFreshQuiet ==
  ASSUME Shape, NEW m, NEW r, OtherFresh(m, r),
         \/ \E result \in RoundResults : Land(result)
         \/ LandUnattended \/ SendMineSuccess \/ Receive \/ NextTable
  PROVE  /\ WrittenFresh(m, r, EarningsWritten(processor))
              => WrittenFresh(m, r, EarningsWritten(processor))'
         /\ WrittenFresh(m, r, ContributionsWritten(processor))
              => WrittenFresh(m, r, ContributionsWritten(processor))'
  <1>1. CASE processor' = processor
    BY <1>1 DEF WrittenFresh, Among, Contributions
  <1>2. CASE Receive
    <2> DEFINE next == [NoProcessor EXCEPT !.pc = "earnings", !.msg = Head(queue)]
    <2>1. queue \in Seq(Messages) /\ queue # <<>> /\ processor' = next
      BY <1>2 DEF Receive, Shape, TypeOK
    <2>2. 1 \in DOMAIN queue /\ Head(queue) = queue[1] /\ next.msg = Head(queue)
      BY <2>1 DEF NoProcessor
    <2>3. r = queue[1].challenge => m = Receiver
      BY <2>2 DEF OtherFresh
    <2> HIDE DEF next
    <2> QED
      BY <2>1, <2>2, <2>3 DEF WrittenFresh
  <1>3. CASE NextTable
    BY <1>3, TurnWritten DEF WrittenFresh, Among, Contributions
  <1> QED
    BY <1>1, <1>2, <1>3 DEF Land, LandUnattended, SendMineSuccess, tasks

(* A batch of b rows, after n rows of contributions and done of the processor's. *)
ContributionsBatch(n, b, done) ==
  /\ n = Len(db.contributions) /\ b = BatchLen /\ done = processor.done
  /\ DOMAIN db.contributions = 1..n /\ DOMAIN db'.contributions = 1..(n + b)
  /\ done + b = BatchEnd /\ BatchEnd <= Len(Contributions) /\ Len(Contributions) \in Nat
  /\ \A i \in 1..n : db'.contributions[i] = db.contributions[i]
  /\ \A k \in 1..b :
       /\ db'.contributions[n + k].miner = Contributions[done + k].miner
       /\ db'.contributions[n + k].challenge = processor.msg.id
       /\ db'.contributions[n + k].nonce = Contributions[done + k].nonce
  /\ db'.challenges = db.challenges
  /\ db.challenges[processor.msg.id].challenge = processor.msg.challenge

LEMMA BatchContributedRows ==
  ASSUME Shape, BatchContributed
  PROVE  \E n, b, done \in Nat : ContributionsBatch(n, b, done)
  <1> USE DEF ContributionsBatch
  <1>1. db \in Database /\ RowsAreOfChallenges /\ processor.pc # "idle" /\ Unwritten
    BY DEF Shape, TypeOK, BatchContributed
  <1>b. PICK b \in Nat : b = BatchLen
    BY <1>1, BatchIs DEF Shape
  <1>d. PICK done \in Nat : done = processor.done
    BY <1>1, BatchIs DEF Shape
  <1>n. PICK n \in Nat : n = Len(db.contributions)
    <2>1. Len(db.contributions) \in Nat
      BY <1>1, DatabaseFacts
    <2> QED
      BY <2>1
  <1>2. PICK batch : batch = Batch(ContributionRow)
    OBVIOUS
  <1>3. /\ batch \in Seq([miner: Miners, challenge: DOMAIN db.challenges, nonce: Nat])
        /\ Len(batch) = b
    BY <1>1, <1>2, <1>b, BatchTyped
  <1>4. db' = WithContributions(batch)
    BY <1>2 DEF BatchContributed
  <1>5. /\ DOMAIN db.contributions = 1..n /\ DOMAIN db'.contributions = 1..(n + b)
        /\ \A i \in 1..n : db'.contributions[i] = db.contributions[i]
        /\ \A k \in 1..b : /\ db'.contributions[n + k].miner = batch[k].miner
                           /\ db'.contributions[n + k].challenge = batch[k].challenge
                           /\ db'.contributions[n + k].nonce = batch[k].nonce
        /\ db'.challenges = db.challenges
    BY <1>1, <1>3, <1>4, <1>n, ContributionsAdded, DatabaseFacts
  <1>6. /\ done + b = BatchEnd /\ BatchEnd <= Len(Contributions) /\ Len(Contributions) \in Nat
        /\ batch = [k \in 1..b |-> ContributionRow(Contributions[done + k])]
    BY <1>1, <1>2, <1>b, <1>d, BatchIs, ContributionsTyped DEF Shape
  <1>7. \A k \in 1..b : /\ batch[k].miner = Contributions[done + k].miner
                        /\ batch[k].challenge = processor.msg.id
                        /\ batch[k].nonce = Contributions[done + k].nonce
    <2> TAKE k \in 1..b
    <2>1. batch[k] = ContributionRow(Contributions[done + k])
      BY <1>6
    <2> QED
      BY <2>1 DEF ContributionRow
  <1>8. db.challenges[processor.msg.id].challenge = processor.msg.challenge
    BY <1>1 DEF Shape, ProcessorShape, IsRound
  <1>9. \A k \in 1..b :
          /\ db'.contributions[n + k].miner = Contributions[done + k].miner
          /\ db'.contributions[n + k].challenge = processor.msg.id
          /\ db'.contributions[n + k].nonce = Contributions[done + k].nonce
    BY <1>5, <1>7
  <1> WITNESS n \in Nat, b \in Nat, done \in Nat
  <1> QED
    BY <1>5, <1>6, <1>8, <1>9, <1>b, <1>d, <1>n

(* New contributions are of a miner and a round without any. *)
LEMMA ContributionsOnceStep ==
  ASSUME Shape, ContributionsFresh, ContributionsOnce, CallStep
  PROVE  ContributionsOnce'
  <1>1. DatabaseKept
    BY CallDatabase
  <1>2. \A i \in DOMAIN db.contributions :
          /\ db.contributions[i].challenge \in DOMAIN db.challenges
          /\ db'.challenges[db.contributions[i].challenge].challenge = RoundOf(db.contributions[i])
    BY <1>1 DEF Shape, RowsAreOfChallenges, DatabaseKept, ChallengesKept, RoundOf
  <1>3. CASE db'.contributions = db.contributions
    <2> DEFINE round(i) == RoundOf(db.contributions[i])
    <2>1. \A i \in DOMAIN db.contributions :
            db'.challenges[db'.contributions[i].challenge].challenge = round(i)
      BY <1>2, <1>3
    <2>2. \A i, j \in DOMAIN db.contributions :
            db.contributions[i].miner = db.contributions[j].miner /\ round(i) = round(j) => i = j
      BY DEF ContributionsOnce
    <2> HIDE DEF round
    <2> QED
      BY <1>3, <2>1, <2>2 DEF ContributionsOnce, RoundOf
  <1>4. CASE BatchContributed
    <2>1. PICK m, b, done \in Nat : ContributionsBatch(m, b, done)
      BY <1>4, BatchContributedRows
    <2> USE DEF ContributionsBatch
    <2>2. processor.pc = "contributions" /\ ContributionsWritten(processor) = done
      <3>1. done = processor.done
        BY <2>1
      <3> QED
        BY <1>4, <3>1, BatchWritten DEF BatchContributed, ContributionsWritten, AfterTable
    <2> DEFINE miner == [i \in 1..(m + b) |-> db'.contributions[i].miner]
               round == [i \in 1..(m + b) |->
                          db'.challenges[db'.contributions[i].challenge].challenge]
    <2>r. 1..m \subseteq 1..(m + b) /\ \A k \in 1..b : m + k \in 1..(m + b)
      OBVIOUS
    <2>d. /\ \A i \in 1..(m + b) : miner[i] = db'.contributions[i].miner
          /\ \A i \in 1..(m + b) :
               round[i] = db'.challenges[db'.contributions[i].challenge].challenge
      OBVIOUS
    <2> HIDE DEF miner, round
    <2>i. \A i \in 1..m : /\ i \in DOMAIN db.contributions /\ i \in 1..(m + b)
                          /\ db'.contributions[i] = db.contributions[i]
      BY <2>1, <2>r
    <2>3. \A i \in 1..m : miner[i] = db.contributions[i].miner /\ round[i] = RoundOf(db.contributions[i])
      BY <1>2, <2>i, <2>d
    <2>4. \A i, j \in 1..m : miner[i] = miner[j] /\ round[i] = round[j] => i = j
      <3>1. \A i, j \in 1..m :
              /\ db.contributions[i].miner = db.contributions[j].miner
              /\ RoundOf(db.contributions[i]) = RoundOf(db.contributions[j])
              => i = j
        BY <2>1 DEF ContributionsOnce
      <3> QED
        BY <2>3, <3>1
    <2>5. \A i \in 1..m : round[i] = processor.msg.challenge =>
                            miner[i] = Receiver \/ Among(miner[i], done)
      <3>1. \A i \in 1..m :
              WrittenFresh(db.contributions[i].miner, RoundOf(db.contributions[i]), done)
        BY <2>1, <2>2 DEF ContributionsFresh
      <3>2. processor.pc # "idle"
        BY <2>2
      <3> QED
        BY <2>3, <3>1, <3>2 DEF WrittenFresh
    <2>6. \A k \in 1..b : /\ miner[m + k] = Contributions[done + k].miner
                          /\ round[m + k] = processor.msg.challenge
      <3> TAKE k \in 1..b
      <3>1. m + k \in 1..(m + b)
        BY <2>r
      <3> QED
        BY <2>1, <2>d, <3>1
    <2>7. done + b <= Len(Contributions)
      BY <2>1
    <2>8. Follows(m, b, done, miner, round)
      BY <2>4, <2>5, <2>6, <2>7 DEF Follows, Once
    <2>9. Once(m + b, miner, round)
      BY <2>2, <2>8, BatchOnce
    <2>10. \A i, j \in 1..(m + b) :
             /\ db'.contributions[i].miner = db'.contributions[j].miner
             /\ db'.challenges[db'.contributions[i].challenge].challenge
                  = db'.challenges[db'.contributions[j].challenge].challenge
             => i = j
      BY <2>9, <2>d DEF Once
    <2> QED
      BY <2>1, <2>10 DEF ContributionsOnce, RoundOf
  <1> QED
    BY <1>3, <1>4, TablesChange

(* A contribution that is written now is of the processor's round, which is *)
(* neither the attender's nor one of the queue's.                           *)
LEMMA BatchIsFresh ==
  ASSUME Shape, processor.pc # "idle",
         \/ attender' = attender /\ queue' = queue
         \/ attender' = NoAttender /\ queue' = <<>>,
         challenge' = challenge, NEW m
  PROVE  \A c : c = processor.msg.challenge => OtherFresh(m, c)'
  <1> SUFFICES ASSUME NEW c, c = processor.msg.challenge
               PROVE  OtherFresh(m, c)'
    OBVIOUS
  <1>2. /\ c \in 1..(challenge - 1)
        /\ attender.pc # "idle" => c < attender.old
        /\ \A k \in DOMAIN queue : c < queue[k].challenge
    BY DEF Shape, ProcessorShape, IsRound
  <1>3. /\ attender.old \in Nat
        /\ \A k \in DOMAIN queue : queue[k].challenge \in Nat
    <2>1. queue \in Seq(Messages) /\ attender.old \in Nat
      BY BoundsAssumption DEF Shape, TypeOK
    <2>2. \A k \in DOMAIN queue : queue[k] \in Messages
      BY <2>1, ElementOfSeq
    <2> QED
      BY <2>1, <2>2, BoundsAssumption DEF Messages
  <1>4. /\ attender.pc # "idle" => c # attender.old
        /\ \A k \in DOMAIN queue : c # queue[k].challenge
    BY <1>2, <1>3
  <1>5. OtherFresh(m, c)'
    BY <1>2, <1>4 DEF OtherFresh, NoAttender
  <1> QED
    BY <1>5

(* Rows of earnings, and what is still to be written. *)
LEMMA EarningsFreshStep ==
  ASSUME Shape, EarningsFresh, CallStep
  PROVE  EarningsFresh'
  <1>1. DatabaseKept /\ challenge' = challenge
    BY CallDatabase DEF CallStep
  <1>2. \A i \in DOMAIN db.earnings :
          \E m, r : /\ m = db.earnings[i].miner
                    /\ r = db'.challenges[db.earnings[i].challenge].challenge
                    /\ OtherFresh(m, r)' /\ WrittenFresh(m, r, EarningsWritten(processor))'
    <2> TAKE i \in DOMAIN db.earnings
    <2>1. PICK m, r : m = db.earnings[i].miner /\ r = RoundOf(db.earnings[i])
      OBVIOUS
    <2>2. r = db'.challenges[db.earnings[i].challenge].challenge
      BY <1>1, <2>1 DEF Shape, RowsAreOfChallenges, DatabaseKept, ChallengesKept, RoundOf
    <2>3. OtherFresh(m, r) /\ WrittenFresh(m, r, EarningsWritten(processor))
      BY <2>1 DEF EarningsFresh
    <2>4. OtherFresh(m, r)' /\ WrittenFresh(m, r, EarningsWritten(processor))'
      BY <2>3, OtherFreshCall, EarningsFreshCall
    <2> QED
      BY <2>1, <2>2, <2>4
  <1> DEFINE RowIsFresh(i) ==
               \E m, r : /\ m = db'.earnings[i].miner
                         /\ r = db'.challenges[db'.earnings[i].challenge].challenge
                         /\ OtherFresh(m, r)' /\ WrittenFresh(m, r, EarningsWritten(processor))'
  <1>3. SUFFICES \A i \in DOMAIN db'.earnings : RowIsFresh(i)
    BY DEF EarningsFresh, RoundOf
  <1>a. ASSUME NEW i \in DOMAIN db.earnings, db'.earnings[i] = db.earnings[i]
        PROVE  RowIsFresh(i)
    BY <1>2, <1>a
  <1>b. ASSUME NEW i, NEW m, NEW r, m = db'.earnings[i].miner,
               r = db'.challenges[db'.earnings[i].challenge].challenge,
               OtherFresh(m, r)', WrittenFresh(m, r, EarningsWritten(processor))'
        PROVE  RowIsFresh(i)
    BY <1>b
  <1> HIDE DEF RowIsFresh
  <1>4. CASE db'.earnings = db.earnings
    BY <1>4, <1>a
  <1>5. CASE CommissionEarned
    <2>1. PICK n \in Nat : n = Len(db.earnings)
      <3>1. db.earnings \in Seq(EarningRow)
        BY DatabaseFacts DEF Shape, TypeOK
      <3> QED
        BY <3>1
    <2>2. /\ DOMAIN db.earnings = 1..n /\ DOMAIN db'.earnings = 1..(n + 1)
          /\ \A i \in 1..n : db'.earnings[i] = db.earnings[i]
          /\ db'.earnings[n + 1].miner = Receiver
          /\ db'.earnings[n + 1].challenge = attender.id
          /\ db'.challenges = db.challenges
          /\ db.challenges[attender.id].challenge = attender.old
      BY <1>5, <2>1, CommissionEarnedRow
    <2>3. PICK m, r : m = Receiver /\ r = attender.old
      OBVIOUS
    <2>4. r \in 1..(challenge - 1) /\ \A k \in DOMAIN queue : r # queue[k].challenge
      <3>1. attender.pc = "commission"
        BY <1>5 DEF CommissionEarned
      <3>2. /\ attender.old \in Nat /\ attender.old = challenge - 1 /\ attender.old >= 1
            /\ \A k \in DOMAIN queue : queue[k].challenge < attender.old
        BY <3>1, BoundsAssumption DEF Shape, TypeOK, AttenderShape, QueueShape
      <3> QED
        BY <2>3, <3>2
    <2>5. OtherFresh(m, r)'
      <3>1. CASE Die
        BY <1>1, <2>4, <3>1 DEF Die, NoAttender, OtherFresh
      <3>2. CASE AttenderIs(At("credit"))
        <4>1. attender'.pc = "credit" /\ queue' = queue
          BY <3>2 DEF AttenderIs, At, Shape, TypeOK
        <4> QED
          BY <1>1, <2>3, <2>4, <4>1 DEF OtherFresh
      <3> QED
        BY <1>5, <3>1, <3>2 DEF CommissionEarned
    <2>6. WrittenFresh(m, r, EarningsWritten(processor))'
      BY <2>3 DEF WrittenFresh
    <2>7. \A i \in 1..(n + 1) : i \in 1..n \/ i = n + 1
      OBVIOUS
    <2>8. RowIsFresh(n + 1)
      BY <1>b, <2>2, <2>3, <2>5, <2>6
    <2> QED
      BY <1>a, <2>2, <2>7, <2>8
  <1>6. CASE BatchEarned
    <2>1. PICK n, b, done \in Nat : EarningsBatch(n, b, done)
      BY <1>6, BatchEarnedRows
    <2> USE DEF EarningsBatch
    <2>2. processor.pc = "earnings" /\ processor.pc # "idle" /\ Unwritten
      BY <1>6 DEF BatchEarned
    <2>3. ASSUME NEW k \in 1..b, NEW m, NEW r, m = Contributions[done + k].miner,
                 r = processor.msg.challenge
          PROVE  OtherFresh(m, r)' /\ WrittenFresh(m, r, EarningsWritten(processor))'
      <3>1. CASE Die
        <4>1. OtherFresh(m, r)'
          BY <1>1, <2>2, <2>3, <3>1, BatchIsFresh DEF Die
        <4> QED
          BY <3>1, <4>1 DEF Die, NoProcessor, WrittenFresh
      <3>2. CASE ProcessorIs(NextBatch)
        <4>1. OtherFresh(m, r)'
          BY <1>1, <2>2, <2>3, <3>2, BatchIsFresh DEF ProcessorIs
        <4>2. /\ processor' = NextBatch /\ NextBatch.pc = "earnings"
              /\ NextBatch.msg = processor.msg /\ Upto(NextBatch) = BatchEnd
          BY <2>2, <3>2, BatchWritten DEF ProcessorIs, AfterTable
        <4>3. EarningsWritten(processor') = BatchEnd /\ Contributions' = Contributions
          BY <4>2 DEF EarningsWritten, Contributions
        <4>4. done + k \in 1..BatchEnd
          BY <2>1
        <4> QED
          BY <2>3, <4>1, <4>3, <4>4 DEF WrittenFresh, Among
      <3> QED
        BY <1>6, <3>1, <3>2 DEF BatchEarned
    <2>4. \A i \in 1..(n + b) : i \in 1..n \/ \E k \in 1..b : i = n + k
      <3> TAKE i \in 1..(n + b)
      <3>1. i \in 1..n \/ (i - n \in 1..b /\ i = n + (i - n))
        OBVIOUS
      <3> QED
        BY <3>1
    <2>5. ASSUME NEW k \in 1..b
          PROVE  RowIsFresh(n + k)
      <3>1. PICK m, r : m = Contributions[done + k].miner /\ r = processor.msg.challenge
        OBVIOUS
      <3>2. /\ m = db'.earnings[n + k].miner
            /\ r = db'.challenges[db'.earnings[n + k].challenge].challenge
        BY <2>1, <3>1
      <3>3. OtherFresh(m, r)' /\ WrittenFresh(m, r, EarningsWritten(processor))'
        BY <2>3, <3>1
      <3> QED
        BY <1>b, <3>2, <3>3
    <2>6. \A i \in 1..n : RowIsFresh(i)
      BY <1>a, <2>1
    <2>7. ASSUME NEW i \in 1..(n + b)
          PROVE  RowIsFresh(i)
      <3>1. CASE i \in 1..n
        BY <2>6, <3>1
      <3>2. CASE \E k \in 1..b : i = n + k
        <4>1. PICK k \in 1..b : i = n + k
          BY <3>2
        <4>2. RowIsFresh(n + k)
          BY <2>5
        <4> QED
          BY <4>1, <4>2
      <3> QED
        BY <2>4, <3>1, <3>2
    <2>8. DOMAIN db'.earnings = 1..(n + b)
      BY <2>1
    <2> QED
      BY <2>7, <2>8
  <1> QED
    BY <1>4, <1>5, <1>6, TablesChange

(* Rows of contributions, and what is still to be written. *)
LEMMA ContributionsFreshStep ==
  ASSUME Shape, ContributionsFresh, CallStep
  PROVE  ContributionsFresh'
  <1>1. DatabaseKept /\ challenge' = challenge
    BY CallDatabase DEF CallStep
  <1>2. \A i \in DOMAIN db.contributions :
          \E m, r : /\ m = db.contributions[i].miner
                    /\ r = db'.challenges[db.contributions[i].challenge].challenge
                    /\ OtherFresh(m, r)' /\ WrittenFresh(m, r, ContributionsWritten(processor))'
    <2> TAKE i \in DOMAIN db.contributions
    <2>1. PICK m, r : m = db.contributions[i].miner /\ r = RoundOf(db.contributions[i])
      OBVIOUS
    <2>2. r = db'.challenges[db.contributions[i].challenge].challenge
      BY <1>1, <2>1 DEF Shape, RowsAreOfChallenges, DatabaseKept, ChallengesKept, RoundOf
    <2>3. OtherFresh(m, r) /\ WrittenFresh(m, r, ContributionsWritten(processor))
      BY <2>1 DEF ContributionsFresh
    <2>4. OtherFresh(m, r)' /\ WrittenFresh(m, r, ContributionsWritten(processor))'
      BY <2>3, OtherFreshCall, ContributionsFreshCall
    <2> QED
      BY <2>1, <2>2, <2>4
  <1> DEFINE RowIsFresh(i) ==
               \E m, r : /\ m = db'.contributions[i].miner
                         /\ r = db'.challenges[db'.contributions[i].challenge].challenge
                         /\ OtherFresh(m, r)' /\ WrittenFresh(m, r, ContributionsWritten(processor))'
  <1>3. SUFFICES \A i \in DOMAIN db'.contributions : RowIsFresh(i)
    BY DEF ContributionsFresh, RoundOf
  <1>a. ASSUME NEW i \in DOMAIN db.contributions, db'.contributions[i] = db.contributions[i]
        PROVE  RowIsFresh(i)
    BY <1>2, <1>a
  <1>b. ASSUME NEW i, NEW m, NEW r, m = db'.contributions[i].miner,
               r = db'.challenges[db'.contributions[i].challenge].challenge,
               OtherFresh(m, r)', WrittenFresh(m, r, ContributionsWritten(processor))'
        PROVE  RowIsFresh(i)
    BY <1>b
  <1> HIDE DEF RowIsFresh
  <1>4. CASE db'.contributions = db.contributions
    BY <1>4, <1>a
  <1>5. CASE BatchContributed
    <2>1. PICK n, b, done \in Nat : ContributionsBatch(n, b, done)
      BY <1>5, BatchContributedRows
    <2> USE DEF ContributionsBatch
    <2>2. processor.pc = "contributions" /\ processor.pc # "idle" /\ Unwritten
      BY <1>5 DEF BatchContributed
    <2>3. ASSUME NEW k \in 1..b, NEW m, NEW r, m = Contributions[done + k].miner,
                 r = processor.msg.challenge
          PROVE  OtherFresh(m, r)' /\ WrittenFresh(m, r, ContributionsWritten(processor))'
      <3>1. CASE Die
        <4>1. OtherFresh(m, r)'
          BY <1>1, <2>2, <2>3, <3>1, BatchIsFresh DEF Die
        <4> QED
          BY <3>1, <4>1 DEF Die, NoProcessor, WrittenFresh
      <3>2. CASE ProcessorIs(NextBatch)
        <4>1. OtherFresh(m, r)'
          BY <1>1, <2>2, <2>3, <3>2, BatchIsFresh DEF ProcessorIs
        <4>2. /\ processor' = NextBatch /\ NextBatch.pc = "contributions"
              /\ NextBatch.msg = processor.msg /\ Upto(NextBatch) = BatchEnd
          BY <2>2, <3>2, BatchWritten DEF ProcessorIs, AfterTable
        <4>3. ContributionsWritten(processor') = BatchEnd /\ Contributions' = Contributions
          BY <4>2 DEF ContributionsWritten, Contributions
        <4>4. done + k \in 1..BatchEnd
          BY <2>1
        <4> QED
          BY <2>3, <4>1, <4>3, <4>4 DEF WrittenFresh, Among
      <3> QED
        BY <1>5, <3>1, <3>2 DEF BatchContributed
    <2>4. \A i \in 1..(n + b) : i \in 1..n \/ \E k \in 1..b : i = n + k
      <3> TAKE i \in 1..(n + b)
      <3>1. i \in 1..n \/ (i - n \in 1..b /\ i = n + (i - n))
        OBVIOUS
      <3> QED
        BY <3>1
    <2>5. ASSUME NEW k \in 1..b
          PROVE  RowIsFresh(n + k)
      <3>1. PICK m, r : m = Contributions[done + k].miner /\ r = processor.msg.challenge
        OBVIOUS
      <3>2. /\ m = db'.contributions[n + k].miner
            /\ r = db'.challenges[db'.contributions[n + k].challenge].challenge
        BY <2>1, <3>1
      <3>3. OtherFresh(m, r)' /\ WrittenFresh(m, r, ContributionsWritten(processor))'
        BY <2>3, <3>1
      <3> QED
        BY <1>b, <3>2, <3>3
    <2>6. \A i \in 1..n : RowIsFresh(i)
      BY <1>a, <2>1
    <2>7. ASSUME NEW i \in 1..(n + b)
          PROVE  RowIsFresh(i)
      <3>1. CASE i \in 1..n
        BY <2>6, <3>1
      <3>2. CASE \E k \in 1..b : i = n + k
        <4>1. PICK k \in 1..b : i = n + k
          BY <3>2
        <4>2. RowIsFresh(n + k)
          BY <2>5
        <4> QED
          BY <4>1, <4>2
      <3> QED
        BY <2>4, <3>1, <3>2
    <2>8. DOMAIN db'.contributions = 1..(n + b)
      BY <2>1
    <2> QED
      BY <2>7, <2>8
  <1> QED
    BY <1>4, <1>5, TablesChange

(* The steps that call nothing write nothing. *)
LEMMA FreshQuiet ==
  ASSUME Shape, Fresh, \/ \E result \in RoundResults : Land(result)
                       \/ LandUnattended \/ SendMineSuccess \/ Receive \/ NextTable
  PROVE  Fresh'
  <1>1. db' = db
    BY QuietSame
  <1>2. ASSUME NEW m, NEW r, OtherFresh(m, r)
        PROVE  /\ OtherFresh(m, r)'
               /\ WrittenFresh(m, r, EarningsWritten(processor))
                    => WrittenFresh(m, r, EarningsWritten(processor))'
               /\ WrittenFresh(m, r, ContributionsWritten(processor))
                    => WrittenFresh(m, r, ContributionsWritten(processor))'
    BY <1>2, OtherFreshQuiet, WrittenFreshQuiet
  <1>3. EarningsFresh'
    <2> SUFFICES ASSUME NEW i \in DOMAIN db.earnings
                 PROVE  \E m, r : /\ m = db.earnings[i].miner /\ r = RoundOf(db.earnings[i])
                                  /\ OtherFresh(m, r)'
                                  /\ WrittenFresh(m, r, EarningsWritten(processor))'
      BY <1>1 DEF EarningsFresh, RoundOf
    <2>1. PICK m, r : m = db.earnings[i].miner /\ r = RoundOf(db.earnings[i])
      OBVIOUS
    <2>2. OtherFresh(m, r) /\ WrittenFresh(m, r, EarningsWritten(processor))
      BY <2>1 DEF Fresh, EarningsFresh
    <2> QED
      BY <1>2, <2>1, <2>2
  <1>4. ContributionsFresh'
    <2> SUFFICES ASSUME NEW i \in DOMAIN db.contributions
                 PROVE  \E m, r : /\ m = db.contributions[i].miner
                                  /\ r = RoundOf(db.contributions[i])
                                  /\ OtherFresh(m, r)'
                                  /\ WrittenFresh(m, r, ContributionsWritten(processor))'
      BY <1>1 DEF ContributionsFresh, RoundOf
    <2>1. PICK m, r : m = db.contributions[i].miner /\ r = RoundOf(db.contributions[i])
      OBVIOUS
    <2>2. OtherFresh(m, r) /\ WrittenFresh(m, r, ContributionsWritten(processor))
      BY <2>1 DEF Fresh, ContributionsFresh
    <2> QED
      BY <1>2, <2>1, <2>2
  <1>5. SettledOnce'
    BY <1>1 DEF Fresh, SettledOnce, RoundOf
  <1> QED
    BY <1>3, <1>4, <1>5 DEF Fresh

LEMMA FreshSame ==
  ASSUME Fresh, UNCHANGED vars
  PROVE  Fresh'
  <1>1. /\ db' = db /\ challenge' = challenge /\ attender' = attender
        /\ queue' = queue /\ processor' = processor
    BY DEF vars, tasks
  <1>2. EarningsFresh'
    BY <1>1 DEF Fresh, EarningsFresh, OtherFresh, WrittenFresh, Among, Contributions, RoundOf
  <1>3. ContributionsFresh'
    BY <1>1 DEF Fresh, ContributionsFresh, OtherFresh, WrittenFresh, Among, Contributions, RoundOf
  <1>4. SettledOnce'
    BY <1>1 DEF Fresh, SettledOnce, RoundOf
  <1> QED
    BY <1>2, <1>3, <1>4 DEF Fresh

LEMMA FreshInit ==
  ASSUME Init
  PROVE  Fresh
  <1>1. DOMAIN db.contributions = {} /\ DOMAIN db.earnings = {}
    BY DEF Init
  <1> QED
    BY <1>1 DEF Fresh, EarningsFresh, ContributionsFresh, SettledOnce

LEMMA FreshStep ==
  ASSUME Shape, Fresh, [Next]_vars
  PROVE  Fresh'
  <1>1. CASE CallStep
    <2>1. EarningsOnce' /\ ContributionsOnce'
      BY <1>1, EarningsOnceStep, ContributionsOnceStep
         DEF Fresh, SettledOnce, EarningsOnce, ContributionsOnce
    <2>2. SettledOnce'
      BY <2>1 DEF SettledOnce, EarningsOnce, ContributionsOnce
    <2>3. EarningsFresh' /\ ContributionsFresh'
      BY <1>1, EarningsFreshStep, ContributionsFreshStep DEF Fresh
    <2> QED
      BY <2>2, <2>3 DEF Fresh
  <1>2. CASE UNCHANGED vars
    BY <1>2, FreshSame
  <1>3. CASE Step /\ ~CallStep
    BY <1>3, FreshQuiet DEF Step
  <1> QED
    BY <1>1, <1>2, <1>3, StepIs DEF Shape

(* No round is settled twice for a miner: two rows of earnings, or of          *)
(* contributions, of the same miner are of different rounds, in spite of       *)
(* repeated batches, lost answers, crashes and duplicate challenges.           *)
THEOREM SettledOnceCorrect == Spec => []SettledOnce
  <1>1. Init => Shape /\ Fresh
    BY ShapeInit, FreshInit
  <1>2. Shape /\ Fresh /\ [Next]_vars => (Shape /\ Fresh)'
    BY ShapeStep, FreshStep
  <1>3. Shape /\ Fresh => SettledOnce
    BY DEF Fresh
  <1> QED
    BY <1>1, <1>2, <1>3, PTL DEF Spec

-----------------------------------------------------------------------------
(* Balances                                                                *)

(* What rows amount to, when they are continued. *)
RowsContinued(rows, s, n, t, b) ==
  /\ DOMAIN s = 1..n /\ Len(s) = n /\ DOMAIN t = 1..b /\ Len(t) = b
  /\ DOMAIN rows = 1..(n + b) /\ Len(rows) = n + b
  /\ \A i \in 1..n : rows[i] = s[i] /\ s[i].amount \in Nat
  /\ \A k \in 1..b : rows[n + k] = t[k] /\ t[k].amount \in Nat

(* What is paid by rows and by rows added to them. *)
LEMMA PaidContinued ==
  ASSUME NEW m, NEW n \in Nat, NEW b \in Nat, NEW s, NEW t, NEW rows,
         RowsContinued(rows, s, n, t, b)
  PROVE  PaidTo(m, rows) = PaidTo(m, s) + PaidTo(m, t)
  <1> USE DEF RowsContinued
  <1> DEFINE f == [k \in DOMAIN s |-> IF s[k].miner = m THEN s[k].amount ELSE 0]
             g == [k \in DOMAIN t |-> IF t[k].miner = m THEN t[k].amount ELSE 0]
             h == [k \in DOMAIN rows |-> IF rows[k].miner = m THEN rows[k].amount ELSE 0]
  <1>1. 1..n \subseteq 1..(n + b) /\ \A k \in 1..b : n + k \in 1..(n + b)
    OBVIOUS
  <1>2. \A i \in 1..n : h[i] = f[i]
    BY <1>1
  <1>3. \A k \in 1..b : h[n + k] = g[k]
    BY <1>1
  <1>4. Numbers(f, n) /\ Numbers(g, b)
    BY DEF Numbers
  <1> HIDE DEF f, g, h
  <1>5. SumTo(h, n + b) = SumTo(f, n) + SumTo(g, b)
    <2>1. Continued(h, f, n, g, b)
      BY <1>2, <1>3, <1>4 DEF Continued
    <2> QED
      BY <2>1, SumContinued
  <1> QED
    BY <1>5 DEF PaidTo, f, g, h

(* The shares of the contributions, and what the first of them amount to. *)
LEMMA SharesAre ==
  ASSUME Shape, processor.pc # "idle"
  PROVE  /\ DOMAIN Shares = 1..Len(Contributions) /\ Len(Contributions) \in Nat
         /\ \A k \in 1..Len(Contributions) :
              /\ Shares[k].miner = Contributions[k].miner
              /\ Shares[k].amount = Share(Contributions[k])
              /\ Shares[k].amount \in Nat
  <1>1. PICK n \in Nat : n = Len(Contributions)
    BY ContributionsTyped
  <1>2. DOMAIN Contributions = 1..n
    BY <1>1, ContributionsTyped
  <1>3. \A k \in 1..n : Share(Contributions[k]) \in Nat
    BY <1>1, ShareTyped
  <1> QED
    BY <1>1, <1>2, <1>3 DEF Shares

(* What the first rows pay grows with their number. *)
LEMMA PaidFirstGrows ==
  ASSUME Shape, processor.pc # "idle", NEW m, NEW k \in Nat, NEW l \in Nat, k <= l,
         l <= Len(Contributions)
  PROVE  /\ PaidFirst(m, Shares, k) \in Nat /\ PaidFirst(m, Shares, l) \in Nat
         /\ PaidFirst(m, Shares, k) <= PaidFirst(m, Shares, l)
  <1> DEFINE f == [i \in DOMAIN Shares |-> IF Shares[i].miner = m THEN Shares[i].amount ELSE 0]
  <1>1. PICK n \in Nat : n = Len(Contributions)
    BY ContributionsTyped
  <1>2. \A i \in 1..n : f[i] \in Nat
    BY <1>1, SharesAre
  <1> HIDE DEF f
  <1>3. \A i \in 1..l : f[i] \in Nat
    BY <1>1, <1>2
  <1>4. \A i \in 1..k : f[i] \in Nat
    BY <1>3
  <1>5. SumTo(f, k) \in Nat /\ SumTo(f, l) \in Nat /\ SumTo(f, k) <= SumTo(f, l)
    BY <1>3, <1>4, SumOfNaturals, SumPrefix
  <1> QED
    BY <1>5 DEF PaidFirst, f

(* A batch of earnings, or of updates, amounts to its shares. *)
LEMMA BatchShares ==
  ASSUME Shape, processor.pc # "idle", Unwritten, NEW m
  PROVE  /\ PaidTo(m, Batch(Earning)) \in Nat
         /\ PaidTo(m, Batch(Reward)) = PaidTo(m, Batch(Earning))
         /\ PaidFirst(m, Shares, BatchEnd)
              = PaidFirst(m, Shares, processor.done) + PaidTo(m, Batch(Earning))
  <1>1. PICK b \in Nat : b = BatchLen
    BY BatchIs DEF Shape
  <1>2. PICK done \in Nat : done = processor.done
    BY BatchIs DEF Shape
  <1>3. PICK n \in Nat : n = Len(Contributions)
    BY ContributionsTyped
  <1>4. done + b = BatchEnd /\ done + b <= n
    BY <1>1, <1>2, <1>3, BatchIs DEF Shape
  <1>5. PICK earnings, updates : earnings = Batch(Earning) /\ updates = Batch(Reward)
    OBVIOUS
  <1>6. /\ earnings = [k \in 1..b |-> Earning(Contributions[done + k])]
        /\ updates = [k \in 1..b |-> Reward(Contributions[done + k])]
    BY <1>1, <1>2, <1>5, BatchIs DEF Shape
  <1>7. DOMAIN earnings = 1..b /\ Len(earnings) = b /\ DOMAIN updates = 1..b /\ Len(updates) = b
    BY <1>6
  <1> DEFINE f == [k \in DOMAIN Shares |-> IF Shares[k].miner = m THEN Shares[k].amount ELSE 0]
             g == [k \in DOMAIN earnings |-> IF earnings[k].miner = m THEN earnings[k].amount ELSE 0]
             h == [k \in DOMAIN updates |-> IF updates[k].miner = m THEN updates[k].amount ELSE 0]
  <1>8. \A k \in 1..b : done + k \in 1..n
    BY <1>4
  <1>9. \A k \in 1..b : /\ earnings[k].miner = Contributions[done + k].miner
                        /\ earnings[k].amount = Share(Contributions[done + k])
                        /\ updates[k].miner = Contributions[done + k].miner
                        /\ updates[k].amount = Share(Contributions[done + k])
    BY <1>6 DEF Earning, Reward
  <1>10. /\ DOMAIN Shares = 1..n
         /\ \A k \in 1..n : /\ Shares[k].miner = Contributions[k].miner
                            /\ Shares[k].amount = Share(Contributions[k])
                            /\ Shares[k].amount \in Nat
    BY <1>3, SharesAre
  <1>11. \A k \in 1..b : g[k] = f[done + k] /\ h[k] = g[k] /\ g[k] \in Nat
    BY <1>7, <1>8, <1>9, <1>10
  <1>12. \A k \in 1..n : f[k] \in Nat
    BY <1>10
  <1>13. /\ SumTo(g, b) = PaidTo(m, earnings) /\ SumTo(h, b) = PaidTo(m, updates)
         /\ SumTo(f, done) = PaidFirst(m, Shares, done)
         /\ SumTo(f, done + b) = PaidFirst(m, Shares, done + b)
    BY <1>7 DEF PaidTo, PaidFirst
  <1> HIDE DEF f, g, h
  <1>14. SumTo(g, b) \in Nat
    BY <1>11, SumOfNaturals
  <1>15. SumTo(h, b) = SumTo(g, b)
    BY <1>11, SumSame
  <1>16. SumTo(f, done + b) = SumTo(f, done) + SumTo(g, b)
    <2>1. \A k \in 1..done : f[k] \in Int
      BY <1>4, <1>12
    <2>2. Numbers(f, done) /\ Numbers(g, b)
      BY <1>11, <2>1 DEF Numbers
    <2>3. \A k \in 1..b : f[done + k] = g[k]
      BY <1>11
    <2>4. Continued(f, f, done, g, b)
      BY <2>2, <2>3 DEF Continued
    <2> QED
      BY <2>4, SumContinued
  <1> QED
    BY <1>2, <1>4, <1>5, <1>13, <1>14, <1>15, <1>16

(* What is owed to a miner is not negative, and nothing when nobody settles. *)
LEMMA DueNat ==
  ASSUME Shape, NEW m
  PROVE  /\ CommissionDue(m) \in Nat /\ ShareDue(m) \in Nat
         /\ processor.pc = "idle" => ShareDue(m) = 0
  <1>1. CommissionDue(m) \in Nat
    <2>1. CASE attender.pc = "credit"
      BY <2>1, CommissionTyped DEF CommissionDue, WithRecord
    <2>2. CASE attender.pc # "credit"
      BY <2>2 DEF CommissionDue
    <2> QED
      BY <2>1, <2>2
  <1>2. CASE processor.pc = "idle"
    <2>1. processor = NoProcessor
      BY <1>2 DEF Shape, ProcessorShape
    <2>2. EarningsWritten(processor) = 0 /\ RewardsWritten(processor) = 0
      BY <2>1 DEF EarningsWritten, RewardsWritten, NoProcessor, NoMessage, NoResult
    <2>3. PaidFirst(m, Shares, 0) = 0
      BY SumZero DEF PaidFirst
    <2> QED
      BY <1>1, <2>2, <2>3 DEF ShareDue
  <1>3. CASE processor.pc # "idle"
    <2>1. PICK k, l \in Nat : k = RewardsWritten(processor) /\ l = EarningsWritten(processor)
      BY <1>3, WrittenNat, ContributionsTyped
    <2>2. k <= l /\ l <= Len(Contributions)
      BY <1>3, <2>1, WrittenNat, ContributionsTyped
    <2>3. /\ PaidFirst(m, Shares, k) \in Nat /\ PaidFirst(m, Shares, l) \in Nat
          /\ PaidFirst(m, Shares, k) <= PaidFirst(m, Shares, l)
      BY <1>3, <2>2, PaidFirstGrows
    <2> QED
      BY <1>1, <1>3, <2>1, <2>3 DEF ShareDue
  <1> QED
    BY <1>2, <1>3

(* What is owed stays, where nothing is earned and nothing is paid. *)
LEMMA SharesStay ==
  ASSUME Shape, NEW m, processor.pc # "idle", processor'.msg = processor.msg,
         EarningsWritten(processor') = EarningsWritten(processor),
         RewardsWritten(processor') = RewardsWritten(processor)
  PROVE  ShareDue(m)' = ShareDue(m)
  <1>1. Shares' = Shares
    BY DEF Shares, Contributions, Share
  <1> QED
    BY <1>1 DEF ShareDue

(* What is due to a miner depends on the processor only. *)
LEMMA DueKept ==
  ASSUME processor' = processor, NEW m
  PROVE  ShareDue(m)' = ShareDue(m)
  <1>1. Shares' = Shares
    BY DEF Shares, Contributions, Share
  <1> QED
    BY <1>1 DEF ShareDue

(* Nothing is due from no message. *)
LEMMA NothingDue ==
  ASSUME processor' = NoProcessor, NEW m
  PROVE  ShareDue(m)' = 0
  <1>1. EarningsWritten(processor') = 0 /\ RewardsWritten(processor') = 0
    BY DEF EarningsWritten, RewardsWritten, NoProcessor, NoMessage, NoResult
  <1>2. PICK shares : shares = Shares'
    OBVIOUS
  <1>3. PaidFirst(m, shares, 0) = 0
    BY SumZero DEF PaidFirst
  <1> QED
    BY <1>1, <1>2, <1>3 DEF ShareDue

CommissionCredited ==
  /\ attender.pc = "credit"
  /\ db' = WithBalances(CommissionUpdate) /\ (AttenderIs(At("send")) \/ Die)
BatchPaid ==
  /\ processor.pc = "rewards" /\ Unwritten
  /\ db' = WithBalances(Batch(Reward)) /\ (ProcessorIs(NextBatch) \/ Die)

(* Who adds to the balances. *)
LEMMA BalancesChange ==
  ASSUME Shape, CallStep
  PROVE  db'.rewards = db.rewards \/ CommissionCredited \/ BatchPaid
  <1>1. CASE db' = db
    BY <1>1
  <1>2. db \in Database /\ RowsAreOfChallenges
    BY DEF Shape, TypeOK
  <1>3. ASSUME NEW c, Grown(c)
        PROVE  db'.rewards = db.rewards
    BY <1>2, <1>3, DatabaseFacts DEF Grown, WithChallenge
  <1>4. CASE CommissionStep
    BY <1>1, <1>2, <1>4, DatabaseFacts DEF CommissionStep, Attended, WithEarnings
  <1>5. CASE CreditStep
    BY <1>1, <1>5 DEF CreditStep, Attended, CommissionCredited
  <1>6. CASE EarningsStep
    BY <1>1, <1>2, <1>6, DatabaseFacts DEF EarningsStep, Processed, WithEarnings
  <1>7. CASE RewardsStep
    BY <1>1, <1>7 DEF RewardsStep, Processed, BatchPaid
  <1>8. CASE ContributionsStep
    BY <1>1, <1>2, <1>8, DatabaseFacts DEF ContributionsStep, Processed, WithContributions
  <1>9. CASE PoolStep
    BY <1>1, <1>2, <1>9, DatabaseFacts DEF PoolStep, WithTotal
  <1>10. CASE ChallengeStep
    BY <1>1, <1>2, <1>10, DatabaseFacts DEF ChallengeStep, WithWinner
  <1> QED
    BY <1>1, <1>3, <1>4, <1>5, <1>6, <1>7, <1>8, <1>9, <1>10
       DEF CallStep, SearchStep, FoundStep, LatestStep, WinnerStep, CrashStep, StartStep

(* What is due, when no balance changes. *)
LEMMA DuesStay ==
  ASSUME Shape, CallStep, ~Die, NEW m,
         ~CommissionEarned, ~CommissionCredited, ~BatchEarned, ~BatchPaid
  PROVE  CommissionDue(m)' = CommissionDue(m) /\ ShareDue(m)' = ShareDue(m)
  <1>1. attender \in AttenderStates /\ processor \in ProcessorStates
    BY DEF Shape, TypeOK, AttenderStates, ProcessorStates
  <1>2. ASSUME attender' = attender
        PROVE  CommissionDue(m)' = CommissionDue(m)
    BY <1>2 DEF CommissionDue
  <1>3. ASSUME processor' = processor
        PROVE  ShareDue(m)' = ShareDue(m)
    BY <1>3, DueKept
  <1>4. CASE SearchStep
    <2>1. PICK pc \in Searching : AttenderIs(At(pc))
      BY <1>4 DEF SearchStep
    <2> QED
      BY <1>1, <1>3, <1>4, <2>1
         DEF SearchStep, Searching, AttenderIs, At, AttenderStates, CommissionDue
  <1>5. CASE FoundStep
    <2>1. PICK id : AttenderIs([attender EXCEPT !.pc = "latest", !.id = id])
      BY <1>5 DEF FoundStep
    <2> QED
      BY <1>1, <1>3, <1>5, <2>1 DEF FoundStep, Searching, AttenderIs, AttenderStates, CommissionDue
  <1>6. CASE LatestStep
    <2>1. PICK pc \in {"latest", "checkLatest", "commission"} : AttenderIs(At(pc))
      BY <1>6 DEF LatestStep
    <2> QED
      BY <1>1, <1>3, <1>6, <2>1 DEF LatestStep, AttenderIs, At, AttenderStates, CommissionDue
  <1>7. CASE CommissionStep
    BY <1>2, <1>3, <1>7 DEF CommissionStep, Attended, AttenderIs, CommissionEarned
  <1>8. CASE CreditStep
    BY <1>2, <1>3, <1>8 DEF CreditStep, Attended, AttenderIs, CommissionCredited
  <1>9. CASE EarningsStep
    BY <1>2, <1>3, <1>9 DEF EarningsStep, Processed, ProcessorIs, BatchEarned
  <1>10. CASE RewardsStep
    BY <1>2, <1>3, <1>10 DEF RewardsStep, Processed, ProcessorIs, BatchPaid
  <1>11. CASE ContributionsStep
    <2>1. attender' = attender /\ processor' \in {processor, NextBatch}
          /\ processor.pc = "contributions" /\ Unwritten
      BY <1>11 DEF ContributionsStep, Processed, ProcessorIs
    <2>2. NextBatch.pc = "contributions" /\ NextBatch.msg = processor.msg
      BY <2>1, BatchWritten DEF AfterTable
    <2>3. processor' = NextBatch => ShareDue(m)' = ShareDue(m)
      BY <2>1, <2>2, SharesStay DEF EarningsWritten, RewardsWritten
    <2> QED
      BY <1>2, <1>3, <2>1, <2>3
  <1>12. CASE PoolStep
    <2>1. attender' = attender /\ processor' \in {processor, [processor EXCEPT !.pc = "winner"]}
          /\ processor.pc = "pool"
      BY <1>12 DEF PoolStep, ProcessorIs
    <2>2. processor' # processor => processor'.pc = "winner" /\ processor'.msg = processor.msg
      BY <1>1, <2>1 DEF ProcessorStates
    <2>3. processor' # processor => ShareDue(m)' = ShareDue(m)
      BY <2>1, <2>2, SharesStay DEF EarningsWritten, RewardsWritten
    <2> QED
      BY <1>2, <1>3, <2>1, <2>3
  <1>13. ASSUME processor.pc \in {"winner", "challenge"}, processor' = NoProcessor
         PROVE  ShareDue(m)' = ShareDue(m)
    <2>1. EarningsWritten(processor) = RewardsWritten(processor)
      BY <1>13 DEF EarningsWritten, RewardsWritten
    <2>2. PICK k \in Nat : k = EarningsWritten(processor)
      BY <1>13, WrittenNat, ContributionsTyped
    <2>3. PaidFirst(m, Shares, k) \in Nat
      BY <1>13, <2>2, WrittenNat, ContributionsTyped, PaidFirstGrows
    <2>4. ShareDue(m) = 0
      BY <2>1, <2>2, <2>3 DEF ShareDue
    <2> QED
      BY <1>13, <2>4, NothingDue
  <1>14. CASE WinnerStep
    <2>1. attender' = attender /\ processor.pc = "winner"
          /\ (processor' = NoProcessor
              \/ \E i : processor' = [processor EXCEPT !.pc = "challenge", !.contribution = i])
      BY <1>14 DEF WinnerStep, ProcessorIs
    <2>2. ASSUME NEW i, processor' = [processor EXCEPT !.pc = "challenge", !.contribution = i]
          PROVE  ShareDue(m)' = ShareDue(m)
      <3>1. processor'.pc = "challenge" /\ processor'.msg = processor.msg
        BY <1>1, <2>2 DEF ProcessorStates
      <3> QED
        BY <2>1, <3>1, SharesStay DEF EarningsWritten, RewardsWritten
    <2> QED
      BY <1>2, <1>13, <2>1, <2>2
  <1>15. CASE ChallengeStep
    BY <1>2, <1>13, <1>15 DEF ChallengeStep, ProcessorIs
  <1>16. CASE StartStep
    BY <1>2, <1>3, <1>16 DEF StartStep, tasks
  <1> QED
    BY <1>4, <1>5, <1>6, <1>7, <1>8, <1>9, <1>10, <1>11, <1>12, <1>14, <1>15, <1>16
       DEF CallStep, CrashStep

(* What is earned in all. *)
LEMMA EarnedNat ==
  ASSUME Shape, NEW m
  PROVE  Earned(m) \in Nat
  <1>1. /\ db.earnings \in Seq(EarningRow) /\ DOMAIN db.earnings = 1..Len(db.earnings)
        /\ \A i \in DOMAIN db.earnings : db.earnings[i] \in EarningRow
    BY DatabaseFacts DEF Shape, TypeOK
  <1>2. PICK n \in Nat : n = Len(db.earnings)
    BY <1>1
  <1>3. PICK rows : rows = db.earnings
    OBVIOUS
  <1>4. \A i \in 1..n : rows[i].amount \in Nat
    BY <1>1, <1>2, <1>3 DEF EarningRow
  <1>5. PaidTo(m, rows) \in Nat
    BY <1>1, <1>2, <1>3, <1>4, PaidNat
  <1> QED
    BY <1>3, <1>5 DEF Earned

(* What is earned after rows are added. *)
LEMMA EarnedMore ==
  ASSUME Shape, NEW m, NEW S, NEW t \in Seq([miner: Payees, challenge: S, amount: Nat]),
         db'.earnings = db.earnings \o t
  PROVE  Earned(m)' = Earned(m) + PaidTo(m, t)
  <1>1. PICK s \in Seq(EarningRow) : s = db.earnings
    BY DatabaseFacts DEF Shape, TypeOK
  <1>2. PICK n, b \in Nat : n = Len(s) /\ b = Len(t)
    OBVIOUS
  <1>3. PICK rows : rows = s \o t
    OBVIOUS
  <1>4. /\ DOMAIN s = 1..n /\ DOMAIN t = 1..b
        /\ DOMAIN rows = 1..(n + b) /\ Len(rows) = n + b
        /\ \A i \in 1..n : rows[i] = s[i]
        /\ \A k \in 1..b : rows[n + k] = t[k]
    BY <1>2, <1>3
  <1>5. /\ \A i \in 1..n : s[i].amount \in Nat
        /\ \A k \in 1..b : t[k].amount \in Nat
    <2>1. \A i \in 1..n : s[i] \in EarningRow
      BY <1>2, ElementOfSeq
    <2>2. \A k \in 1..b : t[k] \in [miner: Payees, challenge: S, amount: Nat]
      BY <1>2, ElementOfSeq
    <2> QED
      BY <2>1, <2>2 DEF EarningRow
  <1>6. PaidTo(m, rows) = PaidTo(m, s) + PaidTo(m, t)
    <2>1. RowsContinued(rows, s, n, t, b)
      BY <1>2, <1>4, <1>5 DEF RowsContinued
    <2> QED
      BY <2>1, PaidContinued
  <1> QED
    BY <1>1, <1>3, <1>6 DEF Earned

(* What the commission amounts to for a miner. *)
LEMMA CommissionPaid ==
  ASSUME Shape, attender.pc \in WithRecord, NEW m
  PROVE  /\ PaidTo(m, Commission)
              = IF m = Receiver THEN commissions(attender.result.rewards) ELSE 0
         /\ PaidTo(m, CommissionUpdate)
              = IF m = Receiver THEN commissions(attender.result.rewards) ELSE 0
  <1>1. PICK amount \in Nat : amount = commissions(attender.result.rewards)
    BY CommissionTyped
  <1>2. ASSUME NEW rows, DOMAIN rows = 1..1, Len(rows) = 1,
               rows[1].miner = Receiver, rows[1].amount = amount
        PROVE  PaidTo(m, rows) = IF m = Receiver THEN amount ELSE 0
    <2> DEFINE f == [k \in DOMAIN rows |-> IF rows[k].miner = m THEN rows[k].amount ELSE 0]
    <2>1. f[1] = IF m = Receiver THEN amount ELSE 0
      BY <1>2
    <2>2. PaidTo(m, rows) = SumTo(f, 1)
      BY <1>2 DEF PaidTo
    <2> HIDE DEF f
    <2>3. SumTo(f, 0 + 1) = SumTo(f, 0) + f[0 + 1] /\ SumTo(f, 0) = 0
      BY SumNext, SumZero
    <2> QED
      BY <2>1, <2>2, <2>3
  <1>3. /\ DOMAIN Commission = 1..1 /\ Len(Commission) = 1
        /\ Commission[1].miner = Receiver /\ Commission[1].amount = amount
    BY <1>1 DEF Commission
  <1>4. /\ DOMAIN CommissionUpdate = 1..1 /\ Len(CommissionUpdate) = 1
        /\ CommissionUpdate[1].miner = Receiver /\ CommissionUpdate[1].amount = amount
    BY <1>1 DEF CommissionUpdate
  <1> QED
    BY <1>1, <1>2, <1>3, <1>4

(* What is paid before a batch, after it and in the end. *)
LEMMA DonePaid ==
  ASSUME Shape, processor.pc # "idle", Unwritten, NEW m
  PROVE  /\ PaidFirst(m, Shares, processor.done) \in Nat
         /\ PaidFirst(m, Shares, BatchEnd) \in Nat
         /\ PaidFirst(m, Shares, Len(processor.msg.result.contributions)) \in Nat
         /\ PaidFirst(m, Shares, BatchEnd)
              <= PaidFirst(m, Shares, Len(processor.msg.result.contributions))
  <1>1. PICK n \in Nat : n = Len(Contributions)
    BY ContributionsTyped
  <1>2. n = Len(processor.msg.result.contributions)
    BY <1>1 DEF Contributions
  <1>3. PICK done \in Nat : done = processor.done
    BY BatchIs DEF Shape
  <1>4. PICK end \in Nat : end = BatchEnd
    BY BatchIs DEF Shape
  <1>5. done <= end /\ end <= n
    BY <1>1, <1>3, <1>4, BatchIs DEF Shape
  <1>6. PaidFirst(m, Shares, done) \in Nat /\ PaidFirst(m, Shares, end) \in Nat
    BY <1>1, <1>5, PaidFirstGrows
  <1>7. PaidFirst(m, Shares, n) \in Nat /\ PaidFirst(m, Shares, end) <= PaidFirst(m, Shares, n)
    BY <1>1, <1>5, PaidFirstGrows
  <1> QED
    BY <1>2, <1>3, <1>4, <1>6, <1>7

(* What a call earns a miner and what it pays: never more than was owed, and *)
(* what is earned and not paid is owed then.                                 *)
LEMMA Accounts ==
  ASSUME Shape, CallStep, NEW i \in DOMAIN db.rewards, NEW m, m = db.rewards[i].miner
  PROVE  \E earned, paid \in Nat :
           /\ Earned(m)' = Earned(m) + earned
           /\ DOMAIN db'.rewards = DOMAIN db.rewards /\ db'.rewards[i].miner = m
           /\ db'.rewards[i].balance = db.rewards[i].balance + paid
           /\ paid <= CommissionDue(m) + ShareDue(m)
           /\ ~Die => /\ CommissionDue(m)' \in Int /\ ShareDue(m)' \in Int
                      /\ CommissionDue(m)' + ShareDue(m)' + paid
                           = CommissionDue(m) + ShareDue(m) + earned
  <1>1. db \in Database /\ RowsAreOfChallenges
    BY DEF Shape, TypeOK
  <1>2. m \in Payees /\ db.rewards[i].balance \in Nat
    BY <1>1, DatabaseFacts DEF BalanceRow
  <1>3. CommissionDue(m) \in Nat /\ ShareDue(m) \in Nat /\ Earned(m) \in Nat
    BY DueNat, EarnedNat
  <1>4. /\ attender \in AttenderStates /\ processor \in ProcessorStates
    BY DEF Shape, TypeOK, AttenderStates, ProcessorStates
  <1>5. CASE CommissionEarned
    <2> DEFINE amount == PaidTo(m, Commission)
    <2>1. Commission \in Seq([miner: Payees, challenge: DOMAIN db.challenges, amount: Nat])
      BY <1>5, CommissionTyped DEF CommissionEarned, WithRecord
    <2>2. /\ db'.earnings = db.earnings \o Commission /\ db'.rewards = db.rewards
      BY <1>1, <1>5, <2>1, EarningsAdded DEF CommissionEarned
    <2>3. Earned(m)' = Earned(m) + amount
      BY <2>1, <2>2, EarnedMore
    <2>4. amount = IF m = Receiver THEN commissions(attender.result.rewards) ELSE 0
      BY <1>5, CommissionPaid DEF CommissionEarned, WithRecord
    <2>5. amount \in Nat
      BY <1>5, <2>4, CommissionTyped DEF CommissionEarned, WithRecord
    <2>6. ~Die => CommissionDue(m)' = amount /\ ShareDue(m)' = ShareDue(m)
      <3>1. ASSUME AttenderIs(At("credit"))
            PROVE  /\ attender'.pc = "credit" /\ attender'.result = attender.result
                   /\ processor' = processor
        BY <1>4, <3>1 DEF AttenderIs, At, AttenderStates
      <3>2. ASSUME AttenderIs(At("credit"))
            PROVE  ShareDue(m)' = ShareDue(m)
        <4>1. processor' = processor
          BY <3>1, <3>2
        <4> QED
          BY <4>1, DueKept
      <3> QED
        BY <1>5, <2>4, <3>1, <3>2 DEF CommissionEarned, CommissionDue
    <2>7. CommissionDue(m) = 0
      BY <1>5 DEF CommissionEarned, CommissionDue
    <2>8. db'.rewards[i].balance = db.rewards[i].balance + 0
      BY <1>2, <2>2
    <2> HIDE DEF amount
    <2> QED
      BY <1>3, <2>2, <2>3, <2>5, <2>6, <2>7, <2>8
  <1>6. CASE CommissionCredited
    <2> DEFINE amount == PaidTo(m, CommissionUpdate)
    <2>1. /\ db'.earnings = db.earnings /\ DOMAIN db'.rewards = DOMAIN db.rewards
          /\ db'.rewards[i].miner = m
          /\ db'.rewards[i].balance = db.rewards[i].balance + amount
      <3>1. \A p \in Payees : PaidTo(p, CommissionUpdate) \in Nat
        BY <1>6, CommissionTyped DEF CommissionCredited, WithRecord
      <3>2. PICK batch : batch = CommissionUpdate
        OBVIOUS
      <3>3. db' = WithBalances(batch) /\ \A p \in Payees : PaidTo(p, batch) \in Nat
        BY <1>6, <3>1, <3>2 DEF CommissionCredited
      <3> QED
        BY <1>1, <3>2, <3>3, BalancesAdded
    <2>2. amount = CommissionDue(m)
      BY <1>6, CommissionPaid DEF CommissionCredited, CommissionDue, WithRecord
    <2>3. Earned(m)' = Earned(m) + 0
      BY <1>3, <2>1 DEF Earned
    <2>4. ~Die => CommissionDue(m)' = 0 /\ ShareDue(m)' = ShareDue(m)
      <3>1. ASSUME AttenderIs(At("send"))
            PROVE  attender'.pc = "send" /\ processor' = processor
        BY <1>4, <3>1 DEF AttenderIs, At, AttenderStates
      <3>2. ASSUME AttenderIs(At("send"))
            PROVE  ShareDue(m)' = ShareDue(m)
        <4>1. processor' = processor
          BY <3>1, <3>2
        <4> QED
          BY <4>1, DueKept
      <3> QED
        BY <1>6, <3>1, <3>2 DEF CommissionCredited, CommissionDue
    <2> HIDE DEF amount
    <2> QED
      BY <1>3, <2>1, <2>2, <2>3, <2>4
  <1>7. CASE BatchEarned
    <2> DEFINE amount == PaidTo(m, Batch(Earning))
    <2>1. processor.pc = "earnings" /\ processor.pc # "idle" /\ Unwritten
      BY <1>7 DEF BatchEarned
    <2>2. Batch(Earning) \in Seq([miner: Payees, challenge: DOMAIN db.challenges, amount: Nat])
      BY <2>1, BatchTyped
    <2>3. db'.earnings = db.earnings \o Batch(Earning) /\ db'.rewards = db.rewards
      BY <1>1, <1>7, <2>2, EarningsAdded DEF BatchEarned
    <2>4. Earned(m)' = Earned(m) + amount
      BY <2>2, <2>3, EarnedMore
    <2>5. /\ amount \in Nat
          /\ PaidFirst(m, Shares, BatchEnd) = PaidFirst(m, Shares, processor.done) + amount
      BY <2>1, BatchShares
    <2>6. /\ NextBatch.pc = "earnings" /\ NextBatch.msg = processor.msg
          /\ Upto(processor) = processor.done /\ Upto(NextBatch) = BatchEnd
      BY <2>1, BatchWritten DEF AfterTable
    <2>7. ShareDue(m) = PaidFirst(m, Shares, processor.done) - PaidFirst(m, Shares, 0)
      BY <2>1, <2>6 DEF ShareDue, EarningsWritten, RewardsWritten
    <2>8. ASSUME ProcessorIs(NextBatch)
          PROVE  /\ CommissionDue(m)' = CommissionDue(m)
                 /\ ShareDue(m)' = PaidFirst(m, Shares, BatchEnd) - PaidFirst(m, Shares, 0)
      <3>1. attender' = attender /\ processor' = NextBatch
        BY <2>8 DEF ProcessorIs
      <3>2. Shares' = Shares
        BY <2>6, <3>1 DEF Shares, Contributions, Share
      <3> QED
        BY <2>6, <3>1, <3>2 DEF ShareDue, CommissionDue, EarningsWritten, RewardsWritten
    <2>9. PaidFirst(m, Shares, 0) = 0
      BY SumZero DEF PaidFirst
    <2>10. PICK before, after \in Int : /\ before = PaidFirst(m, Shares, processor.done)
                                       /\ after = PaidFirst(m, Shares, BatchEnd)
      BY <2>1, DonePaid
    <2>11. ~Die => /\ CommissionDue(m)' = CommissionDue(m)
                   /\ ShareDue(m)' = ShareDue(m) + amount
      BY <1>7, <2>5, <2>7, <2>8, <2>9, <2>10 DEF BatchEarned
    <2>12. db'.rewards[i].balance = db.rewards[i].balance + 0
      BY <1>2, <2>3
    <2> HIDE DEF amount
    <2> QED
      BY <1>3, <2>3, <2>4, <2>5, <2>11, <2>12
  <1>8. CASE BatchPaid
    <2> DEFINE amount == PaidTo(m, Batch(Reward))
    <2>1. processor.pc = "rewards" /\ processor.pc # "idle" /\ Unwritten
      BY <1>8 DEF BatchPaid
    <2>2. /\ db'.earnings = db.earnings /\ DOMAIN db'.rewards = DOMAIN db.rewards
          /\ db'.rewards[i].miner = m
          /\ db'.rewards[i].balance = db.rewards[i].balance + amount
      <3>1. PICK batch : batch = Batch(Reward)
        OBVIOUS
      <3>2. db' = WithBalances(batch) /\ \A p \in Payees : PaidTo(p, batch) \in Nat
        BY <1>8, <2>1, <3>1, BatchTyped DEF BatchPaid
      <3> QED
        BY <1>1, <3>1, <3>2, BalancesAdded
    <2>3. Earned(m)' = Earned(m) + 0
      BY <1>3, <2>2 DEF Earned
    <2>4. /\ amount \in Nat
          /\ PaidFirst(m, Shares, BatchEnd) = PaidFirst(m, Shares, processor.done) + amount
      BY <2>1, BatchShares
    <2>5. /\ NextBatch.pc = "rewards" /\ NextBatch.msg = processor.msg
          /\ Upto(processor) = processor.done /\ Upto(NextBatch) = BatchEnd
      BY <2>1, BatchWritten DEF AfterTable
    <2> DEFINE all == PaidFirst(m, Shares, Len(processor.msg.result.contributions))
    <2>6. ShareDue(m) = all - PaidFirst(m, Shares, processor.done)
      BY <2>1, <2>5 DEF ShareDue, EarningsWritten, RewardsWritten
    <2>7. ASSUME ProcessorIs(NextBatch)
          PROVE  /\ CommissionDue(m)' = CommissionDue(m)
                 /\ ShareDue(m)' = all - PaidFirst(m, Shares, BatchEnd)
      <3>1. attender' = attender /\ processor' = NextBatch
        BY <2>7 DEF ProcessorIs
      <3>2. Shares' = Shares
        BY <2>5, <3>1 DEF Shares, Contributions, Share
      <3> QED
        BY <2>5, <3>1, <3>2 DEF ShareDue, CommissionDue, EarningsWritten, RewardsWritten
    <2>8. /\ PaidFirst(m, Shares, processor.done) \in Nat
          /\ PaidFirst(m, Shares, BatchEnd) \in Nat
          /\ all \in Nat /\ PaidFirst(m, Shares, BatchEnd) <= all
      BY <2>1, DonePaid
    <2>9. PICK before, after, whole \in Nat :
            /\ before = PaidFirst(m, Shares, processor.done)
            /\ after = PaidFirst(m, Shares, BatchEnd) /\ whole = all
      BY <2>8
    <2> HIDE DEF amount, all
    <2>10. after = before + amount /\ ShareDue(m) = whole - before /\ after <= whole
      BY <2>4, <2>6, <2>8, <2>9
    <2>11. ~Die => /\ CommissionDue(m)' = CommissionDue(m)
                   /\ ShareDue(m)' = whole - after
      BY <1>8, <2>7, <2>9 DEF BatchPaid
    <2>12. /\ amount <= CommissionDue(m) + ShareDue(m)
           /\ ~Die => /\ CommissionDue(m)' \in Int /\ ShareDue(m)' \in Int
                      /\ CommissionDue(m)' + ShareDue(m)' + amount
                           = CommissionDue(m) + ShareDue(m) + 0
      BY <1>3, <2>4, <2>10, <2>11
    <2> QED
      BY <2>2, <2>3, <2>4, <2>12
  <1>9. CASE ~CommissionEarned /\ ~CommissionCredited /\ ~BatchEarned /\ ~BatchPaid
    <2>1. db'.earnings = db.earnings /\ db'.rewards = db.rewards
      BY <1>9, TablesChange, BalancesChange
    <2>2. Earned(m)' = Earned(m) + 0 /\ db'.rewards[i].balance = db.rewards[i].balance + 0
      BY <1>2, <1>3, <2>1 DEF Earned
    <2>3. ~Die => CommissionDue(m)' = CommissionDue(m) /\ ShareDue(m)' = ShareDue(m)
      BY <1>9, DuesStay
    <2> QED
      BY <1>3, <2>1, <2>2, <2>3
  <1> QED
    BY <1>5, <1>6, <1>7, <1>8, <1>9

(* No balance is added or removed by a call. *)
LEMMA SameBalances ==
  ASSUME Shape, CallStep
  PROVE  DOMAIN db'.rewards = DOMAIN db.rewards
  <1>1. db \in Database /\ RowsAreOfChallenges
    BY DEF Shape, TypeOK
  <1>2. ASSUME NEW batch, db' = WithBalances(batch)
        PROVE  DOMAIN db'.rewards = DOMAIN db.rewards
    BY <1>1, <1>2, DatabaseFacts DEF WithBalances
  <1> QED
    BY <1>2, BalancesChange DEF CommissionCredited, BatchPaid

(* A call moves what is due to the balance, or adds to both sides. *)
LEMMA OwedCall ==
  ASSUME Shape, Owed, CallStep
  PROVE  Owed'
  <1>1. ASSUME NEW i \in DOMAIN db.rewards, NEW m, m = db.rewards[i].miner
        PROVE  /\ DOMAIN db'.rewards = DOMAIN db.rewards /\ db'.rewards[i].miner = m
               /\ db'.rewards[i].balance + CommissionDue(m)' + ShareDue(m)' <= Earned(m)'
               /\ ~crashed' => db'.rewards[i].balance + CommissionDue(m)' + ShareDue(m)' = Earned(m)'
    <2>1. /\ db.rewards[i].balance \in Nat /\ CommissionDue(m) \in Nat /\ ShareDue(m) \in Nat
          /\ Earned(m) \in Nat
      BY DatabaseFacts, DueNat, EarnedNat DEF Shape, TypeOK, BalanceRow
    <2>2. PICK balance, due, total \in Nat :
            /\ balance = db.rewards[i].balance
            /\ due = CommissionDue(m) + ShareDue(m) /\ total = Earned(m)
      BY <2>1
    <2>3. balance + due <= total /\ (~crashed => balance + due = total)
      BY <1>1, <2>1, <2>2 DEF Owed
    <2>4. PICK earned, paid \in Nat :
            /\ Earned(m)' = Earned(m) + earned
            /\ DOMAIN db'.rewards = DOMAIN db.rewards /\ db'.rewards[i].miner = m
            /\ db'.rewards[i].balance = db.rewards[i].balance + paid
            /\ paid <= CommissionDue(m) + ShareDue(m)
            /\ ~Die => /\ CommissionDue(m)' \in Int /\ ShareDue(m)' \in Int
                       /\ CommissionDue(m)' + ShareDue(m)' + paid
                            = CommissionDue(m) + ShareDue(m) + earned
      BY <1>1, Accounts
    <2>5. CASE Die
      <3>1. CommissionDue(m)' = 0 /\ ShareDue(m)' = 0 /\ crashed'
        BY <2>5, NothingDue DEF Die, CommissionDue, NoAttender
      <3> QED
        BY <2>2, <2>3, <2>4, <3>1
    <2>6. CASE ~Die
      <3>1. crashed' = crashed
        BY <2>6, QueueCalls
      <3>2. PICK commission, share \in Int :
              commission = CommissionDue(m)' /\ share = ShareDue(m)'
        BY <2>4, <2>6
      <3> QED
        BY <2>2, <2>3, <2>4, <2>6, <3>1, <3>2
    <2> QED
      BY <2>5, <2>6
  <1>2. DOMAIN db'.rewards = DOMAIN db.rewards
    BY SameBalances
  <1>3. ASSUME NEW i \in DOMAIN db'.rewards
        PROVE  \E m : /\ m = db'.rewards[i].miner
                      /\ db'.rewards[i].balance + CommissionDue(m)' + ShareDue(m)' <= Earned(m)'
                      /\ ~crashed' =>
                           db'.rewards[i].balance + CommissionDue(m)' + ShareDue(m)' = Earned(m)'
    <2>1. PICK m : m = db.rewards[i].miner
      OBVIOUS
    <2> QED
      BY <1>1, <1>2, <2>1
  <1> QED
    BY <1>3 DEF Owed

(* The steps that call nothing change no dues. *)
LEMMA OwedQuiet ==
  ASSUME Shape, Owed, \/ \E result \in RoundResults : Land(result)
                      \/ LandUnattended \/ SendMineSuccess \/ Receive \/ NextTable
  PROVE  Owed'
  <1>1. db' = db /\ crashed' = crashed
    BY QuietSame
  <1>2. ASSUME NEW m
        PROVE  CommissionDue(m)' = CommissionDue(m)
    <2>1. CASE \E result \in RoundResults : Land(result)
      BY <2>1 DEF Land, CommissionDue
    <2>2. CASE SendMineSuccess
      BY <2>2 DEF SendMineSuccess, NoAttender, CommissionDue
    <2>3. CASE attender' = attender
      BY <2>3 DEF CommissionDue
    <2> QED
      BY <2>1, <2>2, <2>3 DEF LandUnattended, Receive, NextTable, tasks
  <1>3. ASSUME NEW m
        PROVE  ShareDue(m)' = ShareDue(m)
    <2>1. CASE processor' = processor
      BY <2>1, DueKept
    <2>2. CASE Receive
      <3> DEFINE next == [NoProcessor EXCEPT !.pc = "earnings", !.msg = Head(queue)]
      <3>1. processor.pc = "idle" /\ processor' = next /\ next.pc = "earnings" /\ next.done = 0
        BY <2>2 DEF Receive, NoProcessor
      <3>2. EarningsWritten(processor') = 0 /\ RewardsWritten(processor') = 0
        <4>1. Shape'
          BY <2>2, QuietShape
        <4>2. Upto(processor') = 0
          <5>1. processor'.msg.result \in RoundResults
            BY <3>1, <4>1 DEF Shape, ProcessorShape, IsRound
          <5>2. PICK result \in RoundResults : result = processor'.msg.result
            BY <5>1
          <5>3. Len(result.contributions) \in Nat
            BY ResultsAssumption DEF RoundResult
          <5> QED
            BY <3>1, <5>2, <5>3 DEF Upto
        <4> QED
          BY <3>1, <4>2 DEF EarningsWritten, RewardsWritten
      <3>3. PICK shares : shares = Shares'
        OBVIOUS
      <3>4. PaidFirst(m, shares, 0) = 0
        BY SumZero DEF PaidFirst
      <3>5. ShareDue(m)' = 0
        BY <3>2, <3>3, <3>4 DEF ShareDue
      <3> QED
        BY <3>1, <3>5, DueNat
    <2>3. CASE NextTable
      BY <2>3, TurnWritten, SharesStay
    <2> QED
      BY <2>1, <2>2, <2>3 DEF Land, LandUnattended, SendMineSuccess, tasks
  <1> QED
    BY <1>1, <1>2, <1>3 DEF Owed, Earned

LEMMA OwedSame ==
  ASSUME Owed, UNCHANGED vars
  PROVE  Owed'
  <1>1. db' = db /\ crashed' = crashed /\ attender' = attender /\ processor' = processor
    BY DEF vars, tasks
  <1>2. ASSUME NEW m
        PROVE  CommissionDue(m)' = CommissionDue(m) /\ ShareDue(m)' = ShareDue(m)
    BY <1>1, DueKept DEF CommissionDue
  <1> QED
    BY <1>1, <1>2 DEF Owed, Earned

LEMMA OwedInit ==
  ASSUME Init
  PROVE  Owed
  <1>1. Shape
    BY ShapeInit
  <1>2. /\ db.earnings = <<>>
        /\ db.rewards = SetToSeq({[miner |-> m, balance |-> 0] : m \in Enrolled \cup {Receiver}})
        /\ attender.pc = "idle" /\ processor.pc = "idle"
    BY DEF Init, NoAttender, NoProcessor
  <1>3. \A i \in DOMAIN db.rewards : db.rewards[i].balance = 0
    <2>1. PICK rows \in Seq(NoBalances) : rows = db.rewards
      BY <1>2, NoBalancesListed DEF NoBalances
    <2>2. \A i \in DOMAIN rows : rows[i] \in NoBalances
      BY ElementOfSeq
    <2> QED
      BY <2>1, <2>2 DEF NoBalances
  <1>4. ASSUME NEW m
        PROVE  CommissionDue(m) = 0 /\ ShareDue(m) = 0 /\ Earned(m) = 0
    <2>1. CommissionDue(m) = 0 /\ ShareDue(m) = 0
      BY <1>1, <1>2, DueNat DEF CommissionDue
    <2>2. PaidTo(m, <<>>) = 0
      BY SumZero DEF PaidTo
    <2> QED
      BY <1>2, <2>1, <2>2 DEF Earned
  <1> QED
    BY <1>3, <1>4 DEF Owed

LEMMA OwedStep ==
  ASSUME Shape, Owed, [Next]_vars
  PROVE  Owed'
  <1>1. CASE UNCHANGED vars
    BY <1>1, OwedSame
  <1>2. CASE Next
    BY <1>2, StepIs, OwedCall, OwedQuiet DEF Step, Shape
  <1> QED
    BY <1>1, <1>2

(* A balance never runs ahead of the earnings that explain it: a process that *)
(* dies between the two tables leaves earnings without balance, never a       *)
(* balance without earnings.                                                  *)
THEOREM BalancesCorrect == Spec => []BalancesAreEarned
  <1>1. Init => Shape /\ Owed
    BY ShapeInit, OwedInit
  <1>2. Shape /\ Owed /\ [Next]_vars => (Shape /\ Owed)'
    BY ShapeStep, OwedStep
  <1>3. Shape /\ Owed => BalancesAreEarned
    <2> SUFFICES ASSUME Shape, Owed, NEW i \in DOMAIN db.rewards
                 PROVE  db.rewards[i].balance <= Earned(db.rewards[i].miner)
      BY DEF BalancesAreEarned
    <2>1. PICK m : m = db.rewards[i].miner
      OBVIOUS
    <2>2. /\ db.rewards[i].balance \in Nat /\ CommissionDue(m) \in Nat /\ ShareDue(m) \in Nat
          /\ Earned(m) \in Nat
      BY DatabaseFacts, DueNat, EarnedNat DEF Shape, TypeOK, BalanceRow
    <2>3. db.rewards[i].balance + CommissionDue(m) + ShareDue(m) <= Earned(m)
      BY <2>1 DEF Owed
    <2> QED
      BY <2>1, <2>2, <2>3
  <1> QED
    BY <1>1, <1>2, <1>3, PTL DEF Spec

-----------------------------------------------------------------------------
(* Rewards                                                                 *)

(* What the rows of a round come to. *)
RoundAmounts(c) ==
  [k \in DOMAIN db.earnings |->
    IF RoundOf(db.earnings[k]) = c THEN db.earnings[k].amount ELSE 0]

(* What is recorded of a round is a sum of amounts. *)
LEMMA RoundAmountsAre ==
  ASSUME Shape, NEW c
  PROVE  \E n \in Nat :
           /\ n = Len(db.earnings) /\ DOMAIN db.earnings = 1..n
           /\ RoundPaid(c) = SumTo(RoundAmounts(c), n)
           /\ \A k \in 1..n :
                /\ RoundAmounts(c)[k] = IF RoundOf(db.earnings[k]) = c THEN db.earnings[k].amount ELSE 0
                /\ RoundAmounts(c)[k] \in Nat
  <1>1. /\ DOMAIN db.earnings = 1..Len(db.earnings) /\ db.earnings \in Seq(EarningRow)
        /\ \A k \in DOMAIN db.earnings : db.earnings[k] \in EarningRow
    BY DatabaseFacts DEF Shape, TypeOK
  <1>2. PICK n \in Nat : n = Len(db.earnings)
    BY <1>1
  <1>3. RoundPaid(c) = SumTo(RoundAmounts(c), n)
    BY <1>2 DEF RoundPaid, RoundAmounts
  <1>4. \A k \in 1..n : db.earnings[k].amount \in Nat
    BY <1>1, <1>2 DEF EarningRow
  <1>5. \A k \in 1..n :
          RoundAmounts(c)[k] = IF RoundOf(db.earnings[k]) = c THEN db.earnings[k].amount ELSE 0
    BY <1>1, <1>2 DEF RoundAmounts
  <1> QED
    BY <1>1, <1>2, <1>3, <1>4, <1>5

(* It is an amount. *)
LEMMA RoundPaidNat ==
  ASSUME Shape, NEW c
  PROVE  RoundPaid(c) \in Nat
  <1>1. PICK n \in Nat : /\ RoundPaid(c) = SumTo(RoundAmounts(c), n)
                         /\ \A k \in 1..n : RoundAmounts(c)[k] \in Nat
    BY RoundAmountsAre
  <1>2. PICK f : f = RoundAmounts(c)
    OBVIOUS
  <1>3. SumTo(f, n) \in Nat
    BY <1>1, <1>2, SumOfNaturals
  <1> QED
    BY <1>1, <1>2, <1>3

(* It is nothing without rows of the round. *)
LEMMA RoundUnpaid ==
  ASSUME Shape, NEW c, \A i \in DOMAIN db.earnings : RoundOf(db.earnings[i]) # c
  PROVE  RoundPaid(c) = 0
  <1>1. PICK n \in Nat :
           /\ n = Len(db.earnings) /\ DOMAIN db.earnings = 1..n
           /\ RoundPaid(c) = SumTo(RoundAmounts(c), n)
           /\ \A k \in 1..n :
                /\ RoundAmounts(c)[k] = IF RoundOf(db.earnings[k]) = c THEN db.earnings[k].amount ELSE 0
                /\ RoundAmounts(c)[k] \in Nat
    BY RoundAmountsAre
  <1>2. PICK f : f = RoundAmounts(c)
    OBVIOUS
  <1>3. \A k \in 1..n : f[k] = 0
    BY <1>1, <1>2
  <1>4. SumTo(f, n) = 0
    BY <1>3, SumOfZeros
  <1> QED
    BY <1>1, <1>2, <1>4

(* It stays while no row is added. *)
LEMMA RoundPaidSame ==
  ASSUME Shape, DatabaseKept, db'.earnings = db.earnings, NEW c
  PROVE  RoundPaid(c)' = RoundPaid(c)
  <1>1. \A i \in DOMAIN db.earnings :
          db'.challenges[db.earnings[i].challenge].challenge = RoundOf(db.earnings[i])
    BY DEF Shape, RowsAreOfChallenges, DatabaseKept, ChallengesKept, RoundOf
  <1>2. RoundAmounts(c)' = RoundAmounts(c)
    BY <1>1 DEF RoundAmounts, RoundOf
  <1> QED
    BY <1>2 DEF RoundPaid, RoundAmounts

(* What is recorded as earned in a round, after rows of one round are added. *)
LEMMA SameLength ==
  ASSUME NEW l \in Nat, NEW m \in Nat, 1..l = 1..m
  PROVE  l = m
  <1>1. l # 0 => l \in 1..m
    OBVIOUS
  <1>2. m # 0 => m \in 1..l
    OBVIOUS
  <1> QED
    BY <1>1, <1>2

RoundGoesOn(n, b, t, r) ==
  /\ n = Len(db.earnings) /\ DOMAIN t = 1..b
  /\ \A k \in 1..b : t[k].amount \in Nat
  /\ db'.challenges = db.challenges
  /\ DOMAIN db'.earnings = 1..(n + b) /\ Len(db'.earnings) = n + b
  /\ \A i \in 1..n : db'.earnings[i] = db.earnings[i]
  /\ \A k \in 1..b : /\ db'.earnings[n + k].amount = t[k].amount
                     /\ db.challenges[db'.earnings[n + k].challenge].challenge = r

LEMMA RoundPaidMore ==
  ASSUME Shape, NEW c, NEW r, NEW b \in Nat, NEW n \in Nat, NEW t, RoundGoesOn(n, b, t, r)
  PROVE  RoundPaid(c)' = RoundPaid(c) + (IF c = r THEN AmountOf(t, b) ELSE 0)
  <1> USE DEF RoundGoesOn
  <1>1. PICK m \in Nat :
           /\ m = Len(db.earnings) /\ DOMAIN db.earnings = 1..m
           /\ RoundPaid(c) = SumTo(RoundAmounts(c), m)
           /\ \A k \in 1..m :
                /\ RoundAmounts(c)[k] = IF RoundOf(db.earnings[k]) = c THEN db.earnings[k].amount ELSE 0
                /\ RoundAmounts(c)[k] \in Nat
    BY RoundAmountsAre
  <1>2. PICK f, h : f = RoundAmounts(c) /\ h = RoundAmounts(c)'
    OBVIOUS
  <1> DEFINE g == [k \in 1..b |-> IF c = r THEN t[k].amount ELSE 0]
  <1>3. 1..n \subseteq 1..(n + b) /\ \A k \in 1..b : n + k \in 1..(n + b)
    OBVIOUS
  <1>4. \A k \in 1..(n + b) :
          h[k] = IF db.challenges[db'.earnings[k].challenge].challenge = c
                 THEN db'.earnings[k].amount ELSE 0
    BY <1>2 DEF RoundAmounts, RoundOf
  <1>5. \A k \in 1..n : h[k] = f[k] /\ f[k] \in Nat
    <2> TAKE k \in 1..n
    <2>1. /\ k \in 1..(n + b) /\ db'.earnings[k] = db.earnings[k] /\ n = m
          /\ db'.challenges = db.challenges
      BY <1>1, <1>3
    <2>2. h[k] = IF RoundOf(db.earnings[k]) = c THEN db.earnings[k].amount ELSE 0
      BY <1>4, <2>1 DEF RoundOf
    <2> QED
      BY <1>1, <1>2, <2>1, <2>2
  <1>6. \A k \in 1..b : h[n + k] = g[k] /\ g[k] \in Nat
    <2> TAKE k \in 1..b
    <2>1. /\ n + k \in 1..(n + b) /\ db'.earnings[n + k].amount = t[k].amount
          /\ db.challenges[db'.earnings[n + k].challenge].challenge = r /\ t[k].amount \in Nat
      BY <1>3
    <2>2. h[n + k] = IF r = c THEN t[k].amount ELSE 0
      BY <1>4, <2>1
    <2> QED
      BY <2>1, <2>2
  <1>7. RoundPaid(c)' = SumTo(h, n + b)
    BY <1>2 DEF RoundPaid, RoundAmounts
  <1>8. SumTo(g, b) = IF c = r THEN AmountOf(t, b) ELSE 0
    <2>1. CASE c = r
      <3>1. g = [k \in DOMAIN t |-> t[k].amount]
        BY <2>1
      <3> QED
        BY <2>1, <3>1 DEF AmountOf
    <2>2. CASE c # r
      <3>1. \A k \in 1..b : g[k] = 0
        BY <2>2
      <3> HIDE DEF g
      <3> QED
        BY <2>2, <3>1, SumOfZeros
    <2> QED
      BY <2>1, <2>2
  <1> HIDE DEF g
  <1>9. SumTo(h, n + b) = SumTo(f, n) + SumTo(g, b)
    <2>1. Continued(h, f, n, g, b)
      BY <1>5, <1>6 DEF Continued, Numbers
    <2> QED
      BY <2>1, SumContinued
  <1> QED
    BY <1>1, <1>2, <1>7, <1>8, <1>9

(* The shares that are written so far come to no more than what there is to share. *)
LEMMA AmountGrows ==
  ASSUME Shape, processor.pc # "idle", NEW k \in Nat, k <= Len(Contributions)
  PROVE  /\ AmountOf(Shares, k) \in Nat
         /\ AmountOf(Shares, k) <= MinersRewards(processor.msg.result)
  <1>1. PICK n \in Nat : n = Len(Contributions)
    BY ContributionsTyped
  <1> DEFINE f == [i \in DOMAIN Shares |-> Shares[i].amount]
  <1>2. \A i \in 1..n : f[i] = Share(Contributions[i]) /\ f[i] \in Nat
    BY <1>1, SharesAre
  <1>3. AmountOf(Shares, k) = SumTo(f, k)
    BY DEF AmountOf
  <1> HIDE DEF f
  <1>4. \A i \in 1..k : f[i] \in Nat
    BY <1>1, <1>2
  <1>5. SumTo(f, k) \in Nat
    BY <1>4, SumOfNaturals
  <1>6. PICK reward \in Nat : reward = MinersRewards(processor.msg.result)
    BY ContributionsTyped
  <1>7. SumTo(f, k) <= reward
    <2>1. CASE n = 0
      <3>1. k = 0
        BY <1>1, <2>1
      <3>2. SumTo(f, 0) = 0
        BY SumZero
      <3> QED
        BY <3>1, <3>2
    <2>2. CASE n # 0
      <3>1. n \in Nat \ {0}
        BY <2>2
      <3>2. PICK cs : cs = Contributions
        OBVIOUS
      <3>3. /\ DOMAIN cs = 1..n /\ Len(cs) = n
            /\ \A i \in 1..n : cs[i].hashpower \in Nat \ {0}
        BY <1>1, <3>2, ContributionsTyped DEF Contribution
      <3>4. \A i \in 1..n :
              f[i] = earned_rewards(cs[i].hashpower, total_hashpower(cs), reward)
        BY <1>2, <1>6, <3>2 DEF Share
      <3> QED
        BY <1>1, <3>1, <3>3, <3>4, SharesBound
    <2> QED
      BY <2>1, <2>2
  <1> QED
    BY <1>3, <1>5, <1>6, <1>7

(* The shares up to the end of a batch: those before, and the batch's. *)
LEMMA BatchAmount ==
  ASSUME Shape, processor.pc # "idle", Unwritten
  PROVE  AmountOf(Shares, BatchEnd)
           = AmountOf(Shares, processor.done) + AmountOf(Batch(Earning), BatchLen)
  <1>1. PICK b \in Nat : b = BatchLen
    BY BatchIs DEF Shape
  <1>2. PICK done \in Nat : done = processor.done
    BY BatchIs DEF Shape
  <1>3. PICK n \in Nat : n = Len(Contributions)
    BY ContributionsTyped
  <1>4. done + b = BatchEnd /\ done + b <= n
    BY <1>1, <1>2, <1>3, BatchIs DEF Shape
  <1>5. PICK batch : batch = Batch(Earning)
    OBVIOUS
  <1>6. batch = [k \in 1..b |-> Earning(Contributions[done + k])]
    BY <1>1, <1>2, <1>5, BatchIs DEF Shape
  <1> DEFINE f == [i \in DOMAIN Shares |-> Shares[i].amount]
             g == [i \in DOMAIN batch |-> batch[i].amount]
  <1>7. /\ DOMAIN Shares = 1..n
        /\ \A k \in 1..n : /\ Shares[k].amount = Share(Contributions[k])
                           /\ Shares[k].amount \in Nat
    BY <1>3, SharesAre
  <1>8. \A k \in 1..b : done + k \in 1..n
    BY <1>4
  <1>9. \A k \in 1..b : batch[k].amount = Share(Contributions[done + k])
    BY <1>6 DEF Earning
  <1>10. \A k \in 1..b : f[done + k] = g[k] /\ g[k] \in Nat
    BY <1>6, <1>7, <1>8, <1>9
  <1>11. \A k \in 1..done : f[k] \in Nat
    BY <1>4, <1>7
  <1>12. /\ AmountOf(Shares, done) = SumTo(f, done)
         /\ AmountOf(Shares, done + b) = SumTo(f, done + b)
         /\ AmountOf(batch, b) = SumTo(g, b)
    BY DEF AmountOf
  <1> HIDE DEF f, g
  <1>13. SumTo(f, done + b) = SumTo(f, done) + SumTo(g, b)
    <2>1. Continued(f, f, done, g, b)
      BY <1>10, <1>11 DEF Continued, Numbers
    <2> QED
      BY <2>1, SumContinued
  <1> QED
    BY <1>1, <1>2, <1>4, <1>5, <1>12, <1>13

(* A call writes a round's commissions first, then its shares. *)
LEMMA PaidCall ==
  ASSUME Shape, Fresh, NEW c \in Rounds, PaidFor(c), CallStep
  PROVE  PaidFor(c)'
  <1>1. DatabaseKept /\ challenge' = challenge /\ rewarded' = rewarded
    BY CallDatabase DEF CallStep
  <1>2. PICK paid \in Nat : paid = RoundPaid(c)
    BY RoundPaidNat
  <1>3. /\ attender \in AttenderStates /\ processor \in ProcessorStates
        /\ rewarded[c] \in Nat
    BY DEF Shape, TypeOK, AttenderStates, ProcessorStates
  <1>4. CASE CommissionEarned
    <2>1. PICK n \in Nat : n = Len(db.earnings)
      <3>1. db.earnings \in Seq(EarningRow)
        BY DatabaseFacts DEF Shape, TypeOK
      <3> QED
        BY <3>1
    <2>2. PICK amount \in Nat : amount = commissions(attender.result.rewards)
      BY <1>4, CommissionTyped DEF CommissionEarned, WithRecord
    <2>3. /\ DOMAIN db.earnings = 1..n /\ DOMAIN db'.earnings = 1..(n + 1)
          /\ \A i \in 1..n : db'.earnings[i] = db.earnings[i]
          /\ db'.earnings[n + 1].challenge = attender.id
          /\ db'.earnings[n + 1].amount = amount
          /\ db'.challenges = db.challenges
          /\ db.challenges[attender.id].challenge = attender.old
      BY <1>4, <2>1, <2>2, CommissionEarnedRow
    <2>4. /\ attender.pc = "commission" /\ IsRound(attender.id, attender.old, attender.result)
      BY <1>4 DEF CommissionEarned, Shape, AttenderShape, WithRecord
    <2>5. PICK r : r = attender.old
      OBVIOUS
    <2>6. RoundPaid(c)' = paid + (IF c = r THEN amount ELSE 0)
      <3> DEFINE t == [k \in 1..1 |-> [amount |-> amount]]
      <3>1. DOMAIN t = 1..1 /\ \A k \in 1..1 : t[k].amount = amount
        OBVIOUS
      <3>2. Len(db'.earnings) = n + 1
        <4>1. db'.earnings \in Seq(EarningRow)
          BY <1>1 DEF DatabaseKept, Database, EarningRow
        <4> QED
          BY <2>3, <4>1
      <3>3. AmountOf(t, 1) = amount
        <4> DEFINE f == [k \in DOMAIN t |-> t[k].amount]
        <4>1. f[1] = amount
          OBVIOUS
        <4> HIDE DEF f
        <4>2. SumTo(f, 0 + 1) = SumTo(f, 0) + f[0 + 1] /\ SumTo(f, 0) = 0
          BY SumNext, SumZero
        <4> QED
          BY <4>1, <4>2 DEF AmountOf, f
      <3>4. \A k \in 1..1 : /\ db'.earnings[n + k].amount = t[k].amount
                            /\ db.challenges[db'.earnings[n + k].challenge].challenge = r
        BY <2>3, <2>5, <3>1
      <3> HIDE DEF t
      <3>5. RoundPaid(c)' = RoundPaid(c) + (IF c = r THEN AmountOf(t, 1) ELSE 0)
        <4>1. RoundGoesOn(n, 1, t, r)
          <5>1. t[1].amount \in Nat
            BY <2>2, <3>1
          <5> QED
            BY <2>1, <2>3, <3>1, <3>2, <3>4, <5>1 DEF RoundGoesOn
        <4> QED
          BY <4>1, RoundPaidMore
      <3> QED
        BY <1>2, <3>3, <3>5
    <2>7. c = r => paid = 0
      <3>1. \A i \in DOMAIN db.earnings : RoundOf(db.earnings[i]) # attender.old
        BY <2>4 DEF Fresh, EarningsFresh, OtherFresh
      <3> QED
        BY <1>2, <2>5, <3>1, RoundUnpaid
    <2>8. /\ rewarded[r] = attender.result.rewards /\ attender.result.rewards \in Nat
          /\ amount <= attender.result.rewards
      BY <2>2, <2>4, <2>5, ResultsAssumption, CommissionsBound DEF IsRound, RoundResult
    <2>9. RoundPaid(c)' <= rewarded'[c]
      BY <1>1, <1>2, <2>6, <2>7, <2>8 DEF PaidFor
    <2>10. CASE Die
      BY <2>9, <2>10 DEF Die, NoAttender, NoProcessor, PaidFor
    <2>11. CASE AttenderIs(At("credit"))
      <3>1. /\ attender'.old = attender.old /\ attender'.result = attender.result
            /\ queue' = queue /\ processor' = processor
        BY <1>3, <2>11 DEF AttenderIs, At, AttenderStates
      <3>2. /\ \A k \in DOMAIN queue : queue[k].challenge < r
            /\ processor.pc # "idle" => processor.msg.challenge < r
        BY <2>4, <2>5 DEF Shape, QueueShape, ProcessorShape
      <3>3. r \in Nat
        BY <2>5, <1>3, BoundsAssumption DEF AttenderStates
      <3>4. /\ \A k \in DOMAIN queue : c = queue[k].challenge => c # r
            /\ processor.pc # "idle" /\ c = processor.msg.challenge => c # r
        BY <3>2, <3>3
      <3>5. Shares' = Shares
        BY <3>1 DEF Shares, Contributions, Share
      <3>6. c = r => RoundPaid(c)' <= commissions(attender.result.rewards)
        BY <2>2, <2>6, <2>7
      <3>7. c # r => RoundPaid(c)' = RoundPaid(c)
        BY <1>2, <2>6
      <3>8. attender'.pc # "idle" /\ c = attender'.old =>
              RoundPaid(c)' <= commissions(attender'.result.rewards)
        BY <2>5, <3>1, <3>6
      <3>9. \A k \in DOMAIN queue' :
              c = queue'[k].challenge => RoundPaid(c)' <= commissions(queue'[k].result.rewards)
        BY <3>1, <3>4, <3>7 DEF PaidFor
      <3>10. processor'.pc # "idle" /\ c = processor'.msg.challenge =>
               RoundPaid(c)' <= commissions(processor'.msg.result.rewards)
                                  + AmountOf(Shares', EarningsWritten(processor'))
        BY <3>1, <3>4, <3>5, <3>7 DEF PaidFor
      <3> QED
        BY <2>9, <3>8, <3>9, <3>10 DEF PaidFor
    <2> QED
      BY <1>4, <2>10, <2>11 DEF CommissionEarned
  <1>5. CASE BatchEarned
    <2>1. PICK n, b, done \in Nat : EarningsBatch(n, b, done)
      BY <1>5, BatchEarnedRows
    <2> USE DEF EarningsBatch
    <2>2. /\ processor.pc = "earnings" /\ processor.pc # "idle" /\ Unwritten
          /\ IsRound(processor.msg.id, processor.msg.challenge, processor.msg.result)
      BY <1>5 DEF BatchEarned, Shape, ProcessorShape
    <2>3. PICK r : r = processor.msg.challenge
      OBVIOUS
    <2>4. PICK t : t = Batch(Earning)
      OBVIOUS
    <2>5. t = [k \in 1..b |-> Earning(Contributions[done + k])]
      <3>1. Batch(Earning) = [k \in 1..BatchLen |-> Earning(Contributions[processor.done + k])]
        BY <2>2, BatchIs DEF Shape
      <3>2. b = BatchLen /\ done = processor.done
        BY <2>1
      <3> QED
        BY <2>4, <3>1, <3>2
    <2>6. /\ DOMAIN t = 1..b
          /\ \A k \in 1..b : /\ t[k].amount = Share(Contributions[done + k])
                             /\ t[k].amount \in Nat
      <3>1. \A k \in 1..b : done + k \in 1..Len(Contributions)
        BY <2>1
      <3>2. \A k \in 1..b : Share(Contributions[done + k]) \in Nat
        BY <2>2, <3>1, ShareTyped
      <3> QED
        BY <2>5, <3>2 DEF Earning
    <2>7. Len(db'.earnings) = n + b
      <3>1. db'.earnings \in Seq(EarningRow)
        BY <1>1 DEF DatabaseKept, Database, EarningRow
      <3>2. PICK rows \in Seq(EarningRow) : rows = db'.earnings
        BY <3>1
      <3>3. DOMAIN rows = 1..Len(rows) /\ Len(rows) \in Nat
        OBVIOUS
      <3>4. DOMAIN rows = 1..(n + b) /\ n + b \in Nat
        BY <2>1, <3>2
      <3>5. Len(rows) = n + b
        BY <3>3, <3>4, SameLength
      <3> QED
        BY <3>2, <3>5
    <2>8. RoundPaid(c)' = RoundPaid(c) + (IF c = r THEN AmountOf(t, b) ELSE 0)
      <3>1. /\ n = Len(db.earnings) /\ db'.challenges = db.challenges
            /\ DOMAIN db'.earnings = 1..(n + b)
            /\ \A i \in 1..n : db'.earnings[i] = db.earnings[i]
            /\ \A k \in 1..b : /\ db'.earnings[n + k].amount = t[k].amount
                               /\ db.challenges[db'.earnings[n + k].challenge].challenge = r
        BY <2>1, <2>3, <2>6
      <3> QED
        <4>1. RoundGoesOn(n, b, t, r)
          BY <2>6, <2>7, <3>1 DEF RoundGoesOn
        <4> QED
          BY <4>1, RoundPaidMore
    <2>9. /\ AmountOf(Shares, BatchEnd) = AmountOf(Shares, done) + AmountOf(t, b)
          /\ AmountOf(Shares, done) \in Nat
          /\ AmountOf(Shares, BatchEnd) \in Nat
          /\ AmountOf(Shares, BatchEnd) <= MinersRewards(processor.msg.result)
      <3>1. b = BatchLen /\ done = processor.done
        BY <2>1
      <3>2. AmountOf(Shares, BatchEnd) = AmountOf(Shares, done) + AmountOf(t, b)
        BY <2>2, <2>4, <3>1, BatchAmount
      <3>3. BatchEnd \in Nat /\ done <= Len(Contributions)
        BY <2>1
      <3> QED
        BY <2>1, <2>2, <3>2, <3>3, AmountGrows
    <2>10. PICK commission, before, after, added, rest \in Nat :
             /\ commission = commissions(processor.msg.result.rewards)
             /\ before = AmountOf(Shares, done) /\ after = AmountOf(Shares, BatchEnd)
             /\ rest = MinersRewards(processor.msg.result)
             /\ added = AmountOf(t, b)
             /\ after = before + added /\ after <= rest
             /\ commission + rest = processor.msg.result.rewards
      <3>1. processor.msg.result.rewards \in Nat /\ MinersRewards(processor.msg.result) \in Nat
        BY <2>2, ContributionsTyped
      <3>2. commissions(processor.msg.result.rewards) \in Nat
        BY <3>1, CommissionsBound
      <3>3. AmountOf(t, b) \in Nat
        <4> DEFINE f == [k \in DOMAIN t |-> t[k].amount]
        <4>1. \A k \in 1..b : f[k] \in Nat
          BY <2>6
        <4> HIDE DEF f
        <4>2. SumTo(f, b) \in Nat
          BY <4>1, SumOfNaturals
        <4> QED
          BY <4>2 DEF AmountOf, f
      <3>4. MinersRewards(processor.msg.result) + commissions(processor.msg.result.rewards)
              = processor.msg.result.rewards
        BY <2>2, ContributionsTyped
      <3> QED
        BY <2>9, <3>1, <3>2, <3>3, <3>4
    <2>11. EarningsWritten(processor) = done
      <3>1. done = processor.done
        BY <2>1
      <3> QED
        BY <2>2, <3>1, BatchWritten DEF EarningsWritten, AfterTable
    <2>12. c = r => paid <= commission + before
      BY <1>2, <2>2, <2>3, <2>10, <2>11 DEF PaidFor
    <2>13. /\ c = r => RoundPaid(c)' <= commission + after
           /\ c # r => RoundPaid(c)' = paid
      BY <1>2, <2>8, <2>10, <2>12
    <2>14. rewarded[r] = commission + rest
      BY <2>2, <2>3, <2>10 DEF IsRound
    <2>15. RoundPaid(c)' \in Nat
      <3>1. RoundPaid(c)' = paid + (IF c = r THEN added ELSE 0)
        BY <1>2, <2>8, <2>10
      <3> QED
        BY <3>1
    <2>16. RoundPaid(c)' <= rewarded'[c]
      <3>1. CASE c = r
        BY <1>1, <2>10, <2>13, <2>14, <2>15, <3>1
      <3>2. CASE c # r
        BY <1>1, <1>2, <2>13, <3>2 DEF PaidFor
      <3> QED
        BY <3>1, <3>2
    <2>17. CASE Die
      BY <2>16, <2>17 DEF Die, NoAttender, NoProcessor, PaidFor
    <2>18. CASE ProcessorIs(NextBatch)
      <3>1. /\ attender' = attender /\ queue' = queue /\ processor' = NextBatch
            /\ NextBatch.pc = "earnings" /\ NextBatch.msg = processor.msg
            /\ Upto(NextBatch) = BatchEnd
        BY <2>2, <2>18, BatchWritten DEF ProcessorIs, AfterTable
      <3>2. EarningsWritten(processor') = BatchEnd /\ Shares' = Shares
        BY <3>1 DEF EarningsWritten, Shares, Contributions, Share
      <3>3. /\ \A k \in DOMAIN queue : queue[k].challenge > r /\ queue[k].challenge \in Nat
            /\ attender.pc # "idle" => attender.old > r /\ attender.old \in Nat
        <4>1. /\ queue \in Seq(Messages) /\ attender.old \in 0..MaxRounds
          BY DEF Shape, TypeOK
        <4>2. \A k \in DOMAIN queue : queue[k] \in Messages
          BY <4>1, ElementOfSeq
        <4>3. r \in Nat
          BY <2>2, <2>3 DEF IsRound
        <4>4. \A k \in DOMAIN queue : queue[k].challenge \in Nat
          BY <4>2, BoundsAssumption DEF Messages
        <4> QED
          BY <2>2, <2>3, <4>1, <4>3, <4>4, BoundsAssumption DEF Shape, ProcessorShape
      <3>4. /\ \A k \in DOMAIN queue : c = queue[k].challenge => c # r
            /\ attender.pc # "idle" /\ c = attender.old => c # r
        BY <2>2, <2>3, <3>3 DEF IsRound
      <3>5. attender'.pc # "idle" /\ c = attender'.old =>
              RoundPaid(c)' <= commissions(attender'.result.rewards)
        BY <1>2, <2>13, <3>1, <3>4 DEF PaidFor
      <3>6. \A k \in DOMAIN queue' :
              c = queue'[k].challenge => RoundPaid(c)' <= commissions(queue'[k].result.rewards)
        BY <1>2, <2>13, <3>1, <3>4 DEF PaidFor
      <3>7. processor'.pc # "idle" /\ c = processor'.msg.challenge =>
              RoundPaid(c)' <= commissions(processor'.msg.result.rewards)
                                 + AmountOf(Shares', EarningsWritten(processor'))
        BY <2>3, <2>10, <2>13, <3>1, <3>2
      <3> QED
        BY <2>16, <3>5, <3>6, <3>7 DEF PaidFor
    <2> QED
      BY <1>5, <2>17, <2>18 DEF BatchEarned
  <1>6. CASE ~CommissionEarned /\ ~BatchEarned
    <2>1. db'.earnings = db.earnings
      BY <1>6, TablesChange
    <2>2. RoundPaid(c)' = RoundPaid(c)
      BY <1>1, <2>1, RoundPaidSame
    <2>3. CASE Die
      BY <1>1, <2>2, <2>3 DEF Die, NoAttender, NoProcessor, PaidFor
    <2>4. CASE ~Die
      <3>1. AttenderGoesOn /\ queue' = queue /\ ProcessorGoesOn(EarningsWritten)
        BY <1>6, <2>4, AttenderCalls, QueueCalls, TableCallsWrite
      <3>2. attender'.pc # "idle" /\ c = attender'.old =>
              RoundPaid(c)' <= commissions(attender'.result.rewards)
        BY <2>2, <3>1 DEF PaidFor, AttenderGoesOn
      <3>3. \A k \in DOMAIN queue' :
              c = queue'[k].challenge => RoundPaid(c)' <= commissions(queue'[k].result.rewards)
        BY <2>2, <3>1 DEF PaidFor
      <3>4. processor'.pc # "idle" /\ c = processor'.msg.challenge =>
              RoundPaid(c)' <= commissions(processor'.msg.result.rewards)
                                 + AmountOf(Shares', EarningsWritten(processor'))
        <4>1. CASE processor' = NoProcessor
          BY <4>1 DEF NoProcessor
        <4>2. CASE processor'.msg = processor.msg /\ processor.pc # "idle"
                   /\ EarningsWritten(processor') = EarningsWritten(processor)
          <5>1. Shares' = Shares
            BY <4>2 DEF Shares, Contributions, Share
          <5> QED
            BY <2>2, <4>2, <5>1 DEF PaidFor
        <4>3. CASE processor' = processor
          <5>1. Shares' = Shares
            BY <4>3 DEF Shares, Contributions, Share
          <5> QED
            BY <2>2, <4>3, <5>1 DEF PaidFor
        <4> QED
          BY <3>1, <4>1, <4>2, <4>3 DEF ProcessorGoesOn
      <3> QED
        BY <1>1, <2>2, <3>2, <3>3, <3>4 DEF PaidFor
    <2> QED
      BY <2>3, <2>4
  <1> QED
    BY <1>4, <1>5, <1>6

(* A new round has a reward, and no rows yet. *)
LEMMA PaidLand ==
  ASSUME Shape, Fresh, NEW c \in Rounds, PaidFor(c), NEW result \in RoundResults, Land(result)
  PROVE  PaidFor(c)'
  <1>1. db' = db /\ DatabaseKept /\ \A d \in 1..(challenge - 1) : rewarded'[d] = rewarded[d]
    BY QuietSame
  <1>2. RoundPaid(c)' = RoundPaid(c)
    BY <1>1, RoundPaidSame
  <1>3. /\ attender.pc = "idle" /\ attender'.old = challenge /\ attender'.result = result
        /\ queue' = queue /\ processor' = processor
        /\ challenge \in Nat /\ c \in Nat /\ c >= 1
        /\ rewarded \in [Rounds -> Nat] /\ result.rewards \in Nat
        /\ rewarded' = [rewarded EXCEPT ![challenge] = result.rewards]
    <2>1. /\ attender.pc = "idle" /\ attender'.old = challenge /\ attender'.result = result
          /\ queue' = queue /\ processor' = processor
          /\ rewarded' = [rewarded EXCEPT ![challenge] = result.rewards]
      BY DEF Land
    <2>2. challenge \in Nat
      BY QuietSame
    <2>3. c \in Nat /\ c >= 1
      BY BoundsAssumption DEF Rounds
    <2>4. rewarded \in [Rounds -> Nat]
      BY DEF Shape, TypeOK
    <2>5. result.rewards \in Nat
      BY ResultsAssumption DEF RoundResult
    <2> QED
      BY <2>1, <2>2, <2>3, <2>4, <2>5
  <1>4. c >= challenge => RoundPaid(c) = 0
    <2>1. \A i \in DOMAIN db.earnings : RoundOf(db.earnings[i]) \in 1..(challenge - 1)
      BY DEF Fresh, EarningsFresh, OtherFresh
    <2>2. c >= challenge => c \notin 1..(challenge - 1)
      BY <1>3
    <2> QED
      BY <2>1, <2>2, RoundUnpaid
  <1>5. RoundPaid(c)' <= rewarded'[c]
    <2>1. CASE c < challenge
      <3>1. rewarded'[c] = rewarded[c]
        BY <1>1, <1>3, <2>1
      <3> QED
        BY <1>2, <3>1 DEF PaidFor
    <2>2. CASE c >= challenge
      <3>1. rewarded'[c] \in Nat
        BY <1>3
      <3>2. RoundPaid(c)' = 0
        BY <1>2, <1>4, <2>2
      <3> QED
        BY <3>1, <3>2
    <2> QED
      BY <1>3, <2>1, <2>2
  <1>6. c = attender'.old => RoundPaid(c)' <= commissions(attender'.result.rewards)
    <2>1. commissions(result.rewards) \in Nat
      BY <1>3, CommissionsBound
    <2> QED
      BY <1>2, <1>3, <1>4, <2>1
  <1>7. Shares' = Shares
    BY <1>3 DEF Shares, Contributions, Share
  <1> QED
    BY <1>2, <1>3, <1>5, <1>6, <1>7 DEF PaidFor

(* The message takes over what the attender has paid. *)
LEMMA PaidSend ==
  ASSUME Shape, NEW c \in Rounds, PaidFor(c), SendMineSuccess
  PROVE  PaidFor(c)'
  <1>1. db' = db /\ DatabaseKept
    BY QuietSame
  <1>2. RoundPaid(c)' = RoundPaid(c)
    BY <1>1, RoundPaidSame
  <1> DEFINE message == [id |-> attender.id, challenge |-> attender.old,
                         result |-> attender.result]
  <1>3. /\ attender.pc = "send" /\ attender' = NoAttender /\ processor' = processor
        /\ rewarded' = rewarded /\ queue' = Append(queue, message)
        /\ queue \in Seq(Messages)
    BY DEF SendMineSuccess, Shape, TypeOK
  <1>4. c = message.challenge => RoundPaid(c) <= commissions(message.result.rewards)
    BY <1>3 DEF PaidFor
  <1> HIDE DEF message
  <1>5. \A k \in DOMAIN queue' :
          (k \in DOMAIN queue /\ queue'[k] = queue[k]) \/ queue'[k] = message
    BY <1>3
  <1>6. \A k \in DOMAIN queue' :
          c = queue'[k].challenge => RoundPaid(c) <= commissions(queue'[k].result.rewards)
    BY <1>4, <1>5 DEF PaidFor
  <1>7. Shares' = Shares
    BY <1>3 DEF Shares, Contributions, Share
  <1> QED
    BY <1>2, <1>3, <1>6, <1>7 DEF PaidFor, NoAttender

(* The processor begins with the commissions paid. *)
LEMMA PaidReceive ==
  ASSUME Shape, NEW c \in Rounds, PaidFor(c), Receive
  PROVE  PaidFor(c)'
  <1>1. db' = db /\ DatabaseKept
    BY QuietSame
  <1>2. RoundPaid(c)' = RoundPaid(c)
    BY <1>1, RoundPaidSame
  <1>3. /\ queue # <<>> /\ queue' = Tail(queue) /\ attender' = attender /\ rewarded' = rewarded
        /\ queue \in Seq(Messages)
    BY DEF Receive, Shape, TypeOK
  <1>4. \A k \in DOMAIN queue' : k + 1 \in DOMAIN queue /\ queue'[k] = queue[k + 1]
    BY <1>3
  <1>5. 1 \in DOMAIN queue /\ Head(queue) = queue[1]
    BY <1>3
  <1> DEFINE next == [NoProcessor EXCEPT !.pc = "earnings", !.msg = Head(queue)]
  <1>6. processor' = next /\ next.pc = "earnings" /\ next.done = 0 /\ next.msg = queue[1]
    BY <1>5 DEF Receive, NoProcessor
  <1> HIDE DEF next
  <1>7. EarningsWritten(processor') = 0
    <2>1. Shape'
      BY QuietShape
    <2>2. processor'.msg.result \in RoundResults
      BY <1>6, <2>1 DEF Shape, ProcessorShape, IsRound
    <2>3. PICK result \in RoundResults : result = processor'.msg.result
      BY <2>2
    <2>4. Len(result.contributions) \in Nat
      BY ResultsAssumption DEF RoundResult
    <2> QED
      BY <1>6, <2>3, <2>4 DEF EarningsWritten, Upto
  <1>8. PICK shares : shares = Shares'
    OBVIOUS
  <1>9. AmountOf(shares, 0) = 0
    BY SumZero DEF AmountOf
  <1>10. PICK paid \in Nat : paid = RoundPaid(c)
    BY RoundPaidNat
  <1>11. c = queue[1].challenge =>
           RoundPaid(c)' <= commissions(processor'.msg.result.rewards)
                              + AmountOf(Shares', EarningsWritten(processor'))
    <2>1. SUFFICES ASSUME c = queue[1].challenge
                   PROVE  paid <= commissions(queue[1].result.rewards) + 0
      BY <1>2, <1>6, <1>7, <1>8, <1>9, <1>10
    <2>2. queue[1].result.rewards \in Nat
      BY <1>5, ResultsAssumption DEF Shape, QueueShape, IsRound, RoundResult
    <2>3. commissions(queue[1].result.rewards) \in Nat
      BY <2>2, CommissionsBound
    <2> QED
      BY <1>5, <1>10, <2>1, <2>3 DEF PaidFor
  <1>12. \A k \in DOMAIN queue' :
           c = queue'[k].challenge => RoundPaid(c)' <= commissions(queue'[k].result.rewards)
    BY <1>2, <1>4 DEF PaidFor
  <1> QED
    BY <1>2, <1>3, <1>6, <1>11, <1>12 DEF PaidFor

LEMMA PaidQuiet ==
  ASSUME Shape, Fresh, NEW c \in Rounds, PaidFor(c),
         \/ \E result \in RoundResults : Land(result)
         \/ LandUnattended \/ SendMineSuccess \/ Receive \/ NextTable
  PROVE  PaidFor(c)'
  <1>1. db' = db /\ DatabaseKept
    BY QuietSame
  <1>2. RoundPaid(c)' = RoundPaid(c)
    BY <1>1, RoundPaidSame
  <1>3. CASE LandUnattended
    <2>1. UNCHANGED <<attender, queue, processor, rewarded>>
      BY <1>3 DEF LandUnattended, tasks
    <2>2. Shares' = Shares
      BY <2>1 DEF Shares, Contributions, Share
    <2> QED
      BY <1>2, <2>1, <2>2 DEF PaidFor
  <1>4. CASE NextTable
    <2>1. UNCHANGED <<attender, queue, rewarded>>
      BY <1>4 DEF NextTable
    <2>2. /\ processor.pc # "idle" /\ processor'.msg = processor.msg
          /\ EarningsWritten(processor') = EarningsWritten(processor)
      BY <1>4, TurnWritten
    <2>3. Shares' = Shares
      BY <2>2 DEF Shares, Contributions, Share
    <2> QED
      BY <1>2, <2>1, <2>2, <2>3 DEF PaidFor
  <1> QED
    BY <1>3, <1>4, PaidLand, PaidSend, PaidReceive

LEMMA PaidSame ==
  ASSUME Shape, NEW c \in Rounds, PaidFor(c), UNCHANGED vars
  PROVE  PaidFor(c)'
  <1>1. UNCHANGED <<db, attender, queue, processor, rewarded>>
    BY DEF vars, tasks
  <1>2. Shares' = Shares
    BY <1>1 DEF Shares, Contributions, Share
  <1>3. RoundPaid(c)' = RoundPaid(c)
    BY <1>1 DEF RoundPaid, RoundOf
  <1> QED
    BY <1>1, <1>2, <1>3 DEF PaidFor

LEMMA PaidInit ==
  ASSUME Init
  PROVE  Paid
  <1>1. /\ db.earnings = <<>> /\ rewarded = [c \in Rounds |-> 0]
        /\ attender.pc = "idle" /\ queue = <<>> /\ processor.pc = "idle"
    BY DEF Init, NoAttender, NoProcessor, Rounds
  <1>2. SUFFICES ASSUME NEW c \in Rounds
                 PROVE  PaidFor(c)
    BY DEF Paid
  <1>3. RoundPaid(c) = 0
    <2>1. Shape
      BY ShapeInit
    <2> QED
      BY <1>1, <2>1, RoundUnpaid
  <1> QED
    BY <1>1, <1>3 DEF PaidFor

LEMMA PaidStep ==
  ASSUME Shape, Fresh, Paid, [Next]_vars
  PROVE  Paid'
  <1> SUFFICES ASSUME NEW c \in Rounds
               PROVE  PaidFor(c)'
    BY DEF Paid
  <1>1. PaidFor(c)
    BY DEF Paid
  <1>2. CASE UNCHANGED vars
    BY <1>1, <1>2, PaidSame
  <1>3. CASE Next
    BY <1>1, <1>3, StepIs, PaidCall, PaidQuiet DEF Step, Shape
  <1> QED
    BY <1>2, <1>3

(* What is recorded as earned in a round, commissions included, never exceeds *)
(* what the pool was paid for it, though the shares are rounded twice and the *)
(* commissions are written by another task.                                   *)
THEOREM NotOverpaidCorrect == Spec => []NotOverpaid
  <1>1. Init => Shape /\ Fresh /\ Paid
    BY ShapeInit, FreshInit, PaidInit
  <1>2. Shape /\ Fresh /\ Paid /\ [Next]_vars => (Shape /\ Fresh /\ Paid)'
    BY ShapeStep, FreshStep, PaidStep
  <1>3. Paid => NotOverpaid
    BY DEF Paid, PaidFor, NotOverpaid
  <1> QED
    BY <1>1, <1>2, <1>3, PTL DEF Spec

-----------------------------------------------------------------------------
(* The pool's total                                                        *)

LEMMA QueuedSame ==
  ASSUME queue' = queue
  PROVE  Queued' = Queued
  BY DEF Queued

(* What is sent to the processor is some reward, and outstanding. *)
LEMMA OutstandingNat ==
  ASSUME Shape
  PROVE  /\ attender.result.rewards \in Nat /\ InHand \in Nat /\ Queued \in Nat
         /\ \A k \in DOMAIN queue : queue[k].result.rewards \in Nat
         /\ processor.msg.result.rewards \in Nat
  <1>1. ASSUME NEW result \in RoundResults \cup {NoResult}
        PROVE  result.rewards \in Nat
    BY ResultsAssumption DEF RoundResult, NoResult
  <1>2. /\ attender.result \in RoundResults \cup {NoResult}
        /\ processor.msg.result \in RoundResults \cup {NoResult}
        /\ queue \in Seq(Messages)
    BY DEF Shape, TypeOK, Messages
  <1>3. \A k \in DOMAIN queue : queue[k].result.rewards \in Nat
    <2>1. \A k \in DOMAIN queue : queue[k] \in Messages
      BY <1>2, ElementOfSeq
    <2> QED
      BY <1>1, <2>1 DEF Messages
  <1>4. Queued \in Nat
    <2>1. PICK n \in Nat : n = Len(queue)
      BY <1>2
    <2>2. DOMAIN queue = 1..n
      BY <1>2, <2>1
    <2> DEFINE f == [k \in DOMAIN queue |-> queue[k].result.rewards]
    <2>3. \A k \in 1..n : f[k] \in Nat
      BY <1>3, <2>2
    <2>4. Queued = SumTo(f, n)
      BY <2>1 DEF Queued
    <2> HIDE DEF f
    <2> QED
      BY <2>3, <2>4, SumOfNaturals
  <1> QED
    BY <1>1, <1>2, <1>3, <1>4 DEF InHand

(* What the pool was paid is a sum of amounts. *)
LEMMA PaidInTotal ==
  ASSUME Shape
  PROVE  /\ MaxRounds \in Nat /\ Numbers(rewarded, MaxRounds)
         /\ SumTo(rewarded, MaxRounds) \in Nat
  <1>1. MaxRounds \in Nat /\ \A c \in 1..MaxRounds : rewarded[c] \in Nat
    BY BoundsAssumption DEF Shape, TypeOK, Rounds
  <1>2. SumTo(rewarded, MaxRounds) \in Nat
    BY <1>1, SumOfNaturals
  <1> QED
    BY <1>1, <1>2 DEF Numbers

(* What a call does to the total and to what the processor has still to add. *)
TotalStep ==
  \/ db'.total = db.total /\ InHand' = InHand
  \/ db'.total = db.total + InHand /\ InHand' = 0
  \/ db'.total = db.total + InHand /\ InHand' = InHand /\ faults'["answer"] > 0

(* The total grows by the reward at hand, and only a lost answer repeats *)
(* it.                                                                   *)
LEMMA TotalCall ==
  ASSUME Shape, CallStep, ~Die
  PROVE  TotalStep
  <1>1. db \in Database /\ processor \in ProcessorStates
    BY DEF Shape, TypeOK, ProcessorStates
  <1>2. ASSUME processor' = processor, db'.total = db.total
        PROVE  TotalStep
    BY <1>2 DEF TotalStep, InHand
  <1>3. ASSUME NEW c, Grown(c)
        PROVE  db'.total = db.total
    BY <1>1, <1>3, DatabaseFacts DEF Grown, WithChallenge, Shape
  <1>4. ASSUME NEW batch
        PROVE  /\ WithEarnings(batch).total = db.total
               /\ WithBalances(batch).total = db.total
               /\ WithContributions(batch).total = db.total
    BY <1>1, DatabaseFacts DEF WithEarnings, WithBalances, WithContributions, Shape
  <1>5. CASE SearchStep \/ FoundStep \/ LatestStep \/ StartStep
    <2>1. processor' = processor
      BY <1>5 DEF SearchStep, FoundStep, LatestStep, StartStep, AttenderIs, tasks
    <2>2. db'.total = db.total
      BY <1>3, <1>5 DEF SearchStep, FoundStep, LatestStep, StartStep
    <2> QED
      BY <1>2, <2>1, <2>2
  <1>6. CASE CommissionStep \/ CreditStep
    <2>1. processor' = processor
      BY <1>6 DEF CommissionStep, CreditStep, Attended, AttenderIs
    <2>2. db'.total = db.total
      BY <1>4, <1>6 DEF CommissionStep, CreditStep, Attended
    <2> QED
      BY <1>2, <2>1, <2>2
  <1>7. CASE EarningsStep \/ RewardsStep \/ ContributionsStep
    <2>1. processor' = processor \/ processor' = NextBatch
      BY <1>7 DEF EarningsStep, RewardsStep, ContributionsStep, Processed, ProcessorIs
    <2>2. db'.total = db.total
      BY <1>4, <1>7 DEF EarningsStep, RewardsStep, ContributionsStep, Processed
    <2>3. NextBatch.pc = processor.pc /\ NextBatch.msg = processor.msg
      BY <1>1 DEF NextBatch, ProcessorStates
    <2> QED
      BY <2>1, <2>2, <2>3 DEF TotalStep, InHand
  <1>8. CASE PoolStep
    <2>1. processor.pc = "pool" /\ InHand = processor.msg.result.rewards
      BY <1>8 DEF PoolStep, InHand
    <2>2. WithTotal(processor.msg.result.rewards).total = db.total + InHand
      BY <1>1, <2>1, DatabaseFacts DEF WithTotal, Shape
    <2>3. [processor EXCEPT !.pc = "winner"].pc = "winner"
      BY <1>1 DEF ProcessorStates
    <2>4. CASE db' = db /\ processor' = processor
      BY <1>2, <2>4
    <2>5. CASE /\ db' = WithTotal(processor.msg.result.rewards)
               /\ processor' = [processor EXCEPT !.pc = "winner"]
      BY <2>2, <2>3, <2>5 DEF TotalStep, InHand
    <2>6. CASE /\ db' = WithTotal(processor.msg.result.rewards)
               /\ processor' = processor /\ faults'["answer"] > 0
      BY <2>2, <2>6 DEF TotalStep, InHand
    <2> QED
      BY <1>8, <2>4, <2>5, <2>6 DEF PoolStep, ProcessorIs
  <1>9. CASE WinnerStep
    <2>1. processor.pc = "winner" /\ db' = db
      BY <1>9 DEF WinnerStep
    <2>2. processor' = NoProcessor \/ processor'.pc = "challenge"
      <3>1. CASE processor' = NoProcessor
        BY <3>1
      <3>2. CASE \E i : processor' = [processor EXCEPT !.pc = "challenge", !.contribution = i]
        <4>1. PICK i : processor' = [processor EXCEPT !.pc = "challenge", !.contribution = i]
          BY <3>2
        <4> QED
          BY <1>1, <4>1 DEF ProcessorStates
      <3> QED
        BY <1>9, <3>1, <3>2 DEF WinnerStep, ProcessorIs
    <2>3. InHand = 0 /\ InHand' = 0
      BY <2>1, <2>2 DEF InHand, NoProcessor, NoMessage, NoResult
    <2> QED
      BY <2>1, <2>3 DEF TotalStep
  <1>10. CASE ChallengeStep
    <2>1. processor.pc = "challenge" /\ processor' = NoProcessor
      BY <1>10 DEF ChallengeStep, ProcessorIs
    <2>2. InHand = 0 /\ InHand' = 0
      BY <2>1 DEF InHand, NoProcessor, NoMessage, NoResult
    <2>3. db'.total = db.total
      BY <1>1, <1>10, DatabaseFacts DEF ChallengeStep, WithWinner, Shape
    <2> QED
      BY <2>2, <2>3 DEF TotalStep
  <1> QED
    BY <1>5, <1>6, <1>7, <1>8, <1>9, <1>10 DEF CallStep, CrashStep

(* A call moves a reward from what is outstanding to the total. *)
LEMMA BookedCall ==
  ASSUME Shape, Booked, CallStep
  PROVE  Booked'
  <1>1. CASE Die
    BY <1>1 DEF Die, Booked
  <1>2. CASE ~Die
    <2>1. queue' = queue /\ crashed' = crashed /\ rewarded' = rewarded
      BY <1>2, QueueCalls DEF CallStep
    <2>2. attender'.result = attender.result
      <3>1. CASE CommissionEarned
        <4>1. attender \in AttenderStates /\ attender' = At("credit")
          BY <1>2, <3>1 DEF CommissionEarned, AttenderIs, Shape, TypeOK, AttenderStates
        <4> QED
          BY <4>1 DEF At, AttenderStates
      <3>2. CASE ~CommissionEarned
        BY <1>2, <3>2, AttenderCalls DEF AttenderGoesOn
      <3> QED
        BY <3>1, <3>2
    <2>3. Queued' = Queued
      BY <2>1, QueuedSame
    <2>4. PICK a, q, h, total, paid \in Nat :
            /\ a = attender.result.rewards /\ q = Queued /\ h = InHand /\ total = db.total
            /\ paid = SumTo(rewarded, MaxRounds)
      BY OutstandingNat, PaidInTotal, DatabaseFacts DEF Shape, TypeOK
    <2>5. TotalStep
      BY <1>2, TotalCall
    <2>6. PICK f, f2 \in Nat : f = faults["answer"] /\ f2 = faults'["answer"] /\ f <= f2
      <3>1. faults["answer"] \in Nat
        BY BoundsAssumption DEF Shape, TypeOK, FaultKinds
      <3> QED
        BY <3>1, BoundsAssumption DEF CallStep, FaultStep, FaultKinds
    <2>7. PICK h2, total2 :
            /\ h2 = InHand' /\ total2 = db'.total
            /\ \/ total2 = total /\ h2 = h
               \/ total2 = total + h /\ h2 = 0
               \/ total2 = total + h /\ h2 = h /\ f2 > 0
      BY <2>4, <2>5, <2>6 DEF TotalStep
    <2>8. ~crashed => /\ total + (a + q + h) >= paid
                      /\ f = 0 => total + (a + q + h) = paid
      BY <2>4, <2>6 DEF Booked, Outstanding
    <2>9. ~crashed => /\ total2 + (a + q + h2) >= paid
                      /\ f2 = 0 => total2 + (a + q + h2) = paid
      BY <2>4, <2>6, <2>7, <2>8
    <2> QED
      BY <2>1, <2>2, <2>3, <2>4, <2>6, <2>7, <2>9 DEF Booked, Outstanding
  <1> QED
    BY <1>1, <1>2

(* A reward is added to what is outstanding when it is paid. *)
LEMMA BookedLand ==
  ASSUME Shape, Booked, NEW result \in RoundResults, Land(result)
  PROVE  Booked'
  <1>1. db' = db /\ crashed' = crashed /\ faults' = faults
    BY QuietSame
  <1>2. /\ attender.pc = "idle" /\ attender'.result = result
        /\ queue' = queue /\ processor' = processor
        /\ rewarded' = [rewarded EXCEPT ![challenge] = result.rewards]
    BY DEF Land
  <1>3. Queued' = Queued /\ InHand' = InHand
    BY <1>2, QueuedSame DEF InHand
  <1>4. attender.result.rewards = 0
    BY <1>2 DEF Shape, AttenderShape, NoAttender, NoResult
  <1>5. PICK n \in Nat : n = MaxRounds
    BY PaidInTotal
  <1>6. PICK c \in 1..n : c = challenge
    BY <1>5 DEF Shape, TypeOK, Rounds
  <1>7. PICK reward \in Nat : reward = result.rewards
    BY ResultsAssumption DEF RoundResult
  <1>8. PICK f, g : f = rewarded /\ g = rewarded'
    OBVIOUS
  <1>9. SumTo(g, n) = SumTo(f, n) + reward
    <2>1. f \in [1..n -> Nat] /\ g = [f EXCEPT ![c] = reward]
      BY <1>2, <1>5, <1>6, <1>7, <1>8 DEF Shape, TypeOK, Rounds
    <2>2. f[c] = 0
      BY <1>6, <1>8 DEF Shape, OtherShape, TypeOK
    <2>3. Numbers(f, n)
      BY <2>1 DEF Numbers
    <2>4. g[c] = reward /\ \A i \in 1..n : i # c => g[i] = f[i]
      BY <2>1
    <2>5. g[c] \in Int
      BY <2>4
    <2>6. SumTo(g, n) = SumTo(f, n) + (g[c] - f[c])
      BY <2>3, <2>4, <2>5, SumChanged
    <2>7. SumTo(f, n) \in Int
      BY <2>3, SumType
    <2> QED
      BY <2>2, <2>4, <2>6, <2>7
  <1>10. PICK q, h, total, paid \in Nat :
           q = Queued /\ h = InHand /\ total = db.total /\ paid = SumTo(f, n)
    BY <1>5, <1>8, OutstandingNat, PaidInTotal, DatabaseFacts DEF Shape, TypeOK
  <1>11. ~crashed => /\ total + (0 + q + h) >= paid
                     /\ faults["answer"] = 0 => total + (0 + q + h) = paid
    BY <1>4, <1>5, <1>8, <1>10 DEF Booked, Outstanding
  <1>12. ~crashed => /\ total + (reward + q + h) >= paid + reward
                     /\ faults["answer"] = 0 => total + (reward + q + h) = paid + reward
    BY <1>11
  <1> QED
    BY <1>1, <1>2, <1>3, <1>5, <1>7, <1>8, <1>9, <1>10, <1>12 DEF Booked, Outstanding

(* The reward goes from the attender to the channel. *)
LEMMA BookedSend ==
  ASSUME Shape, Booked, SendMineSuccess
  PROVE  Booked'
  <1>1. UNCHANGED <<db, crashed, faults, rewarded, processor>>
    BY DEF SendMineSuccess
  <1>2. InHand' = InHand /\ attender'.result.rewards = 0
    BY <1>1 DEF InHand, SendMineSuccess, NoAttender, NoResult
  <1>3. PICK a, q, h, total, paid \in Nat :
          /\ a = attender.result.rewards /\ q = Queued /\ h = InHand /\ total = db.total
          /\ paid = SumTo(rewarded, MaxRounds)
    BY OutstandingNat, PaidInTotal, DatabaseFacts DEF Shape, TypeOK
  <1>4. Queued' = q + a
    <2> DEFINE message == [id |-> attender.id, challenge |-> attender.old,
                           result |-> attender.result]
               f == [k \in DOMAIN queue |-> queue[k].result.rewards]
               g == [k \in DOMAIN queue' |-> queue'[k].result.rewards]
    <2>1. queue \in Seq(Messages) /\ queue' = Append(queue, message)
      BY DEF SendMineSuccess, Shape, TypeOK
    <2>2. message.result.rewards = a
      BY <1>3
    <2> HIDE DEF message
    <2>3. PICK n \in Nat : n = Len(queue)
      BY <2>1
    <2>4. /\ DOMAIN queue = 1..n /\ DOMAIN queue' = 1..(n + 1) /\ Len(queue') = n + 1
          /\ \A k \in 1..n : queue'[k] = queue[k]
          /\ queue'[n + 1] = message
      BY <2>1, <2>3
    <2>5. \A k \in 1..n : f[k] = g[k]
      BY <2>4
    <2>6. g[n + 1] = a
      BY <2>2, <2>4
    <2>7. Queued = SumTo(f, n) /\ Queued' = SumTo(g, n + 1)
      BY <2>3, <2>4 DEF Queued
    <2> HIDE DEF f, g
    <2>8. SumTo(f, n) = SumTo(g, n)
      BY <2>5, SumSame
    <2>9. SumTo(g, n + 1) = SumTo(g, n) + g[n + 1]
      BY SumNext
    <2> QED
      BY <1>3, <2>6, <2>7, <2>8, <2>9
  <1>5. ~crashed => /\ total + (a + q + h) >= paid
                    /\ faults["answer"] = 0 => total + (a + q + h) = paid
    BY <1>3 DEF Booked, Outstanding
  <1>6. ~crashed => /\ total + (0 + (q + a) + h) >= paid
                    /\ faults["answer"] = 0 => total + (0 + (q + a) + h) = paid
    BY <1>5
  <1> QED
    BY <1>1, <1>2, <1>3, <1>4, <1>6 DEF Booked, Outstanding

(* And from the channel to the processor. *)
LEMMA BookedReceive ==
  ASSUME Shape, Booked, Receive
  PROVE  Booked'
  <1>1. UNCHANGED <<db, crashed, faults, rewarded, attender>>
    BY DEF Receive
  <1>2. /\ queue \in Seq(Messages) /\ queue # <<>> /\ queue' = Tail(queue)
        /\ processor.pc = "idle"
    BY DEF Receive, Shape, TypeOK
  <1>3. PICK a, q, total, paid \in Nat :
          /\ a = attender.result.rewards /\ q = Queued /\ total = db.total
          /\ paid = SumTo(rewarded, MaxRounds)
    BY OutstandingNat, PaidInTotal, DatabaseFacts DEF Shape, TypeOK
  <1>4. PICK n \in Nat : Len(queue) = n + 1
    <2>1. Len(queue) \in Nat /\ Len(queue) # 0
      BY <1>2
    <2>2. Len(queue) - 1 \in Nat /\ (Len(queue) - 1) + 1 = Len(queue)
      BY <2>1
    <2> QED
      BY <2>2
  <1>5. PICK h \in Nat : h = queue[1].result.rewards
    BY <1>2, OutstandingNat
  <1>6. InHand = 0
    BY <1>2 DEF InHand, Shape, ProcessorShape, NoProcessor, NoMessage, NoResult
  <1>7. InHand' = h
    <2> DEFINE next == [NoProcessor EXCEPT !.pc = "earnings", !.msg = Head(queue)]
    <2>1. processor' = next /\ next.pc = "earnings" /\ next.msg = queue[1]
      BY <1>2 DEF Receive, NoProcessor
    <2> QED
      BY <1>5, <2>1 DEF InHand
  <1>8. q = h + Queued' /\ Queued' \in Nat
    <2> DEFINE f == [k \in DOMAIN queue |-> queue[k].result.rewards]
               g == [k \in DOMAIN queue' |-> queue'[k].result.rewards]
    <2>1. /\ DOMAIN queue = 1..(n + 1) /\ DOMAIN queue' = 1..n /\ Len(queue') = n
          /\ \A k \in 1..n : queue'[k] = queue[1 + k]
      BY <1>2, <1>4
    <2>2. \A k \in 1..n : 1 + k \in 1..(n + 1)
      OBVIOUS
    <2>3. /\ \A k \in 1..n : f[1 + k] = g[k]
          /\ \A k \in 1..(n + 1) : f[k] \in Nat
      BY <2>1, <2>2, OutstandingNat
    <2>4. f[1] = h
      BY <1>5, <2>1
    <2>5. Queued = SumTo(f, n + 1) /\ Queued' = SumTo(g, n)
      BY <1>4, <2>1 DEF Queued
    <2> HIDE DEF f, g
    <2>6. \A k \in 1..n : g[k] \in Nat
      BY <2>2, <2>3
    <2>7. SumTo(f, 1 + n) = SumTo(f, 1) + SumTo(g, n)
      <3>1. Continued(f, f, 1, g, n)
        BY <2>3, <2>4, <2>6 DEF Continued, Numbers
      <3> QED
        BY <3>1, SumContinued
    <2>8. SumTo(f, 1) = h
      <3>1. SumTo(f, 0 + 1) = SumTo(f, 0) + f[0 + 1] /\ SumTo(f, 0) = 0
        BY SumNext, SumZero
      <3> QED
        BY <2>4, <3>1
    <2>9. SumTo(g, n) \in Nat
      BY <2>6, SumOfNaturals
    <2>10. 1 + n = n + 1
      OBVIOUS
    <2> QED
      BY <1>3, <2>5, <2>7, <2>8, <2>9, <2>10
  <1>9. ~crashed => /\ total + (a + q + 0) >= paid
                    /\ faults["answer"] = 0 => total + (a + q + 0) = paid
    BY <1>3, <1>6 DEF Booked, Outstanding
  <1>10. ~crashed => /\ total + (a + Queued' + h) >= paid
                     /\ faults["answer"] = 0 => total + (a + Queued' + h) = paid
    <2>1. PICK q2 \in Nat : q2 = Queued' /\ q = h + q2
      BY <1>8
    <2>2. a + q + 0 = a + q2 + h
      BY <2>1
    <2> QED
      BY <1>9, <2>1, <2>2
  <1> QED
    BY <1>1, <1>3, <1>7, <1>10 DEF Booked, Outstanding

LEMMA BookedStep ==
  ASSUME Shape, Booked, [Next]_vars
  PROVE  Booked'
  <1>1. ASSUME UNCHANGED <<db, crashed, faults, rewarded, attender, queue>>, InHand' = InHand
        PROVE  Booked'
    BY <1>1, QueuedSame DEF Booked, Outstanding
  <1>2. CASE UNCHANGED vars \/ LandUnattended
    BY <1>1, <1>2 DEF vars, tasks, LandUnattended, InHand
  <1>3. CASE NextTable
    <2>1. processor'.pc \notin {"winner", "challenge"} /\ processor.pc \notin {"winner", "challenge"}
      <3>1. /\ processor \in ProcessorStates /\ processor.pc \in DOMAIN AfterTable
            /\ processor' = [processor EXCEPT !.pc = AfterTable[@], !.done = 0]
        BY <1>3 DEF NextTable, Shape, TypeOK, ProcessorStates
      <3> QED
        BY <3>1 DEF AfterTable, ProcessorStates
    <2>2. processor'.msg = processor.msg
      BY <1>3, TurnWritten
    <2> QED
      BY <1>1, <1>3, <2>1, <2>2 DEF NextTable, InHand
  <1>4. CASE Next
    BY <1>2, <1>3, <1>4, StepIs, BookedCall, BookedLand, BookedSend, BookedReceive DEF Step, Shape
  <1> QED
    BY <1>2, <1>4

LEMMA BookedInit ==
  ASSUME Init
  PROVE  Booked
  <1>1. /\ db.total = 0 /\ rewarded = [c \in 1..MaxRounds |-> 0]
        /\ attender = NoAttender /\ queue = <<>> /\ processor = NoProcessor
    BY DEF Init
  <1>2. Queued = 0
    BY <1>1, SumZero DEF Queued
  <1>3. Outstanding = 0
    BY <1>1, <1>2 DEF Outstanding, InHand, NoAttender, NoProcessor, NoMessage, NoResult
  <1>4. SumTo(rewarded, MaxRounds) = 0
    BY <1>1, BoundsAssumption, SumOfZeros
  <1> QED
    BY <1>1, <1>3, <1>4 DEF Booked

(* Once every round is settled by a process that never died, each balance is  *)
(* what the miner earned, and the pool's total is what it was paid; each lost *)
(* answer can at most have counted a reward once more.                        *)
THEOREM BooksBalanceCorrect == Spec => []BooksBalance
  <1>1. Init => Shape /\ Owed /\ Booked
    BY ShapeInit, OwedInit, BookedInit
  <1>2. Shape /\ Owed /\ Booked /\ [Next]_vars => (Shape /\ Owed /\ Booked)'
    BY ShapeStep, OwedStep, BookedStep
  <1>3. Shape /\ Owed /\ Booked => BooksBalance
    <2> SUFFICES ASSUME Shape, Owed, Booked, Settled, ~crashed
                 PROVE  /\ \A i \in DOMAIN db.rewards :
                             db.rewards[i].balance = Earned(db.rewards[i].miner)
                        /\ db.total >= SumTo(rewarded, MaxRounds)
                        /\ faults["answer"] = 0 => db.total = SumTo(rewarded, MaxRounds)
      BY DEF BooksBalance
    <2>1. attender.pc = "idle" /\ queue = <<>> /\ processor.pc = "idle"
      BY DEF Settled
    <2>2. \A i \in DOMAIN db.rewards : db.rewards[i].balance = Earned(db.rewards[i].miner)
      <3> SUFFICES ASSUME NEW i \in DOMAIN db.rewards
                   PROVE  db.rewards[i].balance = Earned(db.rewards[i].miner)
        OBVIOUS
      <3>1. PICK m : m = db.rewards[i].miner
        OBVIOUS
      <3>2. CommissionDue(m) = 0 /\ ShareDue(m) = 0
        BY <2>1, DueNat DEF CommissionDue
      <3>3. db.rewards[i].balance \in Nat
        BY DatabaseFacts DEF Shape, TypeOK, BalanceRow
      <3>4. db.rewards[i].balance + CommissionDue(m) + ShareDue(m) = Earned(m)
        BY <3>1 DEF Owed
      <3> QED
        BY <3>1, <3>2, <3>3, <3>4
    <2>3. Outstanding = 0
      <3>1. Queued = 0
        BY <2>1, SumZero DEF Queued
      <3> QED
        BY <2>1, <3>1 DEF Outstanding, InHand, Shape, AttenderShape, ProcessorShape, NoAttender,
                          NoProcessor, NoMessage, NoResult
    <2>4. db.total \in Nat
      BY DatabaseFacts DEF Shape, TypeOK
    <2> QED
      BY <2>2, <2>3, <2>4 DEF Booked
  <1> QED
    BY <1>1, <1>2, <1>3, PTL DEF Spec

-----------------------------------------------------------------------------
(* The winner                                                              *)

(* No row of contributions is changed or lost, nor its round. *)
LEMMA ContributionsStay ==
  ASSUME Shape, CallStep, NEW i \in DOMAIN db.contributions
  PROVE  /\ i \in DOMAIN db'.contributions /\ db'.contributions[i] = db.contributions[i]
         /\ db.contributions[i].challenge \in DOMAIN db.challenges
         /\ db'.challenges[db.contributions[i].challenge].challenge = RoundOf(db.contributions[i])
  <1>1. DatabaseKept
    BY CallDatabase
  <1>2. i \in DOMAIN db'.contributions /\ db'.contributions[i] = db.contributions[i]
    <2>1. CASE db'.contributions = db.contributions
      BY <2>1
    <2>2. CASE BatchContributed
      <3>1. PICK n, b, done \in Nat : ContributionsBatch(n, b, done)
        BY <2>2, BatchContributedRows
      <3> QED
        BY <3>1 DEF ContributionsBatch
    <2> QED
      BY <2>1, <2>2, TablesChange
  <1> QED
    BY <1>1, <1>2 DEF Shape, RowsAreOfChallenges, DatabaseKept, ChallengesKept, RoundOf

(* Only the processor names a winner, and of its message's challenge. *)
LEMMA WinnersChange ==
  ASSUME Shape, CallStep, NEW i \in DOMAIN db'.challenges
  PROVE  \/ db'.challenges[i].contribution = 0
         \/ /\ i \in DOMAIN db.challenges
            /\ db'.challenges[i].challenge = db.challenges[i].challenge
            /\ \/ db'.challenges[i].contribution = db.challenges[i].contribution
               \/ /\ ChallengeStep
                  /\ db'.challenges[i].contribution = processor.contribution
                  /\ db.challenges[i].challenge = processor.msg.challenge
  <1>1. db \in Database /\ RowsAreOfChallenges
    BY DEF Shape, TypeOK
  <1>2. CASE db'.challenges = db.challenges
    BY <1>2
  <1>3. ASSUME NEW c, Grown(c)
        PROVE  \/ db'.challenges[i].contribution = 0
               \/ /\ i \in DOMAIN db.challenges
                  /\ db'.challenges[i] = db.challenges[i]
    <2>1. CASE db' = db
      BY <2>1
    <2>2. CASE db' = WithChallenge(c)
      <3>1. PICK s \in Seq(ChallengeRow) : s = db.challenges
        BY <1>1, DatabaseFacts
      <3> DEFINE row == [id |-> Len(s) + 1, challenge |-> c, contribution |-> 0, rewards |-> 0]
      <3>2. db'.challenges = Append(s, row) /\ row.contribution = 0
        BY <1>1, <2>2, <3>1, DatabaseFacts DEF WithChallenge
      <3> HIDE DEF row
      <3>3. \/ i \in DOMAIN s /\ db'.challenges[i] = s[i]
            \/ db'.challenges[i] = row
        BY <3>1, <3>2
      <3> QED
        BY <3>1, <3>2, <3>3
    <2> QED
      BY <1>3, <2>1, <2>2 DEF Grown
  <1>4. CASE SearchStep \/ FoundStep \/ LatestStep \/ StartStep
    BY <1>2, <1>3, <1>4 DEF SearchStep, FoundStep, LatestStep, StartStep
  <1>5. ASSUME NEW batch
        PROVE  /\ WithEarnings(batch).challenges = db.challenges
               /\ WithBalances(batch).challenges = db.challenges
               /\ WithContributions(batch).challenges = db.challenges
               /\ WithTotal(batch).challenges = db.challenges
    BY <1>1, DatabaseFacts DEF WithEarnings, WithBalances, WithContributions, WithTotal
  <1>6. CASE ChallengeStep
    <2>1. CASE db' = db
      BY <1>2, <2>1
    <2>2. CASE db' = WithWinner(processor.msg.challenge, processor.contribution,
                                processor.msg.result.rewards)
      <3>1. /\ processor.pc = "challenge" /\ processor.contribution \in DOMAIN db.contributions
            /\ processor.msg.result.rewards \in Nat
        BY <1>6, ContributionsTyped DEF ChallengeStep, Shape, ProcessorShape
      <3>2. PICK c, contribution, rewards :
              /\ c = processor.msg.challenge /\ contribution = processor.contribution
              /\ rewards = processor.msg.result.rewards
        OBVIOUS
      <3>3. /\ DOMAIN db'.challenges = DOMAIN db.challenges
            /\ DatabaseKept
            /\ \A k \in DOMAIN db.challenges :
                 /\ db.challenges[k].challenge = c => db'.challenges[k].contribution = contribution
                 /\ db.challenges[k].challenge # c => db'.challenges[k] = db.challenges[k]
        <4>1. db' = WithWinner(c, contribution, rewards)
          BY <2>2, <3>2
        <4>2. contribution \in DOMAIN db.contributions /\ rewards \in Nat
          BY <3>1, <3>2
        <4> QED
          BY <1>1, <4>1, <4>2, WinnerSet
      <3> QED
        BY <1>6, <3>1, <3>2, <3>3 DEF DatabaseKept, ChallengesKept
    <2> QED
      BY <1>6, <2>1, <2>2 DEF ChallengeStep
  <1> QED
    BY <1>2, <1>4, <1>5, <1>6
       DEF CallStep, CommissionStep, CreditStep, EarningsStep, RewardsStep, ContributionsStep,
           PoolStep, WinnerStep, CrashStep, Attended, Processed

(* A round that is over stays so in a call. *)
LEMMA ClosedCall ==
  ASSUME Shape, CallStep, NEW r, Closed(r)
  PROVE  Closed(r)'
  <1>1. challenge' = challenge
    BY DEF CallStep
  <1>2. CASE Die
    BY <1>1, <1>2 DEF Die, NoAttender, NoProcessor, Closed
  <1>3. CASE ~Die
    <2>1. queue' = queue
      BY <1>3, QueueCalls
    <2>2. attender'.pc # "idle" => attender.pc # "idle" /\ attender'.old = attender.old
      <3>1. CASE AttenderGoesOn
        BY <3>1 DEF AttenderGoesOn
      <3>2. CASE CommissionEarned
        <4>1. attender \in AttenderStates
          BY DEF Shape, TypeOK, AttenderStates
        <4>2. attender.pc = "commission" /\ attender' = At("credit")
          BY <1>3, <3>2 DEF CommissionEarned, AttenderIs
        <4> QED
          BY <4>1, <4>2 DEF At, AttenderStates
      <3> QED
        BY <1>3, <3>1, <3>2, AttenderCalls
    <2>3. processor'.pc # "idle" => processor.pc # "idle" /\ processor'.msg = processor.msg
      <3>1. CASE BatchContributed /\ processor' = NextBatch
        <4>1. processor.pc = "contributions" /\ Unwritten
          BY <3>1 DEF BatchContributed
        <4> QED
          BY <3>1, <4>1, BatchWritten DEF AfterTable
      <3>2. CASE ProcessorGoesOn(ContributionsWritten)
        BY <3>2 DEF ProcessorGoesOn, NoProcessor
      <3> QED
        BY <1>3, <3>1, <3>2, TableCallsWrite
    <2> QED
      BY <1>1, <2>1, <2>2, <2>3 DEF Closed
  <1> QED
    BY <1>2, <1>3

(* A round that is over stays so without a call. *)
LEMMA ClosedQuiet ==
  ASSUME Shape, NEW r, Closed(r),
         \/ \E result \in RoundResults : Land(result)
         \/ LandUnattended \/ SendMineSuccess \/ Receive \/ NextTable
  PROVE  Closed(r)'
  <1>1. challenge \in Nat /\ challenge' \in Nat /\ challenge' >= challenge
    BY QuietSame DEF Rounds
  <1>2. r \in 1..(challenge - 1) /\ r \in 1..(challenge' - 1)
    BY <1>1 DEF Closed
  <1>3. queue \in Seq(Messages)
    BY DEF Shape, TypeOK
  <1>4. CASE \E result \in RoundResults : Land(result)
    <2>1. attender'.old = challenge /\ queue' = queue /\ processor' = processor
      BY <1>4 DEF Land
    <2>2. r # challenge
      BY <1>1, <1>2
    <2> QED
      BY <1>2, <2>1, <2>2 DEF Closed
  <1>5. CASE LandUnattended
    BY <1>2, <1>5 DEF LandUnattended, tasks, Closed
  <1>6. CASE SendMineSuccess
    <2> DEFINE message == [id |-> attender.id, challenge |-> attender.old,
                           result |-> attender.result]
    <2>1. /\ attender.pc = "send" /\ attender' = NoAttender /\ queue' = Append(queue, message)
          /\ processor' = processor
      BY <1>6 DEF SendMineSuccess
    <2>2. r # message.challenge
      BY <2>1 DEF Closed
    <2> HIDE DEF message
    <2>3. \A k \in DOMAIN queue' : k \in DOMAIN queue \/ queue'[k] = message
      BY <1>3, <2>1
    <2>4. \A k \in DOMAIN queue : k \in DOMAIN queue' => queue'[k] = queue[k]
      BY <1>3, <2>1
    <2>5. \A k \in DOMAIN queue' : r # queue'[k].challenge
      BY <2>2, <2>3, <2>4 DEF Closed
    <2> QED
      BY <1>2, <2>1, <2>5 DEF Closed, NoAttender
  <1>7. CASE Receive
    <2> DEFINE next == [NoProcessor EXCEPT !.pc = "earnings", !.msg = Head(queue)]
    <2>1. /\ attender' = attender /\ queue' = Tail(queue) /\ queue # <<>> /\ processor' = next
      BY <1>7 DEF Receive
    <2>2. \A k \in DOMAIN queue' : k + 1 \in DOMAIN queue /\ queue'[k] = queue[k + 1]
      BY <1>3, <2>1
    <2>3. 1 \in DOMAIN queue /\ Head(queue) = queue[1] /\ next.msg = Head(queue)
      BY <1>3, <2>1 DEF NoProcessor
    <2>4. r # processor'.msg.challenge
      BY <2>1, <2>3 DEF Closed
    <2> QED
      BY <1>2, <2>1, <2>2, <2>4 DEF Closed
  <1>8. CASE NextTable
    BY <1>2, <1>8, TurnWritten DEF NextTable, Closed
  <1> QED
    BY <1>4, <1>5, <1>6, <1>7, <1>8

(* Nothing is recorded after a winner: the processor's round is over then. *)
LEMMA ClosedNow ==
  ASSUME Shape, CallStep, ChallengeStep
  PROVE  \A c : c = processor.msg.challenge => Closed(c)'
  <1> SUFFICES ASSUME NEW c, c = processor.msg.challenge
               PROVE  Closed(c)'
    OBVIOUS
  <1>1. /\ processor' = NoProcessor /\ attender' = attender /\ queue' = queue
        /\ challenge' = challenge /\ processor.pc = "challenge"
    BY DEF CallStep, ChallengeStep, ProcessorIs
  <1>2. /\ c \in 1..(challenge - 1)
        /\ attender.pc # "idle" => c < attender.old
        /\ \A k \in DOMAIN queue : c < queue[k].challenge
    BY <1>1 DEF Shape, ProcessorShape, IsRound
  <1>3. /\ attender.old \in Nat
        /\ \A k \in DOMAIN queue : queue[k].challenge \in Nat
    <2>1. queue \in Seq(Messages) /\ attender.old \in Nat
      BY BoundsAssumption DEF Shape, TypeOK
    <2>2. \A k \in DOMAIN queue : queue[k] \in Messages
      BY <2>1, ElementOfSeq
    <2> QED
      BY <2>1, <2>2, BoundsAssumption DEF Messages
  <1>4. /\ attender.pc # "idle" => c # attender.old
        /\ \A k \in DOMAIN queue : c # queue[k].challenge
    BY <1>2, <1>3
  <1> QED
    BY <1>1, <1>2, <1>4 DEF Closed, NoProcessor

(* A new row of contributions is of the processor's round. *)
LEMMA ContributionIsNew ==
  ASSUME Shape, CallStep, NEW j \in DOMAIN db'.contributions
  PROVE  \/ j \in DOMAIN db.contributions
         \/ /\ processor.pc = "contributions"
            /\ db'.challenges[db'.contributions[j].challenge].challenge = processor.msg.challenge
  <1>1. CASE db'.contributions = db.contributions
    BY <1>1
  <1>2. CASE BatchContributed
    <2>1. PICK n, b, done \in Nat : ContributionsBatch(n, b, done)
      BY <1>2, BatchContributedRows
    <2>2. CASE j \in 1..n
      BY <2>1, <2>2 DEF ContributionsBatch
    <2>3. CASE j \notin 1..n
      <3>1. PICK k \in 1..b : j = n + k
        <4>1. j \in 1..(n + b)
          BY <2>1 DEF ContributionsBatch
        <4>2. j - n \in 1..b /\ j = n + (j - n)
          BY <2>3, <4>1
        <4> QED
          BY <4>2
      <3>2. db'.contributions[j].challenge = processor.msg.id
        BY <2>1, <3>1 DEF ContributionsBatch
      <3>3. db'.challenges[processor.msg.id].challenge = processor.msg.challenge
        BY <2>1 DEF ContributionsBatch
      <3> QED
        BY <1>2, <3>2, <3>3 DEF BatchContributed
    <2> QED
      BY <2>2, <2>3
  <1> QED
    BY <1>1, <1>2, TablesChange

(* What is the winner of a round that gets no more contributions remains it. *)
LEMMA IsOfRoundCall ==
  ASSUME Shape, CallStep, NEW k \in DOMAIN db.contributions, NEW c, IsOfRound(k, c),
         processor.pc = "contributions" => c # processor.msg.challenge
  PROVE  IsOfRound(k, c)'
  <1> SUFFICES ASSUME NEW j \in DOMAIN db'.contributions,
                      db'.contributions[j].nonce = db'.contributions[k].nonce,
                      db'.challenges[db'.contributions[j].challenge].challenge = c
               PROVE  db'.challenges[db'.contributions[k].challenge].challenge = c
    BY DEF IsOfRound, RoundOf
  <1>1. j \in DOMAIN db.contributions
    BY ContributionIsNew
  <1>2. /\ db'.contributions[j] = db.contributions[j]
        /\ db'.challenges[db.contributions[j].challenge].challenge = RoundOf(db.contributions[j])
    BY <1>1, ContributionsStay
  <1>3. /\ db'.contributions[k] = db.contributions[k]
        /\ db'.challenges[db.contributions[k].challenge].challenge = RoundOf(db.contributions[k])
    BY ContributionsStay
  <1> QED
    BY <1>1, <1>2, <1>3 DEF IsOfRound

(* The one contribution with the nonce is of the round, if any of the round is. *)
LEMMA WinnerCall ==
  ASSUME Shape, Named, CallStep, processor'.pc = "challenge"
  PROVE  /\ processor'.contribution \in DOMAIN db.contributions
         /\ IsOfRound(processor'.contribution, processor'.msg.challenge)
         /\ processor.pc \in {"winner", "challenge"}
  <1>1. processor \in ProcessorStates
    BY DEF Shape, TypeOK, ProcessorStates
  <1>2. CASE processor' = processor
    BY <1>2 DEF Named, Shape, ProcessorShape
  <1>3. CASE Die
    BY <1>3 DEF Die, NoProcessor
  <1>4. CASE EarningsStep \/ RewardsStep \/ ContributionsStep
    <2>1. NextBatch.pc = processor.pc
      BY <1>1 DEF NextBatch, ProcessorStates
    <2>2. processor.pc \in {"earnings", "rewards", "contributions"}
      BY <1>4 DEF EarningsStep, RewardsStep, ContributionsStep
    <2>3. processor' = processor \/ processor' = NextBatch \/ Die
      BY <1>4 DEF EarningsStep, RewardsStep, ContributionsStep, Processed, ProcessorIs
    <2> QED
      BY <1>3, <2>1, <2>2, <2>3
  <1>5. CASE PoolStep
    <2>1. [processor EXCEPT !.pc = "winner"].pc = "winner" /\ processor.pc = "pool"
      BY <1>1, <1>5 DEF ProcessorStates, PoolStep
    <2> QED
      BY <1>5, <2>1 DEF PoolStep, ProcessorIs
  <1>6. CASE WinnerStep
    <2>1. PICK i \in DOMAIN db.contributions :
            /\ db.contributions[i].nonce = processor.msg.result.best_nonce
            /\ \A j \in DOMAIN db.contributions :
                 db.contributions[j].nonce = processor.msg.result.best_nonce => j = i
            /\ processor' = [processor EXCEPT !.pc = "challenge", !.contribution = i]
      <3>1. processor' # NoProcessor
        BY DEF NoProcessor
      <3> QED
        BY <1>6, <3>1 DEF WinnerStep, ProcessorIs
    <2>2. processor.pc = "winner"
      BY <1>6 DEF WinnerStep
    <2>3. processor'.contribution = i /\ processor'.msg = processor.msg
      BY <1>1, <2>1 DEF ProcessorStates
    <2>4. \A c : IsOfRound(i, c)
      BY <2>1 DEF IsOfRound
    <2> QED
      BY <2>2, <2>3, <2>4
  <1>7. CASE ChallengeStep
    BY <1>7 DEF ChallengeStep, ProcessorIs, NoProcessor
  <1> QED
    BY <1>2, <1>3, <1>4, <1>5, <1>6, <1>7
       DEF CallStep, SearchStep, FoundStep, LatestStep, CommissionStep, CreditStep, CrashStep,
           StartStep, Attended, AttenderIs, tasks

(* A call names the winner of a round that is over with it. *)
LEMMA NamedCall ==
  ASSUME Shape, Named, CallStep
  PROVE  Named'
  <1>1. ASSUME processor'.pc = "challenge"
        PROVE  IsOfRound(processor.contribution, processor.msg.challenge)'
    <2>1. PICK k, c : k = processor'.contribution /\ c = processor'.msg.challenge
      OBVIOUS
    <2>2. /\ k \in DOMAIN db.contributions /\ IsOfRound(k, c)
          /\ processor.pc \in {"winner", "challenge"}
      BY <1>1, <2>1, WinnerCall
    <2>3. IsOfRound(k, c)'
      BY <2>2, IsOfRoundCall
    <2> QED
      BY <2>1, <2>3 DEF IsOfRound, RoundOf
  <1>2. ASSUME NEW i \in DOMAIN db'.challenges, db'.challenges[i].contribution # 0
        PROVE  \E k, c : /\ k = db'.challenges[i].contribution /\ c = db'.challenges[i].challenge
                         /\ Closed(c)' /\ IsOfRound(k, c)'
    <2>1. /\ i \in DOMAIN db.challenges
          /\ db'.challenges[i].challenge = db.challenges[i].challenge
          /\ \/ db'.challenges[i].contribution = db.challenges[i].contribution
             \/ /\ ChallengeStep
                /\ db'.challenges[i].contribution = processor.contribution
                /\ db.challenges[i].challenge = processor.msg.challenge
      BY <1>2, WinnersChange
    <2>2. PICK k, c : k = db'.challenges[i].contribution /\ c = db'.challenges[i].challenge
      OBVIOUS
    <2>3. CASE k = db.challenges[i].contribution
      <3>1. Closed(c) /\ IsOfRound(k, c) /\ k \in DOMAIN db.contributions
        BY <1>2, <2>1, <2>2, <2>3 DEF Named, Shape, RowsAreOfChallenges
      <3>2. processor.pc = "contributions" => c # processor.msg.challenge
        BY <3>1 DEF Closed
      <3> QED
        BY <2>2, <3>1, <3>2, ClosedCall, IsOfRoundCall
    <2>4. CASE k # db.challenges[i].contribution
      <3>1. /\ ChallengeStep /\ processor.pc = "challenge"
            /\ k = processor.contribution /\ c = processor.msg.challenge
        BY <2>1, <2>2, <2>4 DEF ChallengeStep
      <3>2. IsOfRound(k, c) /\ k \in DOMAIN db.contributions
        BY <3>1 DEF Named, Shape, ProcessorShape
      <3>3. IsOfRound(k, c)'
        BY <3>1, <3>2, IsOfRoundCall
      <3> QED
        BY <2>2, <3>1, <3>3, ClosedNow
    <2> QED
      BY <2>3, <2>4
  <1> QED
    BY <1>1, <1>2 DEF Named, Closed, IsOfRound, RoundOf

LEMMA NamedStep ==
  ASSUME Shape, Named, [Next]_vars
  PROVE  Named'
  <1>1. ASSUME db' = db, processor'.pc = "challenge" => processor' = processor,
               \A r : Closed(r) => Closed(r)'
        PROVE  Named'
    <2>1. processor'.pc = "challenge" => IsOfRound(processor.contribution, processor.msg.challenge)'
      BY <1>1 DEF Named, IsOfRound, RoundOf
    <2>2. ASSUME NEW i \in DOMAIN db'.challenges, db'.challenges[i].contribution # 0
          PROVE  \E k, c : /\ k = db'.challenges[i].contribution /\ c = db'.challenges[i].challenge
                           /\ Closed(c)' /\ IsOfRound(k, c)'
      <3>1. PICK k, c : k = db.challenges[i].contribution /\ c = db.challenges[i].challenge
        OBVIOUS
      <3>2. Closed(c) /\ IsOfRound(k, c)
        BY <1>1, <2>2, <3>1 DEF Named
      <3>3. IsOfRound(k, c)'
        BY <1>1, <3>2 DEF IsOfRound, RoundOf
      <3> QED
        BY <1>1, <3>1, <3>2, <3>3
    <2> QED
      BY <2>1, <2>2 DEF Named, Closed, IsOfRound, RoundOf
  <1>2. CASE UNCHANGED vars
    <2>1. \A r : Closed(r) => Closed(r)'
      BY <1>2 DEF vars, tasks, Closed
    <2> QED
      BY <1>1, <1>2, <2>1 DEF vars, tasks
  <1>3. CASE \/ \E result \in RoundResults : Land(result)
             \/ LandUnattended \/ SendMineSuccess \/ Receive \/ NextTable
    <2>1. db' = db
      BY <1>3, QuietSame
    <2>2. \A r : Closed(r) => Closed(r)'
      BY <1>3, ClosedQuiet
    <2>3. processor'.pc = "challenge" => processor' = processor
      <3>1. CASE Receive
        BY <3>1 DEF Receive, NoProcessor
      <3>2. CASE NextTable
        <4>1. /\ processor \in ProcessorStates /\ processor.pc \in DOMAIN AfterTable
              /\ processor' = [processor EXCEPT !.pc = AfterTable[@], !.done = 0]
          BY <3>2 DEF NextTable, Shape, TypeOK, ProcessorStates
        <4> QED
          BY <4>1 DEF AfterTable, ProcessorStates
      <3> QED
        BY <1>3, <3>1, <3>2 DEF Land, LandUnattended, SendMineSuccess, tasks
    <2> QED
      BY <1>1, <2>1, <2>2, <2>3
  <1>4. CASE CallStep
    BY <1>4, NamedCall
  <1> QED
    BY <1>2, <1>3, <1>4, StepIs DEF Step, Shape

LEMMA NamedInit ==
  ASSUME Init
  PROVE  Named
  <1>1. db.challenges = <<>> /\ processor = NoProcessor
    BY DEF Init
  <1> QED
    BY <1>1 DEF Named, NoProcessor

(* A winner is looked up by its nonce, and nonces start again every round: a *)
(* challenge names the contribution of another round as its winner only when *)
(* the frozen contributions of its own round lack the nonce that was sent.   *)
THEOREM WinnerCorrect == Spec => []WinnerIsOfRound
  <1>1. Init => Shape /\ Named
    BY ShapeInit, NamedInit
  <1>2. Shape /\ Named /\ [Next]_vars => (Shape /\ Named)'
    BY ShapeStep, NamedStep
  <1>3. Named => WinnerIsOfRound
    BY DEF Named, WinnerIsOfRound
  <1> QED
    BY <1>1, <1>2, <1>3, PTL DEF Spec

=============================================================================
