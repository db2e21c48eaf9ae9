------------------------------- MODULE Claims -------------------------------
(***************************************************************************)
(* Paying out rewards: post_claim puts a miner's request into claims_queue, *)
(* and claim_processor pays the queue one by one and records the payments.  *)
(*                                                                         *)
(* Every handler of a request and the processor are cut at their awaits.   *)
(* A claim has the number of claims accepted so far as its identity, and a *)
(* transaction is known by its signature, its index in txs. The amount of a *)
(* claim is at least MIN_CLAIM_AMOUNT_EXISTS_ATA; what of it opens the      *)
(* receiver's token account is not told apart from what reaches it. A write *)
(* to the database that fails is repeated: without effect, so that only its *)
(* repetition is a step, or after it was executed and its answer was lost.  *)
(* A definition whose name ends in Bug is a faulty variant of the one that  *)
(* follows it, for mutation testing.                                        *)
(***************************************************************************)
EXTENDS Integers, Sequences, Sums

CONSTANTS
  Miners,      \* miners enrolled in the database
  Requests,    \* handlers of POST /v2/claim
  Miner,       \* Miner[r]: the miner that request r is signed by
  Amounts,     \* amounts a miner may ask for
  InitialBalance,
  None,        \* no entry in claims_queue
  Faults,      \* which of FaultKinds may happen
  MaxRequests, \* bound: requests received
  MaxTxs,      \* bound: transactions signed
  MaxRestarts, \* bound: restarts of the server
  MaxCredits,  \* bound: rounds settled meanwhile
  MaxLost      \* bound: writes whose answer is lost

(* A call to the RPC that is not answered, a failed read of the database, a    *)
(* transaction that is executed with an error, one that is never executed,     *)
(* status polls that all fail for as long as a transaction is confirmed but    *)
(* not finalized, a write that the database executes with its answer lost, a   *)
(* restart.                                                                    *)
FaultKinds == {"rpc", "read", "failure", "drop", "outage", "answer", "restart"}

ASSUME MinerAssumption == Miner \in [Requests -> Miners]
ASSUME AmountAssumption == Amounts \subseteq Nat \ {0} /\ InitialBalance \in Nat
ASSUME BoundsAssumption ==
  /\ MaxRequests \in Nat /\ MaxTxs \in Nat /\ MaxRestarts \in Nat /\ MaxCredits \in Nat
  /\ MaxLost \in Nat
ASSUME FaultsAssumption == Faults \subseteq FaultKinds

Claim == [id: Nat \ {0}, amount: Amounts]
ASSUME NoneAssumption == None \notin Claim

VARIABLES
  \* The database: rewards.balance, pools.claimed_rewards, how many rows of
  \* transactions and of claims there are for a signature, and whether a miner's
  \* last claim is at most 1800 seconds old.
  balance, poolClaimed, transactions, claims, recent,
  \* The chain: every transaction signed by the processor.
  txs,
  \* The server: claims_queue, the handlers, the processor.
  queue, request, proc,
  \* What the miners earned, the claims accepted, and counts for the bounds.
  earned, accepted, received, restarts,
  \* The miners that had two requests at a time; how many answers of writes were
  \* lost, and what was deducted from each miner, and added to the pool's claimed
  \* rewards, by those writes.
  overlapped, lost, deductedUnheard, claimedUnheard

dbVars == <<balance, poolClaimed, transactions, claims, recent>>
counts == <<earned, accepted, received, restarts>>
unheard == <<lost, deductedUnheard, claimedUnheard>>
history == <<counts, overlapped, unheard>>
vars == <<dbVars, txs, queue, request, proc, history>>

EmptyQueue == [m \in Miners |-> None]
NoRequest == [pc |-> "idle", amount |-> 0]
NoRows == [t \in 1..MaxTxs |-> 0]
NoProc == [pc |-> "idle", m |-> None, item |-> None, tx |-> 0]

-----------------------------------------------------------------------------
(* post_claim. A request that fails a check is answered with an error.     *)

Receive(r, amount) ==
  /\ request[r].pc = "idle"
  /\ received < MaxRequests
  /\ received' = received + 1
  /\ request' = [request EXCEPT ![r] = [pc |-> "queue", amount |-> amount]]
  /\ overlapped' = IF \E s \in Requests : Miner[s] = Miner[r] /\ request[s].pc # "idle"
                     THEN overlapped \cup {Miner[r]} ELSE overlapped
  /\ UNCHANGED <<dbVars, txs, queue, proc, earned, accepted, restarts, unheard>>

Answer(r, ok, next) ==
  request' = [request EXCEPT ![r] = IF ok THEN [@ EXCEPT !.pc = next] ELSE NoRequest]

CheckQueueBug(r) ==
  /\ request[r].pc = "queue"
  /\ Answer(r, TRUE, "balance")
  /\ UNCHANGED <<dbVars, txs, queue, proc, history>>

(* "QUEUED": one claim of a miner at a time. *)
CheckQueue(r) ==
  /\ request[r].pc = "queue"
  /\ Answer(r, queue[Miner[r]] = None, "balance")
  /\ UNCHANGED <<dbVars, txs, queue, proc, history>>

(* A negative balance, read as a u64, is more than any amount. *)
Covered(m, amount) == balance[m] < 0 \/ amount <= balance[m]

CheckBalance(r) ==
  /\ request[r].pc = "balance"
  /\ \/ Answer(r, Covered(Miner[r], request[r].amount), "last")
     \/ "read" \in Faults /\ Answer(r, FALSE, "last")
  /\ UNCHANGED <<dbVars, txs, queue, proc, history>>

(* A read that fails counts as no claim so far. *)
CheckLast(r) ==
  /\ request[r].pc = "last"
  /\ \/ Answer(r, ~recent[Miner[r]], "insert")
     \/ "read" \in Faults /\ Answer(r, TRUE, "insert")
  /\ UNCHANGED <<dbVars, txs, queue, proc, history>>

(* "SUCCESS": the claim replaces what is in the queue for the miner. *)
Insert(r) ==
  /\ request[r].pc = "insert"
  /\ accepted' = accepted + 1
  /\ queue' = [queue EXCEPT ![Miner[r]] = [id |-> accepted + 1, amount |-> request[r].amount]]
  /\ Answer(r, FALSE, "idle")
  /\ UNCHANGED <<dbVars, txs, proc, earned, received, restarts, overlapped, unheard>>

-----------------------------------------------------------------------------
(* claim_processor: paying.                                                *)

Processor(next) == proc' = [proc EXCEPT !.pc = next]

Pick(m) ==
  /\ proc.pc = "idle"
  /\ queue[m] # None
  /\ proc' = [pc |-> "sign", m |-> m, item |-> queue[m], tx |-> 0]
  /\ UNCHANGED <<dbVars, txs, queue, request, history>>

Payment == [m |-> proc.m, claim |-> proc.item.id, amount |-> proc.item.amount,
            status |-> "signed", ok |-> TRUE]

SignBug ==
  /\ proc.pc = "sign"
  /\ Len(txs) < MaxTxs
  /\ txs' = Append(txs, Payment)
  /\ proc' = [proc EXCEPT !.pc = "send", !.tx = Len(txs)]
  /\ UNCHANGED <<dbVars, queue, request, history>>

(* Without a blockhash the processor starts over after ten seconds. *)
Sign ==
  /\ proc.pc = "sign"
  /\ \/ /\ Len(txs) < MaxTxs
        /\ txs' = Append(txs, Payment)
        /\ proc' = [proc EXCEPT !.pc = "send", !.tx = Len(txs) + 1]
     \/ /\ "rpc" \in Faults
        /\ proc' = NoProc
        /\ UNCHANGED txs
  /\ UNCHANGED <<dbVars, queue, request, history>>

(* The same transaction is sent until the RPC accepts it, which it does not *)
(* once the transaction was executed or its blockhash has expired. Without  *)
(* an answer it is sent again, and may be on its way already.               *)
Send ==
  /\ proc.pc = "send"
  /\ txs[proc.tx].status \in {"signed", "pending"}
  /\ txs' = [txs EXCEPT ![proc.tx].status = "pending"]
  /\ \/ Processor("poll")
     \/ "rpc" \in Faults /\ txs[proc.tx].status = "signed" /\ UNCHANGED proc
  /\ UNCHANGED <<dbVars, queue, request, history>>

PollConfirmedBug ==
  /\ proc.pc = "poll"
  /\ txs[proc.tx].status = "confirmed"
  /\ Processor("deduct")
  /\ UNCHANGED <<dbVars, txs, queue, request, history>>

(* Of the statuses only Confirmed is an answer. After an error the claim is *)
(* still in the queue.                                                      *)
PollConfirmed ==
  /\ proc.pc = "poll"
  /\ txs[proc.tx].status = "confirmed"
  /\ IF txs[proc.tx].ok THEN Processor("deduct") ELSE proc' = NoProc
  /\ UNCHANGED <<dbVars, txs, queue, request, history>>

(* "Transaction Expired", after 200 seconds. By then a transaction cannot be *)
(* executed any more, and one that was executed is finalized.                *)
PollExpired ==
  /\ proc.pc = "poll"
  /\ txs[proc.tx].status \in {"dropped", "finalized"}
  /\ Processor("expired")
  /\ UNCHANGED <<dbVars, txs, queue, request, history>>

GiveUpBug ==
  /\ proc.pc = "expired"
  /\ proc' = NoProc
  /\ queue' = [queue EXCEPT ![proc.m] = None]
  /\ UNCHANGED <<dbVars, txs, request, history>>

GiveUp ==
  /\ proc.pc = "expired"
  /\ proc' = NoProc
  /\ UNCHANGED <<dbVars, txs, queue, request, history>>

-----------------------------------------------------------------------------
(* claim_processor: recording, each write repeated until it succeeds.      *)

(* Rows that were added stay, and so do updates, when the answer is lost. *)
Answered(next) == Processor(next) /\ UNCHANGED lost
Unanswered == "answer" \in Faults /\ lost < MaxLost /\ lost' = lost + 1 /\ UNCHANGED proc

DecreaseMinerReward ==
  /\ proc.pc = "deduct"
  /\ balance' = [balance EXCEPT ![proc.m] = @ - proc.item.amount]
  /\ \/ Answered("claimed") /\ UNCHANGED deductedUnheard
     \/ /\ Unanswered
        /\ deductedUnheard' = [deductedUnheard EXCEPT ![proc.m] = @ + proc.item.amount]
  /\ UNCHANGED <<poolClaimed, transactions, claims, recent, txs, queue, request, counts,
                 overlapped, claimedUnheard>>

UpdatePoolClaimed ==
  /\ proc.pc = "claimed"
  /\ poolClaimed' = poolClaimed + proc.item.amount
  /\ \/ Answered("transaction") /\ UNCHANGED claimedUnheard
     \/ Unanswered /\ claimedUnheard' = claimedUnheard + proc.item.amount
  /\ UNCHANGED <<balance, transactions, claims, recent, txs, queue, request, counts,
                 overlapped, deductedUnheard>>

AddNewTransaction ==
  /\ proc.pc = "transaction"
  /\ transactions' = [transactions EXCEPT ![proc.tx] = @ + 1]
  /\ Answered("claim") \/ Unanswered
  /\ UNCHANGED <<balance, poolClaimed, claims, recent, txs, queue, request, counts,
                 overlapped, deductedUnheard, claimedUnheard>>

AddNewClaimBug ==
  /\ proc.pc = "claim"
  /\ transactions[proc.tx] = 1
  /\ Processor("dequeue")
  /\ UNCHANGED <<dbVars, txs, queue, request, history>>

(* The row refers to the transaction found by its signature. The look-up wants *)
(* exactly one: it is repeated for ever when there are two.                    *)
AddNewClaim ==
  /\ proc.pc = "claim"
  /\ transactions[proc.tx] = 1
  /\ claims' = [claims EXCEPT ![proc.tx] = @ + 1]
  /\ recent' = [recent EXCEPT ![proc.m] = TRUE]
  /\ Answered("dequeue") \/ Unanswered
  /\ UNCHANGED <<balance, poolClaimed, transactions, txs, queue, request, counts,
                 overlapped, deductedUnheard, claimedUnheard>>

DequeueBug ==
  /\ proc.pc = "dequeue"
  /\ proc' = NoProc
  /\ UNCHANGED <<dbVars, txs, queue, request, history>>

(* Whatever the queue has for the miner by now is removed. *)
Dequeue ==
  /\ proc.pc = "dequeue"
  /\ queue' = [queue EXCEPT ![proc.m] = None]
  /\ proc' = NoProc
  /\ UNCHANGED <<dbVars, txs, request, history>>

-----------------------------------------------------------------------------
(* The chain, time, the settlement of rounds and the server's host.        *)

SetStatus(t, status, ok) ==
  /\ txs' = [txs EXCEPT ![t].status = status, ![t].ok = ok]
  /\ UNCHANGED <<dbVars, queue, request, proc, history>>

Land(t) == txs[t].status = "pending" /\ SetStatus(t, "confirmed", TRUE)

Fail(t) ==
  "failure" \in Faults /\ txs[t].status = "pending" /\ SetStatus(t, "confirmed", FALSE)

(* The blockhash of a transaction that was not executed expires. *)
Drop(t) ==
  /\ "drop" \in Faults
  /\ txs[t].status \in {"signed", "pending"}
  /\ SetStatus(t, "dropped", FALSE)

(* About thirteen seconds after it was confirmed, time for some twenty polls. *)
Finalize(t) ==
  /\ txs[t].status = "confirmed"
  /\ proc.pc = "poll" /\ proc.tx = t => "outage" \in Faults
  /\ SetStatus(t, "finalized", txs[t].ok)

HalfHourPasses(m) ==
  /\ recent[m]
  /\ recent' = [recent EXCEPT ![m] = FALSE]
  /\ UNCHANGED <<balance, poolClaimed, transactions, claims, txs, queue, request, proc,
                 history>>

(* update_rewards, for a round settled meanwhile. *)
UpdateRewards(m) ==
  /\ earned[m] < InitialBalance + MaxCredits
  /\ balance' = [balance EXCEPT ![m] = @ + 1]
  /\ earned' = [earned EXCEPT ![m] = @ + 1]
  /\ UNCHANGED <<poolClaimed, transactions, claims, recent, txs, queue, request, proc,
                 accepted, received, restarts, overlapped, unheard>>

(* A panic of any task aborts the server. The queue is only in memory. *)
Restart ==
  /\ "restart" \in Faults
  /\ restarts < MaxRestarts
  /\ restarts' = restarts + 1
  /\ queue' = EmptyQueue
  /\ request' = [r \in Requests |-> NoRequest]
  /\ proc' = NoProc
  /\ UNCHANGED <<dbVars, txs, earned, accepted, received, overlapped, unheard>>

-----------------------------------------------------------------------------
Init ==
  /\ balance = [m \in Miners |-> InitialBalance] /\ poolClaimed = 0
  /\ transactions = NoRows /\ claims = NoRows /\ recent = [m \in Miners |-> FALSE]
  /\ txs = <<>>
  /\ queue = EmptyQueue /\ request = [r \in Requests |-> NoRequest] /\ proc = NoProc
  /\ earned = balance /\ accepted = 0 /\ received = 0 /\ restarts = 0
  /\ overlapped = {} /\ lost = 0
  /\ deductedUnheard = [m \in Miners |-> 0] /\ claimedUnheard = 0

PostClaim == \E r \in Requests : \/ \E amount \in Amounts : Receive(r, amount)
                                 \/ CheckQueue(r) \/ CheckBalance(r) \/ CheckLast(r)
                                 \/ Insert(r)
ClaimProcessor == \/ \E m \in Miners : Pick(m)
                  \/ Sign \/ Send \/ PollConfirmed \/ PollExpired \/ GiveUp
                  \/ DecreaseMinerReward \/ UpdatePoolClaimed \/ AddNewTransaction
                  \/ AddNewClaim \/ Dequeue
Chain == \E t \in DOMAIN txs : Land(t) \/ Fail(t) \/ Drop(t) \/ Finalize(t)
Surroundings == Restart \/ \E m \in Miners : HalfHourPasses(m) \/ UpdateRewards(m)

Next == PostClaim \/ ClaimProcessor \/ Chain \/ Surroundings

Spec == Init /\ [][Next]_vars

-----------------------------------------------------------------------------
(* Properties.                                                             *)

RecordingPcs == {"deduct", "claimed", "transaction", "claim", "dequeue"}
SignedPcs == {"send", "poll", "expired"} \cup RecordingPcs
RequestPcs == {"idle", "queue", "balance", "last", "insert"}
Statuses == {"signed", "pending", "confirmed", "finalized", "dropped"}
Tx == [m: Miners, claim: Nat \ {0}, amount: Amounts, status: Statuses, ok: BOOLEAN]

(* The transactions with a row in transactions, and in claims. *)
Booked == {t \in 1..MaxTxs : transactions[t] > 0}
Claimed == {t \in 1..MaxTxs : claims[t] > 0}

DatabaseOK ==
  /\ balance \in [Miners -> Int] /\ poolClaimed \in Nat
  /\ transactions \in [1..MaxTxs -> Nat] /\ claims \in [1..MaxTxs -> Nat]
  /\ Booked \cup Claimed \subseteq DOMAIN txs
  /\ recent \in [Miners -> BOOLEAN]
ServerOK ==
  /\ queue \in [Miners -> Claim \cup {None}]
  /\ request \in [Requests -> [pc: RequestPcs, amount: Amounts \cup {0}]]
  /\ \A r \in Requests : request[r].pc # "idle" => request[r].amount # 0
  /\ proc \in [pc: {"idle", "sign"} \cup SignedPcs, m: Miners \cup {None},
               item: Claim \cup {None}, tx: Nat]
  /\ proc.pc # "idle" => proc.m \in Miners /\ proc.item \in Claim
  /\ proc.pc \in SignedPcs => proc.tx \in DOMAIN txs
HistoryOK ==
  /\ earned \in [Miners -> Nat] /\ accepted \in Nat /\ received \in Nat /\ restarts \in Nat
  /\ overlapped \subseteq Miners /\ lost \in Nat
  /\ deductedUnheard \in [Miners -> Nat] /\ claimedUnheard \in Nat

(* Every variable holds a value that the type of what it models admits, and the *)
(* processor's signature is that of a transaction.                              *)
TypeOK == txs \in Seq(Tx) /\ Len(txs) <= MaxTxs /\ DatabaseOK /\ ServerOK /\ HistoryOK

Executed(t) == txs[t].ok /\ txs[t].status \in {"confirmed", "finalized"}

(* What the transactions T among s amount to. *)
Total(s, T) == SumTo([t \in DOMAIN s |-> IF t \in T THEN s[t].amount ELSE 0], Len(s))

(* A deduction whose answer was lost is repeated: what is charged is deducted *)
(* without those. A payment is recorded however many rows it has.             *)
Landed == {t \in DOMAIN txs : Executed(t)}
Paid(m) == Total(txs, {t \in Landed : txs[t].m = m})
Charged(m) == earned[m] - balance[m] - deductedUnheard[m]
Recorded(m) == Total(txs, {t \in Claimed : txs[t].m = m})

(* A claim that was accepted once is paid at most once, over expired and failed *)
(* transactions and restarts.                                                   *)
EachClaimPaidOnce ==
  \A t, u \in DOMAIN txs : Executed(t) /\ Executed(u) /\ txs[t].claim = txs[u].claim => t = u

(* What is recorded as claimed was charged, and what was charged was paid: a      *)
(* restart can only leave a payment unrecorded, and a lost answer can only repeat *)
(* the write that it was about. Without a restart payments, charges and records   *)
(* agree whenever the processor is idle.                                          *)
LedgerAgrees ==
  /\ \A m \in Miners : Recorded(m) <= Charged(m) /\ Charged(m) <= Paid(m)
  /\ Claimed \subseteq Booked
  /\ \A t \in 1..MaxTxs : transactions[t] <= 1 + lost /\ claims[t] <= 1 + lost
  /\ proc.pc = "idle" /\ restarts = 0 =>
       /\ \A m \in Miners : Recorded(m) = Paid(m)
       /\ poolClaimed - claimedUnheard = Total(txs, Landed)

(* A balance is only negative after two requests of its miner at a time, or a    *)
(* deduction whose answer was lost: else a claim that was covered when it was    *)
(* accepted is still covered when it is deducted.                                *)
NeverOverdrawn ==
  \A m \in Miners : balance[m] < 0 => m \in overlapped \/ deductedUnheard[m] > 0

PaidAndRecorded(id) == \E t \in Claimed : txs[t].claim = id /\ Executed(t)

(* Requests of a miner that overlap can both be accepted. Then the later claim    *)
(* takes the place of the earlier one, or goes when the earlier one has been paid. *)
Superseded(m) ==
  /\ m \in overlapped
  /\ \/ queue'[m] # None /\ queue'[m].id > queue[m].id
     \/ \E t \in Claimed : txs[t].m = m /\ txs[t].claim < queue[m].id /\ Executed(t)

(* A claim that was answered with SUCCESS leaves the queue only when it was paid *)
(* and recorded, with a restart, or superseded by overlapping requests.          *)
OnlyPaidLeaveQueue ==
  [][\A m \in Miners :
       queue[m] # None /\ queue'[m] # queue[m] /\ restarts' = restarts
         => PaidAndRecorded(queue[m].id) \/ Superseded(m)]_vars

(* "Transaction Expired": an expired transaction was not executed. *)
ExpiredDidNotLand == proc.pc = "expired" => ~Executed(proc.tx)

PaidBy(t) == [claim |-> txs[t].claim, miner |-> txs[t].m, signature |-> t]

Life == INSTANCE ClaimLife
          WITH Signatures <- 1..MaxTxs,
               issued <- accepted,
               payments <- {PaidBy(t) : t \in {u \in DOMAIN txs : Executed(u)}},
               recorded <- {PaidBy(t) : t \in Claimed},
               raced <- overlapped

(* Requests, processor and chain together keep what ClaimLife promises: of all  *)
(* their steps only a payment, its record, the acceptance and the end of a      *)
(* claim, a restart and requests that overlap can be seen, each in its place.   *)
ImplementsClaimLife == Life!Spec
=============================================================================
