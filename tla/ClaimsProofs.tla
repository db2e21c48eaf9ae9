----------------------------- MODULE ClaimsProofs -----------------------------
(***************************************************************************)
(* Proofs about Claims, for every number of miners and requests, all       *)
(* amounts and bounds, and every choice of faults but where one is excluded. *)
(***************************************************************************)
EXTENDS Claims, SumProofs, SequenceTheorems

-----------------------------------------------------------------------------
(* What the steps do to the transactions.                                  *)

(* A transaction that was executed, or may still be. *)
Alive(t) == txs[t].status \in {"signed", "pending"} \/ Executed(t)

(* Transactions are only appended, by Sign; one that can no longer be executed *)
(* stays so, and one that was executed stays executed.                         *)
TxsOnlyAge ==
  /\ txs' \in Seq(Tx)
  /\ DOMAIN txs' = DOMAIN txs
  /\ \A t \in DOMAIN txs : /\ txs'[t].claim = txs[t].claim /\ txs'[t].m = txs[t].m
                           /\ txs'[t].amount = txs[t].amount
                           /\ Alive(t)' => Alive(t)
                           /\ Executed(t) => Executed(t)'

-----------------------------------------------------------------------------
(* The invariants.                                                         *)

(* Two requests of a miner that are handled at a time are seen as overlapping. *)
OverlapIsSeen ==
  \A r, s \in Requests :
    r # s /\ Miner[r] = Miner[s] /\ request[r].pc # "idle" /\ request[s].pc # "idle"
      => Miner[r] \in overlapped

(* A request that found the queue without a claim of its miner still does, and *)
(* the processor's claim stays in the queue, unless requests overlapped: then  *)
(* a later claim may have taken its place.                                     *)
QueueIsHeld ==
  /\ \A r \in Requests :
       request[r].pc \in {"balance", "last", "insert"}
         => queue[Miner[r]] = None \/ Miner[r] \in overlapped
  /\ proc.pc # "idle" =>
       /\ queue[proc.m] # None
       /\ \/ queue[proc.m] = proc.item
          \/ proc.m \in overlapped /\ queue[proc.m].id > proc.item.id
  /\ \A m \in Miners : queue[m] # None => queue[m].id <= accepted
  /\ proc.pc # "idle" => proc.item.id <= accepted

(* Whose balance only covered claims are deducted from. *)
Sound(m) == m \notin overlapped /\ deductedUnheard[m] = 0

(* What a request has checked and what is queued is covered, up to the *)
(* deduction.                                                          *)
AmountsAreCovered ==
  /\ \A r \in Requests :
       request[r].pc \in {"last", "insert"} /\ Sound(Miner[r])
         => request[r].amount <= balance[Miner[r]]
  /\ \A m \in Miners :
       queue[m] # None /\ Sound(m) /\ ~(proc.m = m /\ proc.pc \in RecordingPcs \ {"deduct"})
         => queue[m].amount <= balance[m]
  /\ \A m \in Miners : Sound(m) => balance[m] >= 0

(* What the processor records is the payment of its claim, and what was recorded *)
(* was paid.                                                                     *)
RecordsPayment ==
  /\ proc.pc \in SignedPcs =>
       /\ txs[proc.tx].claim = proc.item.id
       /\ txs[proc.tx].m = proc.m /\ txs[proc.tx].amount = proc.item.amount
       /\ proc.pc = "dequeue" => proc.tx \in Claimed
       /\ proc.tx \in Claimed => proc.pc \in {"claim", "dequeue"}
  /\ proc.pc \in RecordingPcs => Executed(proc.tx)
  /\ \A t \in Claimed : t \in Booked /\ Executed(t)

(* Each lost answer adds one row at most to the one of a transaction. *)
RowsAreFew ==
  /\ \A t \in 1..MaxTxs : transactions[t] <= 1 + lost /\ claims[t] <= 1 + lost
  /\ proc.pc \in SignedPcs =>
       /\ proc.pc \notin {"claim", "dequeue"} => transactions[proc.tx] <= lost
       /\ proc.pc # "dequeue" => claims[proc.tx] <= lost

(* Claims are numbered in the order they are accepted. *)
ClaimsAreNumbered ==
  /\ \A t \in DOMAIN txs : txs[t].claim <= accepted
  /\ \A m \in Miners : queue[m] # None => queue[m].id <= accepted
  /\ proc.pc # "idle" => proc.item.id <= accepted
  /\ \A m \in Miners : \A n \in Miners :
       queue[m] # None /\ queue[n] # None /\ queue[m].id = queue[n].id => m = n
  /\ proc.pc # "idle" => \A m \in Miners :
       queue[m] # None /\ queue[m].id = proc.item.id => m = proc.m

(* The transactions of a claim that are alive: at most one, none of a claim *)
(* that waits, and none but the processor's of the claim it works on.       *)
AliveOnce ==
  /\ \A t, u \in DOMAIN txs : Alive(t) /\ Alive(u) /\ txs[t].claim = txs[u].claim => t = u
  /\ \A m \in Miners : queue[m] # None /\ (proc.pc = "idle" \/ proc.item.id # queue[m].id)
       => \A t \in DOMAIN txs : txs[t].claim = queue[m].id => ~Alive(t)
  /\ proc.pc # "idle" => \A t \in DOMAIN txs :
       txs[t].claim = proc.item.id /\ Alive(t) => proc.pc \in SignedPcs /\ t = proc.tx

(* Without an outage the processor sees how its transaction ends. *)
EndIsSeen ==
  /\ proc.pc = "poll" => txs[proc.tx].status # "finalized"
  /\ proc.pc = "expired" => ~Alive(proc.tx)

OnceInv == ClaimsAreNumbered /\ AliveOnce /\ EndIsSeen
HeldInv == OverlapIsSeen /\ QueueIsHeld /\ AmountsAreCovered /\ RecordsPayment

-----------------------------------------------------------------------------
(* What the steps keep of the transactions.                                *)

LEMMA Replaced ==
  ASSUME NEW s \in Seq(Tx), NEW t \in DOMAIN s, NEW tx \in Tx, NEW s2,
         s2 = [s EXCEPT ![t] = tx]
  PROVE  /\ s2 \in Seq(Tx) /\ DOMAIN s2 = DOMAIN s /\ s2[t] = tx
         /\ \A u \in DOMAIN s : u # t => s2[u] = s[u]
  <1>1. t \in 1..Len(s)
    OBVIOUS
  <1>2. s2 \in Seq(Tx)
    BY <1>1
  <1> QED
    BY <1>2

LEMMA Updated ==
  ASSUME NEW s \in Seq(Tx), NEW t \in DOMAIN s, NEW status \in Statuses, NEW ok \in BOOLEAN,
         NEW s2
  PROVE  s2 = [s EXCEPT ![t].status = status, ![t].ok = ok]
           => /\ s2 \in Seq(Tx) /\ DOMAIN s2 = DOMAIN s
              /\ s2[t] = [s[t] EXCEPT !.status = status, !.ok = ok]
              /\ \A u \in DOMAIN s : u # t => s2[u] = s[u]
  <1>1. s[t] \in Tx
    OBVIOUS
  <1>2. PICK tx \in Tx : tx = [s[t] EXCEPT !.status = status, !.ok = ok]
    BY <1>1 DEF Tx
  <1>3. s2 = [s EXCEPT ![t].status = status, ![t].ok = ok] => s2 = [s EXCEPT ![t] = tx]
    BY <1>2
  <1>4. s2 = [s EXCEPT ![t] = tx]
          => /\ s2 \in Seq(Tx) /\ DOMAIN s2 = DOMAIN s /\ s2[t] = tx
             /\ \A u \in DOMAIN s : u # t => s2[u] = s[u]
    BY Replaced
  <1> QED
    BY <1>2, <1>3, <1>4

(* The status of a transaction changes as the chain changes it. *)
LEMMA StatusAges ==
  ASSUME txs \in Seq(Tx), NEW t \in DOMAIN txs, NEW status \in Statuses, NEW ok \in BOOLEAN,
         txs' = [txs EXCEPT ![t].status = status, ![t].ok = ok],
         \/ txs[t].status \in {"signed", "pending"}
         \/ txs[t].status = "confirmed" /\ status = "finalized" /\ ok = txs[t].ok
  PROVE  TxsOnlyAge /\ txs'[t].status = status /\ txs'[t].ok = ok
  <1>1. /\ txs' \in Seq(Tx) /\ DOMAIN txs' = DOMAIN txs
        /\ txs'[t] = [txs[t] EXCEPT !.status = status, !.ok = ok]
        /\ \A u \in DOMAIN txs : u # t => txs'[u] = txs[u]
    BY Updated
  <1>2. txs[t] \in Tx
    OBVIOUS
  <1>3. /\ txs'[t].claim = txs[t].claim /\ txs'[t].m = txs[t].m
        /\ txs'[t].amount = txs[t].amount /\ txs'[t].status = status /\ txs'[t].ok = ok
    BY <1>1, <1>2 DEF Tx
  <1> QED
    BY <1>1, <1>3 DEF TxsOnlyAge, Alive, Executed

LEMMA SendAges ==
  ASSUME txs \in Seq(Tx), proc.pc \in SignedPcs => proc.tx \in DOMAIN txs, Send
  PROVE  TxsOnlyAge
  <1>1. proc.tx \in DOMAIN txs
    BY DEF Send, SignedPcs
  <1>2. txs[proc.tx] \in Tx
    BY <1>1
  <1>3. txs' = [txs EXCEPT ![proc.tx].status = "pending", ![proc.tx].ok = txs[proc.tx].ok]
    BY <1>1, <1>2 DEF Send, Tx
  <1> QED
    BY <1>1, <1>2, <1>3, StatusAges DEF Send, Tx, Statuses

LEMMA ChainAges ==
  ASSUME txs \in Seq(Tx), Chain
  PROVE  TxsOnlyAge /\ UNCHANGED <<dbVars, queue, request, proc, history>>
  <1>1. PICK t \in DOMAIN txs : Land(t) \/ Fail(t) \/ Drop(t) \/ Finalize(t)
    BY DEF Chain
  <1>2. txs[t] \in Tx
    OBVIOUS
  <1>3. CASE Land(t)
    BY <1>3, StatusAges DEF Land, SetStatus, Statuses
  <1>4. CASE Fail(t)
    BY <1>4, StatusAges DEF Fail, SetStatus, Statuses
  <1>5. CASE Drop(t)
    BY <1>5, StatusAges DEF Drop, SetStatus, Statuses
  <1>6. CASE Finalize(t)
    BY <1>2, <1>6, StatusAges DEF Finalize, SetStatus, Statuses, Tx
  <1> QED
    BY <1>1, <1>3, <1>4, <1>5, <1>6

LEMMA SameAges == txs \in Seq(Tx) /\ txs' = txs => TxsOnlyAge
  BY DEF TxsOnlyAge, Alive, Executed

-----------------------------------------------------------------------------
(* The rows of a transaction.                                              *)

LEMMA SameRows ==
  ASSUME UNCHANGED <<transactions, claims>>
  PROVE  Booked' = Booked /\ Claimed' = Claimed
  BY DEF Booked, Claimed

LEMMA RowAdded ==
  ASSUME NEW rows \in [1..MaxTxs -> Nat], NEW t \in 1..MaxTxs, NEW rows2,
         rows2 = [rows EXCEPT ![t] = @ + 1]
  PROVE  /\ rows2 \in [1..MaxTxs -> Nat] /\ rows2[t] = rows[t] + 1
         /\ \A u \in 1..MaxTxs : u # t => rows2[u] = rows[u]
         /\ {u \in 1..MaxTxs : rows2[u] > 0} = {u \in 1..MaxTxs : rows[u] > 0} \cup {t}
  <1>1. /\ rows2 \in [1..MaxTxs -> Nat] /\ rows2[t] = rows[t] + 1
        /\ \A u \in 1..MaxTxs : u # t => rows2[u] = rows[u]
    OBVIOUS
  <1>2. \A u \in 1..MaxTxs : rows2[u] > 0 <=> rows[u] > 0 \/ u = t
    BY <1>1
  <1> QED
    BY <1>1, <1>2

(* What the processor's two inserts add. *)
LEMMA TransactionAdded ==
  ASSUME TypeOK, AddNewTransaction
  PROVE  /\ transactions' \in [1..MaxTxs -> Nat] /\ UNCHANGED claims
         /\ transactions'[proc.tx] = transactions[proc.tx] + 1
         /\ \A u \in 1..MaxTxs : u # proc.tx => transactions'[u] = transactions[u]
         /\ Booked' = Booked \cup {proc.tx} /\ Claimed' = Claimed
  <1>1. /\ proc.tx \in 1..MaxTxs /\ transactions \in [1..MaxTxs -> Nat]
        /\ transactions' = [transactions EXCEPT ![proc.tx] = @ + 1] /\ claims' = claims
    BY BoundsAssumption
       DEF AddNewTransaction, TypeOK, DatabaseOK, ServerOK, SignedPcs, RecordingPcs
  <1> QED
    BY <1>1, RowAdded DEF Booked, Claimed

LEMMA ClaimAdded ==
  ASSUME TypeOK, AddNewClaim
  PROVE  /\ claims' \in [1..MaxTxs -> Nat] /\ UNCHANGED transactions
         /\ claims'[proc.tx] = claims[proc.tx] + 1
         /\ \A u \in 1..MaxTxs : u # proc.tx => claims'[u] = claims[u]
         /\ Claimed' = Claimed \cup {proc.tx} /\ Booked' = Booked
         /\ proc.tx \in Booked
  <1>1. /\ proc.tx \in 1..MaxTxs /\ claims \in [1..MaxTxs -> Nat]
        /\ claims' = [claims EXCEPT ![proc.tx] = @ + 1] /\ transactions' = transactions
        /\ transactions[proc.tx] = 1
    BY BoundsAssumption
       DEF AddNewClaim, TypeOK, DatabaseOK, ServerOK, SignedPcs, RecordingPcs
  <1>2. proc.tx \in Booked
    BY <1>1 DEF Booked
  <1> QED
    BY <1>1, <1>2, RowAdded DEF Booked, Claimed

-----------------------------------------------------------------------------
(* Type correctness.                                                       *)

LEMMA TypeInit == Init => TypeOK
  <1> SUFFICES ASSUME Init PROVE TypeOK
    OBVIOUS
  <1>1. txs \in Seq(Tx) /\ Len(txs) <= MaxTxs
    BY BoundsAssumption DEF Init
  <1>2. DatabaseOK /\ HistoryOK
    BY AmountAssumption DEF Init, DatabaseOK, HistoryOK, NoRows, Booked, Claimed
  <1>3. ServerOK
    BY DEF Init, ServerOK, EmptyQueue, NoRequest, NoProc, RequestPcs, SignedPcs, RecordingPcs
  <1> QED
    BY <1>1, <1>2, <1>3 DEF TypeOK

LEMMA TypeNext == TypeOK /\ [Next]_vars => TypeOK'
  <1> SUFFICES ASSUME TypeOK, [Next]_vars PROVE TypeOK'
    OBVIOUS
  <1> USE DEF TypeOK, dbVars, history, counts, unheard
  <1>a. NoProc \in [pc: {"idle", "sign"} \cup SignedPcs, m: Miners \cup {None},
                    item: Claim \cup {None}, tx: Nat]
    BY DEF NoProc
  <1>b. NoRequest \in [pc: RequestPcs, amount: Amounts \cup {0}]
    BY DEF NoRequest, RequestPcs
  <1>1. ASSUME NEW r \in Requests, NEW amount \in Amounts, Receive(r, amount) PROVE TypeOK'
    <2>1. DatabaseOK' /\ HistoryOK' /\ txs' \in Seq(Tx) /\ Len(txs') <= MaxTxs
      BY SameRows, <1>1, MinerAssumption DEF Receive, DatabaseOK, HistoryOK
    <2>2. ServerOK'
      BY <1>1, AmountAssumption DEF Receive, ServerOK, RequestPcs
    <2> QED
      BY <2>1, <2>2
  <1>2. ASSUME NEW r \in Requests, CheckQueue(r) \/ CheckBalance(r) \/ CheckLast(r) PROVE TypeOK'
    <2>1. DatabaseOK' /\ HistoryOK' /\ txs' \in Seq(Tx) /\ Len(txs') <= MaxTxs
      BY SameRows, <1>2 DEF CheckQueue, CheckBalance, CheckLast, DatabaseOK, HistoryOK
    <2>2. PICK next \in {"balance", "last", "insert"}, ok \in BOOLEAN : Answer(r, ok, next)
      BY <1>2 DEF CheckQueue, CheckBalance, CheckLast, Covered
    <2>3. request[r].pc # "idle"
      BY <1>2 DEF CheckQueue, CheckBalance, CheckLast
    <2>4. ServerOK'
      <3>1. UNCHANGED <<queue, proc, txs>>
        BY <1>2 DEF CheckQueue, CheckBalance, CheckLast
      <3> QED
        BY <1>b, <2>2, <2>3, <3>1 DEF Answer, NoRequest, ServerOK, RequestPcs
    <2> QED
      BY <2>1, <2>4
  <1>3. ASSUME NEW r \in Requests, Insert(r) PROVE TypeOK'
    <2>1. DatabaseOK' /\ HistoryOK' /\ txs' \in Seq(Tx) /\ Len(txs') <= MaxTxs
      BY SameRows, <1>3 DEF Insert, DatabaseOK, HistoryOK
    <2>2. [id |-> accepted + 1, amount |-> request[r].amount] \in Claim
      BY <1>3 DEF Insert, ServerOK, HistoryOK, Claim
    <2>3. ServerOK'
      BY <1>3, <1>b, <2>2, MinerAssumption DEF Insert, Answer, NoRequest, ServerOK
    <2> QED
      BY <2>1, <2>3
  <1>4. ASSUME NEW m \in Miners, Pick(m) PROVE TypeOK'
    <2>1. DatabaseOK' /\ HistoryOK' /\ txs' \in Seq(Tx) /\ Len(txs') <= MaxTxs
      BY SameRows, <1>4 DEF Pick, DatabaseOK, HistoryOK
    <2>2. queue[m] \in Claim
      BY <1>4 DEF Pick, ServerOK
    <2>3. ServerOK'
      BY <1>4, <2>2 DEF Pick, ServerOK, SignedPcs, RecordingPcs
    <2> QED
      BY <2>1, <2>3
  <1>5. CASE Sign
    <2>1. CASE /\ Len(txs) < MaxTxs /\ txs' = Append(txs, Payment)
               /\ proc' = [proc EXCEPT !.pc = "send", !.tx = Len(txs) + 1]
      <3>1. Payment \in Tx
        BY <1>5 DEF Sign, ServerOK, Payment, Claim, Tx, Statuses
      <3>2. /\ txs' \in Seq(Tx) /\ DOMAIN txs' = 1..Len(txs) + 1
            /\ DOMAIN txs = 1..Len(txs) /\ Len(txs') = Len(txs) + 1
        BY <2>1, <3>1
      <3>5. Len(txs') <= MaxTxs
        BY <2>1, <3>2, BoundsAssumption
      <3>3. DatabaseOK' /\ HistoryOK'
        BY <1>5, <3>2, SameRows DEF Sign, DatabaseOK, HistoryOK
      <3>4. ServerOK'
        <4>1. Len(txs) + 1 \in Nat /\ proc.m \in Miners /\ proc.item \in Claim
          BY <1>5 DEF Sign, ServerOK
        <4>2. proc.tx \in Nat /\ proc.pc = "sign"
          BY <1>5 DEF Sign, ServerOK
        <4>3. proc' = [pc |-> "send", m |-> proc.m, item |-> proc.item, tx |-> Len(txs) + 1]
          BY <2>1 DEF ServerOK
        <4>4. Len(txs) + 1 \in DOMAIN txs' /\ "send" \in SignedPcs
          BY <3>2, <4>1 DEF SignedPcs
        <4> QED
          BY <1>5, <4>1, <4>3, <4>4 DEF Sign, ServerOK
      <3> QED
        BY <3>2, <3>3, <3>4, <3>5
    <2>2. CASE proc' = NoProc /\ UNCHANGED txs
      BY <1>5, <1>a, <2>2, SameRows
         DEF Sign, DatabaseOK, HistoryOK, ServerOK, NoProc, SignedPcs, RecordingPcs
    <2> QED
      BY <1>5, <2>1, <2>2 DEF Sign
  <1>6. CASE Send
    <2>1. txs' \in Seq(Tx) /\ DOMAIN txs' = DOMAIN txs /\ Len(txs') <= MaxTxs
      BY <1>6, SendAges DEF TxsOnlyAge, ServerOK
    <2>2. DatabaseOK' /\ HistoryOK'
      BY <1>6, <2>1, SameRows DEF Send, DatabaseOK, HistoryOK
    <2>3. ServerOK'
      BY <1>6, <2>1 DEF Send, Processor, ServerOK, SignedPcs
    <2> QED
      BY <2>1, <2>2, <2>3
  <1>7. CASE PollConfirmed \/ PollExpired \/ GiveUp
    <2>1. DatabaseOK' /\ HistoryOK' /\ txs' \in Seq(Tx) /\ Len(txs') <= MaxTxs
      BY SameRows, <1>7 DEF PollConfirmed, PollExpired, GiveUp, DatabaseOK, HistoryOK
    <2>2. ServerOK'
      <3>1. UNCHANGED <<queue, request, txs>>
        BY <1>7 DEF PollConfirmed, PollExpired, GiveUp
      <3>2. \/ proc' = NoProc
            \/ proc.pc \in SignedPcs /\ \E next \in SignedPcs : Processor(next)
        BY <1>7 DEF PollConfirmed, PollExpired, GiveUp, SignedPcs, RecordingPcs
      <3>3. CASE proc' = NoProc
        BY <1>a, <3>1, <3>3 DEF ServerOK, NoProc, SignedPcs, RecordingPcs
      <3>4. CASE proc.pc \in SignedPcs /\ \E next \in SignedPcs : Processor(next)
        BY <3>1, <3>4 DEF Processor, ServerOK, SignedPcs, RecordingPcs
      <3> QED
        BY <3>2, <3>3, <3>4
    <2> QED
      BY <2>1, <2>2
  <1>8. CASE DecreaseMinerReward \/ UpdatePoolClaimed \/ AddNewTransaction \/ AddNewClaim
    <2>1. /\ proc.pc \in SignedPcs
          /\ UNCHANGED proc \/ \E next \in SignedPcs : Processor(next)
          /\ UNCHANGED <<queue, request, txs>>
      BY <1>8
         DEF DecreaseMinerReward, UpdatePoolClaimed, AddNewTransaction, AddNewClaim, Answered,
             Unanswered, SignedPcs, RecordingPcs
    <2>2. ServerOK'
      BY <2>1 DEF Processor, ServerOK, SignedPcs, RecordingPcs
    <2>3. proc.item.amount \in Nat /\ proc.m \in Miners /\ proc.tx \in DOMAIN txs
      BY <2>1, AmountAssumption DEF ServerOK, Claim, SignedPcs, RecordingPcs
    <2>4. HistoryOK'
      <3>1. /\ lost' \in Nat /\ UNCHANGED <<counts, overlapped>>
            /\ deductedUnheard' \in [Miners -> Nat] /\ claimedUnheard' \in Nat
        <4>1. CASE DecreaseMinerReward
          <5>1. deductedUnheard \in [Miners -> Nat]
            BY DEF HistoryOK
          <5>2. \/ UNCHANGED deductedUnheard
                \/ deductedUnheard' =
                     [deductedUnheard EXCEPT ![proc.m] = @ + proc.item.amount]
            BY <4>1 DEF DecreaseMinerReward
          <5>3. deductedUnheard' \in [Miners -> Nat]
            BY <2>3, <5>1, <5>2
          <5> QED
            BY <4>1, <5>3 DEF DecreaseMinerReward, HistoryOK, Answered, Unanswered
        <4>2. CASE UpdatePoolClaimed
          BY <2>3, <4>2 DEF UpdatePoolClaimed, HistoryOK, Answered, Unanswered
        <4>3. CASE AddNewTransaction \/ AddNewClaim
          BY <4>3 DEF AddNewTransaction, AddNewClaim, HistoryOK, Answered, Unanswered
        <4> QED
          BY <1>8, <4>1, <4>2, <4>3
      <3> QED
        BY <3>1 DEF HistoryOK
    <2>5. DatabaseOK'
      <3>1. CASE DecreaseMinerReward
        <4>1. Booked' = Booked /\ Claimed' = Claimed
          BY <3>1, SameRows DEF DecreaseMinerReward
        <4> QED
          BY <2>3, <3>1, <4>1 DEF DecreaseMinerReward, DatabaseOK
      <3>2. CASE UpdatePoolClaimed
        <4>1. Booked' = Booked /\ Claimed' = Claimed
          BY <3>2, SameRows DEF UpdatePoolClaimed
        <4> QED
          BY <2>3, <3>2, <4>1 DEF UpdatePoolClaimed, DatabaseOK
      <3>3. CASE AddNewTransaction
        <4>1. /\ transactions' \in [1..MaxTxs -> Nat] /\ UNCHANGED claims
              /\ Booked' = Booked \cup {proc.tx} /\ Claimed' = Claimed
          BY <3>3, TransactionAdded
        <4> QED
          BY <2>3, <3>3, <4>1 DEF AddNewTransaction, DatabaseOK
      <3>4. CASE AddNewClaim
        <4>1. /\ claims' \in [1..MaxTxs -> Nat] /\ UNCHANGED transactions
              /\ Claimed' = Claimed \cup {proc.tx} /\ Booked' = Booked
          BY <3>4, ClaimAdded
        <4> QED
          BY <2>3, <3>4, <4>1 DEF AddNewClaim, DatabaseOK
      <3> QED
        BY <1>8, <3>1, <3>2, <3>3, <3>4
    <2> QED
      BY <2>1, <2>2, <2>4, <2>5
  <1>9. CASE Dequeue
    BY <1>9, <1>a, SameRows
       DEF Dequeue, DatabaseOK, HistoryOK, ServerOK, NoProc, SignedPcs, RecordingPcs
  <1>10. CASE Chain
    <2>1. TxsOnlyAge /\ UNCHANGED <<dbVars, queue, request, proc, history>>
      BY <1>10, ChainAges
    <2> QED
      BY <2>1, SameRows DEF TxsOnlyAge, DatabaseOK, HistoryOK, ServerOK
  <1>11. CASE Restart
    <2>1. DatabaseOK' /\ HistoryOK' /\ txs' \in Seq(Tx) /\ Len(txs') <= MaxTxs
      BY SameRows, <1>11 DEF Restart, DatabaseOK, HistoryOK
    <2>2. ServerOK'
      BY <1>11, <1>a, <1>b
         DEF Restart, ServerOK, EmptyQueue, NoRequest, NoProc, SignedPcs, RecordingPcs
    <2> QED
      BY <2>1, <2>2
  <1>12. ASSUME NEW m \in Miners, HalfHourPasses(m) \/ UpdateRewards(m) PROVE TypeOK'
    <2>1. ServerOK' /\ txs' \in Seq(Tx) /\ Len(txs') <= MaxTxs
      BY <1>12 DEF HalfHourPasses, UpdateRewards, ServerOK
    <2>2. CASE HalfHourPasses(m)
      BY <2>1, <2>2, SameRows DEF HalfHourPasses, DatabaseOK, HistoryOK
    <2>3. CASE UpdateRewards(m)
      BY <2>1, <2>3, SameRows DEF UpdateRewards, DatabaseOK, HistoryOK
    <2> QED
      BY <1>12, <2>1, <2>2, <2>3
  <1>13. CASE UNCHANGED vars
    BY <1>13, SameRows DEF vars, DatabaseOK, HistoryOK, ServerOK
  <1> QED
    BY <1>1, <1>2, <1>3, <1>4, <1>5, <1>6, <1>7, <1>8, <1>9, <1>10, <1>11, <1>12, <1>13
       DEF Next, PostClaim, ClaimProcessor, Surroundings

(* Every variable holds a value of its type in every reachable state: a step of *)
(* post_claim, of claim_processor or of their surroundings keeps the types.     *)
THEOREM TypeCorrect == Spec => []TypeOK
  <1> QED
    BY TypeInit, TypeNext, PTL DEF Spec

-----------------------------------------------------------------------------
(* Each claim is paid once.                                                *)

LEMMA OnceInit == Init => OnceInv
  BY DEF Init, OnceInv, ClaimsAreNumbered, AliveOnce, EndIsSeen, EmptyQueue, NoProc

(* Ageing transactions and going on with the same one disturb no claim. *)
LEMMA OnceKept ==
  ASSUME TypeOK, ClaimsAreNumbered, AliveOnce, TxsOnlyAge, UNCHANGED <<queue, accepted>>,
         \/ UNCHANGED proc
         \/ proc.pc \in SignedPcs /\ \E next \in SignedPcs : Processor(next)
  PROVE  ClaimsAreNumbered' /\ AliveOnce'
  <1>1. /\ proc'.item = proc.item /\ proc'.m = proc.m /\ proc'.tx = proc.tx
        /\ proc'.pc = "idle" <=> proc.pc = "idle"
        /\ proc'.pc \in SignedPcs <=> proc.pc \in SignedPcs
    BY DEF TypeOK, ServerOK, Processor, SignedPcs, RecordingPcs
  <1>2. ClaimsAreNumbered'
    BY <1>1 DEF ClaimsAreNumbered, TxsOnlyAge
  <1>3. AliveOnce'
    BY <1>1 DEF AliveOnce, TxsOnlyAge
  <1> QED
    BY <1>2, <1>3

(* The processor may leave a claim that has nothing alive in the queue, or *)
(* take it out.                                                            *)
LEMMA OnceLeft ==
  ASSUME TypeOK, ClaimsAreNumbered, AliveOnce, UNCHANGED <<txs, accepted>>,
         proc.pc # "idle", proc' = NoProc,
         \/ UNCHANGED queue /\ \A t \in DOMAIN txs : txs[t].claim = proc.item.id => ~Alive(t)
         \/ queue' = [queue EXCEPT ![proc.m] = None]
  PROVE  ClaimsAreNumbered' /\ AliveOnce'
  <1>1. \A m \in Miners : \/ queue'[m] = None
                          \/ /\ queue'[m] = queue[m]
                             /\ \A t \in DOMAIN txs : txs[t].claim = queue[m].id => ~Alive(t)
    <2>1. CASE UNCHANGED queue /\ \A t \in DOMAIN txs : txs[t].claim = proc.item.id => ~Alive(t)
      BY <2>1 DEF AliveOnce
    <2>2. CASE queue' = [queue EXCEPT ![proc.m] = None]
      BY <2>2 DEF AliveOnce, ClaimsAreNumbered, TypeOK, ServerOK
    <2> QED
      BY <2>1, <2>2
  <1>2. \A t \in DOMAIN txs : Alive(t)' <=> Alive(t)
    BY DEF Alive, Executed
  <1>3. ClaimsAreNumbered'
    BY <1>1 DEF ClaimsAreNumbered, NoProc
  <1>4. AliveOnce'
    BY <1>1, <1>2 DEF AliveOnce, NoProc
  <1> QED
    BY <1>3, <1>4

LEMMA OnceNext ==
  ASSUME TypeOK, OnceInv, "outage" \notin Faults, [Next]_vars
  PROVE  OnceInv'
  <1> USE DEF OnceInv, dbVars, history, counts, unheard
  <1>1. ASSUME UNCHANGED <<txs, queue, proc, accepted>> PROVE OnceInv'
    <2>1. ClaimsAreNumbered' /\ AliveOnce'
      BY <1>1, OnceKept, SameAges DEF TypeOK
    <2>2. EndIsSeen'
      BY <1>1 DEF EndIsSeen, Alive, Executed
    <2> QED
      BY <2>1, <2>2
  <1>2. ASSUME NEW r \in Requests, Insert(r) PROVE OnceInv'
    <2>1. /\ Miner[r] \in Miners /\ UNCHANGED <<txs, proc>>
          /\ accepted \in Nat /\ accepted' = accepted + 1
          /\ \A m \in Miners : queue'[m] = IF m = Miner[r]
               THEN [id |-> accepted + 1, amount |-> request[r].amount] ELSE queue[m]
      BY <1>2, MinerAssumption DEF Insert, TypeOK, ServerOK, HistoryOK
    <2>2. /\ \A t \in DOMAIN txs : txs[t].claim \in Nat
          /\ \A m \in Miners : queue[m] # None => queue[m].id \in Nat
          /\ proc.pc # "idle" => proc.item.id \in Nat
      <3>1. \A t \in DOMAIN txs : txs[t] \in Tx
        BY DEF TypeOK
      <3>2. \A m \in Miners : queue[m] # None => queue[m] \in Claim
        BY DEF TypeOK, ServerOK
      <3>3. proc.pc # "idle" => proc.item \in Claim
        BY DEF TypeOK, ServerOK
      <3> QED
        BY <3>1, <3>2, <3>3 DEF Tx, Claim
    <2>3. \A t \in DOMAIN txs : Alive(t)' <=> Alive(t)
      BY <2>1 DEF Alive, Executed
    <2>4. ClaimsAreNumbered'
      BY <2>1, <2>2 DEF ClaimsAreNumbered
    <2>5. AliveOnce'
      BY <2>1, <2>2, <2>3 DEF AliveOnce, ClaimsAreNumbered
    <2>6. EndIsSeen'
      BY <2>1 DEF EndIsSeen, Alive, Executed
    <2> QED
      BY <2>4, <2>5, <2>6
  <1>3. ASSUME NEW m \in Miners, Pick(m) PROVE OnceInv'
    <2>1. /\ proc.pc = "idle" /\ queue[m] # None /\ UNCHANGED <<txs, queue, accepted>>
          /\ proc'.pc = "sign" /\ proc'.m = m /\ proc'.item = queue[m]
      BY <1>3 DEF Pick
    <2>2. \A t \in DOMAIN txs : Alive(t)' <=> Alive(t)
      BY <2>1 DEF Alive, Executed
    <2>3. ClaimsAreNumbered'
      BY <2>1 DEF ClaimsAreNumbered
    <2>4. AliveOnce'
      BY <2>1, <2>2 DEF AliveOnce
    <2>5. EndIsSeen'
      BY <2>1 DEF EndIsSeen
    <2> QED
      BY <2>3, <2>4, <2>5
  <1>4. CASE Sign
    <2>1. CASE /\ txs' = Append(txs, Payment)
               /\ proc' = [proc EXCEPT !.pc = "send", !.tx = Len(txs) + 1]
      <3>1. /\ proc.pc = "sign" /\ UNCHANGED <<queue, accepted>>
            /\ proc'.pc = "send" /\ proc'.m = proc.m /\ proc'.item = proc.item
            /\ proc'.tx = Len(txs) + 1
        BY <1>4, <2>1 DEF Sign, TypeOK, ServerOK
      <3>2. /\ DOMAIN txs = 1..Len(txs) /\ DOMAIN txs' = 1..Len(txs) + 1 /\ Len(txs) \in Nat
            /\ txs'[Len(txs) + 1] = Payment
            /\ \A t \in DOMAIN txs : txs'[t] = txs[t]
        BY <2>1 DEF TypeOK
      <3>3. Payment.claim = proc.item.id
        BY DEF Payment
      <3>4. \A t \in DOMAIN txs : Alive(t)' <=> Alive(t)
        BY <3>2 DEF Alive, Executed
      <3>5. \A t \in DOMAIN txs : txs[t].claim = proc.item.id => ~Alive(t)
        BY <3>1 DEF AliveOnce, SignedPcs, RecordingPcs
      <3>6. ClaimsAreNumbered'
        BY <3>1, <3>2, <3>3 DEF ClaimsAreNumbered
      <3>7. \A t, u \in DOMAIN txs' :
              Alive(t)' /\ Alive(u)' /\ txs'[t].claim = txs'[u].claim => t = u
        BY <3>2, <3>3, <3>4, <3>5 DEF AliveOnce
      <3>8. \A m \in Miners : queue[m] # None /\ proc.item.id # queue[m].id
              => \A t \in DOMAIN txs' : txs'[t].claim = queue[m].id => ~Alive(t)'
        BY <3>1, <3>2, <3>3, <3>4 DEF AliveOnce
      <3>9. \A t \in DOMAIN txs' :
              txs'[t].claim = proc.item.id /\ Alive(t)' => t = Len(txs) + 1
        BY <3>2, <3>4, <3>5
      <3>10. AliveOnce'
        BY <3>1, <3>7, <3>8, <3>9 DEF AliveOnce, SignedPcs
      <3>11. EndIsSeen'
        BY <3>1 DEF EndIsSeen
      <3> QED
        BY <3>6, <3>10, <3>11
    <2>2. CASE proc' = NoProc /\ UNCHANGED txs
      <3>1. proc.pc = "sign" /\ UNCHANGED <<queue, accepted>>
        BY <1>4 DEF Sign
      <3>2. \A t \in DOMAIN txs : txs[t].claim = proc.item.id => ~Alive(t)
        BY <3>1 DEF AliveOnce, SignedPcs, RecordingPcs
      <3> QED
        BY <2>2, <3>1, <3>2, OnceLeft DEF EndIsSeen, NoProc
    <2> QED
      BY <1>4, <2>1, <2>2 DEF Sign
  <1>5. CASE Send
    <2>1. /\ proc.pc = "send" /\ UNCHANGED <<queue, accepted>>
          /\ UNCHANGED proc \/ Processor("poll")
      BY <1>5 DEF Send
    <2>2. ClaimsAreNumbered' /\ AliveOnce'
      BY <1>5, <2>1, OnceKept, SendAges DEF TypeOK, ServerOK, SignedPcs
    <2>3. EndIsSeen'
      <3>1. proc.tx \in DOMAIN txs /\ txs[proc.tx] \in Tx
        BY <2>1 DEF TypeOK, ServerOK, SignedPcs
      <3>2. proc'.tx = proc.tx /\ proc'.pc \in {"send", "poll"}
        BY <2>1 DEF Processor, TypeOK, ServerOK
      <3>3. txs'[proc.tx].status = "pending"
        BY <1>5, <3>1 DEF Send, Tx
      <3> QED
        BY <3>2, <3>3 DEF EndIsSeen
    <2> QED
      BY <2>2, <2>3
  <1>6. CASE PollConfirmed
    <2>1. /\ proc.pc = "poll" /\ txs[proc.tx].status = "confirmed"
          /\ UNCHANGED <<txs, queue, accepted>>
          /\ \/ Processor("deduct")
             \/ proc' = NoProc /\ ~txs[proc.tx].ok
      BY <1>6 DEF PollConfirmed, Processor
    <2>2. CASE Processor("deduct")
      BY <2>1, <2>2, OnceKept, SameAges
         DEF TypeOK, ServerOK, SignedPcs, RecordingPcs, EndIsSeen, Processor
    <2>3. CASE proc' = NoProc /\ ~txs[proc.tx].ok
      <3>1. \A t \in DOMAIN txs : txs[t].claim = proc.item.id => ~Alive(t)
        BY <2>1, <2>3 DEF AliveOnce, Alive, Executed
      <3> QED
        BY <2>1, <2>3, <3>1, OnceLeft DEF EndIsSeen, NoProc
    <2> QED
      BY <2>1, <2>2, <2>3
  <1>7. CASE PollExpired
    <2>1. /\ proc.pc = "poll" /\ txs[proc.tx].status \in {"dropped", "finalized"}
          /\ UNCHANGED <<txs, queue, accepted>> /\ Processor("expired")
      BY <1>7 DEF PollExpired
    <2>2. ClaimsAreNumbered' /\ AliveOnce'
      BY <2>1, OnceKept, SameAges DEF TypeOK, SignedPcs
    <2>3. ~Alive(proc.tx)
      BY <2>1 DEF EndIsSeen, Alive, Executed
    <2>4. EndIsSeen'
      BY <2>1, <2>3 DEF EndIsSeen, Alive, Executed, Processor, TypeOK, ServerOK
    <2> QED
      BY <2>2, <2>4
  <1>8. CASE GiveUp
    <2>1. proc.pc = "expired" /\ proc' = NoProc /\ UNCHANGED <<txs, queue, accepted>>
      BY <1>8 DEF GiveUp
    <2>2. \A t \in DOMAIN txs : txs[t].claim = proc.item.id => ~Alive(t)
      BY <2>1 DEF EndIsSeen, AliveOnce
    <2> QED
      BY <2>1, <2>2, OnceLeft DEF EndIsSeen, NoProc
  <1>9. CASE DecreaseMinerReward \/ UpdatePoolClaimed \/ AddNewTransaction \/ AddNewClaim
    <2>1. /\ proc.pc \in RecordingPcs
          /\ UNCHANGED proc \/ \E next \in RecordingPcs : Processor(next)
          /\ UNCHANGED <<txs, queue, accepted>>
      BY <1>9
         DEF DecreaseMinerReward, UpdatePoolClaimed, AddNewTransaction, AddNewClaim, Answered,
             Unanswered, RecordingPcs
    <2>2. ClaimsAreNumbered' /\ AliveOnce'
      BY <2>1, OnceKept, SameAges DEF TypeOK, SignedPcs
    <2>3. EndIsSeen'
      BY <2>1 DEF EndIsSeen, Processor, TypeOK, ServerOK, RecordingPcs
    <2> QED
      BY <2>2, <2>3
  <1>10. CASE Dequeue
    BY <1>10, OnceLeft DEF Dequeue, EndIsSeen, NoProc
  <1>11. CASE Chain
    <2>1. TxsOnlyAge /\ UNCHANGED <<queue, proc, accepted>>
      BY <1>11, ChainAges DEF TypeOK
    <2>2. ClaimsAreNumbered' /\ AliveOnce'
      BY <2>1, OnceKept
    <2>3. EndIsSeen'
      <3>1. CASE proc.pc = "poll"
        <4>1. proc.tx \in DOMAIN txs /\ txs[proc.tx] \in Tx
          BY <3>1 DEF TypeOK, ServerOK, SignedPcs
        <4>2. PICK t \in DOMAIN txs : Land(t) \/ Fail(t) \/ Drop(t) \/ Finalize(t)
          BY <1>11 DEF Chain
        <4>3. PICK status \in Statuses, ok \in BOOLEAN :
                /\ txs' = [txs EXCEPT ![t].status = status, ![t].ok = ok]
                /\ t = proc.tx => status # "finalized"
          <5>1. txs[t] \in Tx
            BY DEF TypeOK
          <5> QED
            BY <3>1, <4>2, <5>1 DEF Land, Fail, Drop, Finalize, SetStatus, Statuses, Tx
        <4>4. txs'[proc.tx].status # "finalized"
          BY <3>1, <4>1, <4>3, Updated DEF EndIsSeen, TypeOK, Tx
        <4> QED
          BY <2>1, <3>1, <4>4 DEF EndIsSeen
      <3>2. CASE proc.pc # "poll"
        BY <2>1, <3>2 DEF EndIsSeen, TxsOnlyAge, TypeOK, ServerOK, SignedPcs, Alive, Executed
      <3> QED
        BY <3>1, <3>2
    <2> QED
      BY <2>2, <2>3
  <1>12. CASE Restart
    <2>1. /\ UNCHANGED <<txs, accepted>> /\ proc' = NoProc
          /\ \A m \in Miners : queue'[m] = None
      BY <1>12 DEF Restart, EmptyQueue
    <2> QED
      BY <2>1 DEF ClaimsAreNumbered, AliveOnce, EndIsSeen, NoProc, Alive, Executed
  <1>13. ASSUME NEW r \in Requests, NEW amount \in Amounts, Receive(r, amount) PROVE OnceInv'
    BY <1>1, <1>13 DEF Receive
  <1>14. ASSUME NEW r \in Requests, CheckQueue(r) \/ CheckBalance(r) \/ CheckLast(r)
         PROVE OnceInv'
    BY <1>1, <1>14 DEF CheckQueue, CheckBalance, CheckLast
  <1>15. ASSUME NEW m \in Miners, HalfHourPasses(m) \/ UpdateRewards(m) PROVE OnceInv'
    BY <1>1, <1>15 DEF HalfHourPasses, UpdateRewards
  <1>16. CASE UNCHANGED vars
    BY <1>1, <1>16 DEF vars
  <1> QED
    BY <1>2, <1>3, <1>4, <1>5, <1>6, <1>7, <1>8, <1>9, <1>10, <1>11, <1>12, <1>13, <1>14,
       <1>15, <1>16
       DEF Next, PostClaim, ClaimProcessor, Surroundings

(* As long as the processor sees its transaction confirmed before it is finalized, *)
(* no claim is paid twice, whatever requests, expiries, failures and restarts do.   *)
THEOREM PaidOnceCorrect ==
  ASSUME "outage" \notin Faults
  PROVE  Spec => []EachClaimPaidOnce
  <1>1. Init => TypeOK /\ OnceInv
    BY TypeInit, OnceInit
  <1>2. TypeOK /\ OnceInv /\ [Next]_vars => (TypeOK /\ OnceInv)'
    BY TypeNext, OnceNext
  <1>3. OnceInv => EachClaimPaidOnce
    BY DEF OnceInv, AliveOnce, EachClaimPaidOnce, Alive
  <1> QED
    BY <1>1, <1>2, <1>3, PTL DEF Spec

-----------------------------------------------------------------------------
(* What the processor records, and what a miner can rely on.               *)

LEMMA RecordsInit == Init => RecordsPayment
  BY DEF Init, RecordsPayment, NoProc, NoRows, Claimed, SignedPcs, RecordingPcs

LEMMA RecordsNext ==
  ASSUME TypeOK, RecordsPayment, [Next]_vars
  PROVE  RecordsPayment'
  <1> USE DEF dbVars, history, counts, unheard
  <1>a. /\ proc.pc \in SignedPcs => proc.tx \in DOMAIN txs
        /\ Claimed \subseteq DOMAIN txs
    BY DEF TypeOK, DatabaseOK, ServerOK
  <1>1. ASSUME TxsOnlyAge, UNCHANGED <<proc, claims, transactions>> PROVE RecordsPayment'
    BY <1>a, <1>1, SameRows DEF RecordsPayment, TxsOnlyAge, SignedPcs, RecordingPcs
  <1>2. ASSUME proc'.pc \in {"idle", "sign"}, UNCHANGED <<txs, claims, transactions>>
        PROVE  RecordsPayment'
    BY <1>2, SameRows DEF RecordsPayment, Executed, SignedPcs, RecordingPcs
  <1>3. ASSUME proc.pc \in SignedPcs, TxsOnlyAge,
               UNCHANGED proc \/ \E next \in SignedPcs : Processor(next),
               proc'.pc \in RecordingPcs => Executed(proc.tx),
               Booked \subseteq Booked',
               \/ /\ UNCHANGED Claimed
                  /\ proc.pc = "dequeue" <=> proc'.pc = "dequeue"
                  /\ proc.pc = "claim" => proc'.pc = "claim"
               \/ /\ Claimed' = Claimed \cup {proc.tx} /\ proc.tx \in Booked'
                  /\ proc'.pc \in {"claim", "dequeue"}
        PROVE  RecordsPayment'
    <2>1. /\ proc'.pc \in SignedPcs /\ proc'.item = proc.item /\ proc'.m = proc.m
          /\ proc'.tx = proc.tx
      BY <1>3 DEF Processor, TypeOK, ServerOK
    <2>2. \A t \in Claimed' : t \in Booked' /\ Executed(t)'
      BY <1>a, <1>3 DEF RecordsPayment, TxsOnlyAge, RecordingPcs
    <2>3. proc'.pc \in RecordingPcs => Executed(proc.tx)'
      BY <1>a, <1>3, <2>1 DEF TxsOnlyAge
    <2>4. /\ proc'.pc = "dequeue" => proc.tx \in Claimed'
          /\ proc.tx \in Claimed' => proc'.pc \in {"claim", "dequeue"}
      BY <1>a, <1>3, <2>1 DEF RecordsPayment
    <2> QED
      BY <1>a, <1>3, <2>1, <2>2, <2>3, <2>4 DEF RecordsPayment, TxsOnlyAge
  <1>4. ASSUME UNCHANGED <<txs, proc, claims, transactions>> PROVE RecordsPayment'
    BY <1>1, <1>4, SameAges DEF TypeOK
  <1>5. ASSUME NEW r \in Requests, NEW amount \in Amounts, Receive(r, amount)
        PROVE  RecordsPayment'
    BY <1>4, <1>5 DEF Receive
  <1>6. ASSUME NEW r \in Requests,
               CheckQueue(r) \/ CheckBalance(r) \/ CheckLast(r) \/ Insert(r)
        PROVE  RecordsPayment'
    BY <1>4, <1>6 DEF CheckQueue, CheckBalance, CheckLast, Insert
  <1>7. ASSUME NEW m \in Miners, Pick(m) PROVE RecordsPayment'
    BY <1>2, <1>7 DEF Pick
  <1>8. CASE Sign
    <2>1. CASE /\ txs' = Append(txs, Payment)
               /\ proc' = [proc EXCEPT !.pc = "send", !.tx = Len(txs) + 1]
      <3>1. /\ proc'.pc = "send" /\ proc'.item = proc.item /\ proc'.m = proc.m
            /\ proc'.tx = Len(txs) + 1 /\ UNCHANGED <<Claimed, Booked>>
        BY <1>8, <2>1, SameRows DEF Sign, TypeOK, ServerOK
      <3>2. /\ txs'[Len(txs) + 1] = Payment /\ Len(txs) + 1 \notin DOMAIN txs
            /\ \A t \in DOMAIN txs : txs'[t] = txs[t]
        BY <2>1 DEF TypeOK
      <3>3. /\ Payment.claim = proc.item.id /\ Payment.m = proc.m
            /\ Payment.amount = proc.item.amount
        BY DEF Payment
      <3>4. \A t \in Claimed : t \in Booked /\ Executed(t)'
        BY <1>a, <3>2 DEF RecordsPayment, Executed
      <3> QED
        BY <1>a, <3>1, <3>2, <3>3, <3>4 DEF RecordsPayment, RecordingPcs
    <2>2. CASE proc' = NoProc /\ UNCHANGED txs
      BY <1>2, <1>8, <2>2 DEF Sign, NoProc
    <2> QED
      BY <1>8, <2>1, <2>2 DEF Sign
  <1>9. CASE Send
    <2>1. TxsOnlyAge /\ proc.pc = "send" /\ UNCHANGED <<Claimed, Booked>>
      BY <1>a, <1>9, SendAges, SameRows DEF Send, TypeOK, SignedPcs
    <2>2. UNCHANGED proc \/ Processor("poll")
      BY <1>9 DEF Send, Processor
    <2> QED
      BY <1>3, <2>1, <2>2 DEF Processor, SignedPcs, RecordingPcs, TypeOK, ServerOK
  <1>10. CASE PollConfirmed
    <2>1. /\ proc.pc = "poll" /\ txs[proc.tx].status = "confirmed" /\ TxsOnlyAge
          /\ UNCHANGED <<txs, claims, transactions, Claimed, Booked>>
          /\ \/ Processor("deduct") /\ txs[proc.tx].ok
             \/ proc' = NoProc
      BY <1>10, SameAges, SameRows DEF PollConfirmed, SignedPcs, Processor, TypeOK
    <2>2. CASE proc' = NoProc
      BY <1>2, <2>1, <2>2 DEF NoProc
    <2>3. CASE Processor("deduct") /\ txs[proc.tx].ok
      BY <1>3, <2>1, <2>3
         DEF Executed, Processor, SignedPcs, RecordingPcs, TypeOK, ServerOK
    <2> QED
      BY <2>1, <2>2, <2>3
  <1>11. CASE PollExpired
    <2>1. /\ proc.pc = "poll" /\ Processor("expired") /\ TxsOnlyAge
          /\ UNCHANGED <<Claimed, Booked>>
      BY <1>11, SameAges, SameRows DEF PollExpired, SignedPcs, TypeOK
    <2> QED
      BY <1>3, <2>1 DEF Processor, SignedPcs, RecordingPcs, TypeOK, ServerOK
  <1>12. CASE GiveUp \/ Dequeue \/ Restart
    BY <1>2, <1>12 DEF GiveUp, Dequeue, Restart, NoProc
  <1>13. CASE DecreaseMinerReward \/ UpdatePoolClaimed \/ AddNewTransaction \/ AddNewClaim
    <2>1. /\ proc.pc \in RecordingPcs \ {"dequeue"} /\ UNCHANGED txs
          /\ UNCHANGED proc \/ \E next \in RecordingPcs : Processor(next)
          /\ proc'.pc \in RecordingPcs
      BY <1>13
         DEF DecreaseMinerReward, UpdatePoolClaimed, AddNewTransaction, AddNewClaim, Answered,
             Unanswered, Processor, RecordingPcs, TypeOK, ServerOK
    <2>2. /\ Booked \subseteq Booked'
          /\ \/ /\ UNCHANGED Claimed /\ proc.pc # "claim"
                /\ proc'.pc # "dequeue"
             \/ /\ Claimed' = Claimed \cup {proc.tx} /\ proc.tx \in Booked'
                /\ proc'.pc \in {"claim", "dequeue"}
      <3>1. CASE DecreaseMinerReward \/ UpdatePoolClaimed
        BY <3>1, SameRows
           DEF DecreaseMinerReward, UpdatePoolClaimed, Answered, Unanswered, Processor, TypeOK,
               ServerOK
      <3>2. CASE AddNewTransaction
        BY <3>2, TransactionAdded
           DEF AddNewTransaction, Answered, Unanswered, Processor, TypeOK, ServerOK
      <3>3. CASE AddNewClaim
        BY <3>3, ClaimAdded DEF AddNewClaim, Answered, Unanswered, Processor, TypeOK, ServerOK
      <3> QED
        BY <1>13, <3>1, <3>2, <3>3
    <2>3. TxsOnlyAge /\ Executed(proc.tx)
      BY <2>1, SameAges DEF TypeOK, RecordsPayment
    <2> QED
      BY <1>3, <2>1, <2>2, <2>3 DEF SignedPcs
  <1>14. CASE Chain
    BY <1>1, <1>14, ChainAges DEF TypeOK
  <1>15. ASSUME NEW m \in Miners, HalfHourPasses(m) \/ UpdateRewards(m) PROVE RecordsPayment'
    BY <1>4, <1>15 DEF HalfHourPasses, UpdateRewards
  <1>16. CASE UNCHANGED vars
    BY <1>4, <1>16 DEF vars
  <1> QED
    BY <1>5, <1>6, <1>7, <1>8, <1>9, <1>10, <1>11, <1>12, <1>13, <1>14, <1>15, <1>16
       DEF Next, PostClaim, ClaimProcessor, Surroundings

LEMMA RowsInit == Init => RowsAreFew
  BY BoundsAssumption DEF Init, RowsAreFew, NoRows, NoProc, SignedPcs, RecordingPcs

LEMMA RowsNext ==
  ASSUME TypeOK, RowsAreFew, [Next]_vars
  PROVE  RowsAreFew'
  <1> USE DEF dbVars, history, counts, unheard
  <1>a. /\ proc.pc \in SignedPcs => proc.tx \in 1..MaxTxs
        /\ lost \in Nat /\ transactions \in [1..MaxTxs -> Nat] /\ claims \in [1..MaxTxs -> Nat]
    BY BoundsAssumption DEF TypeOK, DatabaseOK, ServerOK, HistoryOK
  <1>1. ASSUME UNCHANGED <<transactions, claims, lost>>,
               \/ UNCHANGED proc
               \/ proc'.pc \notin SignedPcs
               \/ /\ proc.pc \in SignedPcs \ {"transaction", "claim", "dequeue"}
                  /\ proc'.tx = proc.tx
        PROVE  RowsAreFew'
    BY <1>1 DEF RowsAreFew
  <1>2. ASSUME UNCHANGED <<transactions, claims, lost>>,
               proc.pc \in SignedPcs \ {"transaction", "claim", "dequeue"},
               UNCHANGED proc \/ \E next \in SignedPcs : Processor(next)
        PROVE  RowsAreFew'
    <2>1. proc'.tx = proc.tx
      BY <1>2 DEF Processor, TypeOK, ServerOK
    <2> QED
      BY <1>1, <1>2, <2>1
  <1>3. ASSUME UNCHANGED <<transactions, claims, lost, proc>> PROVE RowsAreFew'
    BY <1>1, <1>3
  <1>4. CASE PostClaim
    BY <1>3, <1>4 DEF PostClaim, Receive, CheckQueue, CheckBalance, CheckLast, Insert
  <1>5. ASSUME NEW m \in Miners, Pick(m) PROVE RowsAreFew'
    BY <1>1, <1>5 DEF Pick, SignedPcs, RecordingPcs
  <1>6. CASE Sign
    <2>1. CASE txs' = Append(txs, Payment) /\ Len(txs) < MaxTxs
               /\ proc' = [proc EXCEPT !.pc = "send", !.tx = Len(txs) + 1]
      <3>1. /\ proc'.pc = "send" /\ proc'.tx = Len(txs) + 1
            /\ UNCHANGED <<transactions, claims, lost>>
        BY <1>6, <2>1 DEF Sign, TypeOK, ServerOK
      <3>2. /\ Len(txs) \in Nat /\ Len(txs) + 1 \in 1..MaxTxs
            /\ Len(txs) + 1 \notin Booked \cup Claimed
        BY <2>1, BoundsAssumption DEF TypeOK, DatabaseOK
      <3>3. transactions[Len(txs) + 1] = 0 /\ claims[Len(txs) + 1] = 0
        BY <1>a, <3>2 DEF Booked, Claimed
      <3> QED
        BY <1>a, <3>1, <3>3 DEF RowsAreFew
    <2>2. CASE proc' = NoProc
      BY <1>1, <1>6, <2>2 DEF Sign, NoProc, SignedPcs, RecordingPcs
    <2> QED
      BY <1>6, <2>1, <2>2 DEF Sign
  <1>7. CASE Send \/ PollConfirmed \/ PollExpired
    <2>1. CASE proc' = NoProc
      BY <1>1, <1>7, <2>1 DEF Send, PollConfirmed, PollExpired, NoProc, SignedPcs, RecordingPcs
    <2>2. CASE proc' # NoProc
      BY <1>2, <1>7, <2>2 DEF Send, PollConfirmed, PollExpired, SignedPcs, RecordingPcs
    <2> QED
      BY <2>1, <2>2
  <1>8. CASE GiveUp \/ Dequeue \/ Restart
    BY <1>1, <1>8 DEF GiveUp, Dequeue, Restart, NoProc, SignedPcs, RecordingPcs
  <1>9. CASE DecreaseMinerReward \/ UpdatePoolClaimed
    <2>1. /\ UNCHANGED <<transactions, claims>> /\ lost' \in {lost, lost + 1}
          /\ proc.pc \in {"deduct", "claimed"} /\ proc'.tx = proc.tx
      BY <1>9
         DEF DecreaseMinerReward, UpdatePoolClaimed, Answered, Unanswered, Processor, TypeOK,
             ServerOK
    <2>2. lost <= lost'
      BY <1>a, <2>1
    <2> QED
      BY <1>a, <2>1, <2>2 DEF RowsAreFew, SignedPcs, RecordingPcs
  <1>10. CASE AddNewTransaction
    <2>1. /\ proc.pc = "transaction" /\ proc'.tx = proc.tx /\ UNCHANGED claims
          /\ \/ proc'.pc = "claim" /\ lost' = lost
             \/ proc'.pc = "transaction" /\ lost' = lost + 1
      BY <1>10 DEF AddNewTransaction, Answered, Unanswered, Processor, TypeOK, ServerOK
    <2>2. proc.tx \in 1..MaxTxs
      BY <1>a, <2>1 DEF SignedPcs, RecordingPcs
    <2>3. /\ transactions[proc.tx] <= lost /\ claims[proc.tx] <= lost
          /\ \A u \in 1..MaxTxs : transactions[u] <= 1 + lost /\ claims[u] <= 1 + lost
      BY <2>1 DEF RowsAreFew, SignedPcs, RecordingPcs
    <2>4. /\ transactions'[proc.tx] = transactions[proc.tx] + 1
          /\ \A u \in 1..MaxTxs : u # proc.tx => transactions'[u] = transactions[u]
      BY <1>10, TransactionAdded
    <2>5. \A u \in 1..MaxTxs : transactions'[u] <= 1 + lost' /\ claims'[u] <= 1 + lost'
      BY <1>a, <2>1, <2>2, <2>3, <2>4
    <2>6. /\ proc'.pc \notin {"claim", "dequeue"} => transactions'[proc.tx] <= lost'
          /\ claims'[proc.tx] <= lost'
      BY <1>a, <2>1, <2>2, <2>3, <2>4
    <2> QED
      BY <2>1, <2>5, <2>6 DEF RowsAreFew
  <1>11. CASE AddNewClaim
    <2>1. /\ proc.pc = "claim" /\ proc'.tx = proc.tx /\ UNCHANGED transactions
          /\ \/ proc'.pc = "dequeue" /\ lost' = lost
             \/ proc'.pc = "claim" /\ lost' = lost + 1
      BY <1>11 DEF AddNewClaim, Answered, Unanswered, Processor, TypeOK, ServerOK
    <2>2. proc.tx \in 1..MaxTxs
      BY <1>a, <2>1 DEF SignedPcs, RecordingPcs
    <2>3. /\ claims[proc.tx] <= lost
          /\ \A u \in 1..MaxTxs : transactions[u] <= 1 + lost /\ claims[u] <= 1 + lost
      BY <2>1 DEF RowsAreFew, SignedPcs, RecordingPcs
    <2>4. /\ claims'[proc.tx] = claims[proc.tx] + 1
          /\ \A u \in 1..MaxTxs : u # proc.tx => claims'[u] = claims[u]
      BY <1>11, ClaimAdded
    <2>5. \A u \in 1..MaxTxs : transactions'[u] <= 1 + lost' /\ claims'[u] <= 1 + lost'
      BY <1>a, <2>1, <2>2, <2>3, <2>4
    <2>6. proc'.pc # "dequeue" => claims'[proc.tx] <= lost'
      BY <1>a, <2>1, <2>2, <2>3, <2>4
    <2> QED
      BY <2>1, <2>5, <2>6 DEF RowsAreFew
  <1>12. CASE Chain
    BY <1>3, <1>12, ChainAges DEF TypeOK
  <1>13. ASSUME NEW m \in Miners, HalfHourPasses(m) \/ UpdateRewards(m) PROVE RowsAreFew'
    BY <1>3, <1>13 DEF HalfHourPasses, UpdateRewards
  <1>14. CASE UNCHANGED vars
    BY <1>3, <1>14 DEF vars
  <1> QED
    BY <1>4, <1>5, <1>6, <1>7, <1>8, <1>9, <1>10, <1>11, <1>12, <1>13, <1>14
       DEF Next, ClaimProcessor, Surroundings

LEMMA HeldInit == Init => OverlapIsSeen /\ QueueIsHeld /\ AmountsAreCovered
  <1> SUFFICES ASSUME Init PROVE OverlapIsSeen /\ QueueIsHeld /\ AmountsAreCovered
    OBVIOUS
  <1>1. /\ \A r \in Requests : request[r].pc = "idle"
        /\ \A m \in Miners : queue[m] = None /\ balance[m] >= 0
        /\ proc.pc = "idle"
    BY AmountAssumption DEF Init, EmptyQueue, NoRequest, NoProc
  <1> QED
    BY <1>1 DEF OverlapIsSeen, QueueIsHeld, AmountsAreCovered

LEMMA HeldNext ==
  ASSUME TypeOK, OverlapIsSeen, QueueIsHeld, AmountsAreCovered, [Next]_vars
  PROVE  OverlapIsSeen' /\ QueueIsHeld' /\ AmountsAreCovered'
  <1> DEFINE Held == OverlapIsSeen /\ QueueIsHeld /\ AmountsAreCovered
  <1> USE DEF dbVars, history, counts, unheard
  <1>a. /\ balance \in [Miners -> Int] /\ queue \in [Miners -> Claim \cup {None}]
        /\ proc.pc # "idle" => proc.m \in Miners /\ proc.item \in Claim
        /\ \A r \in Requests : Miner[r] \in Miners /\ request[r].amount \in Nat
        /\ \A m \in Miners : queue[m] # None => queue[m].amount \in Nat
        /\ accepted \in Nat /\ deductedUnheard \in [Miners -> Nat]
        /\ \A m \in Miners : queue[m] # None => queue[m].id \in Nat
        /\ proc.pc # "idle" => proc.item.id \in Nat
    <2>1. \A m \in Miners : queue[m] # None => queue[m] \in Claim
      BY DEF TypeOK, ServerOK
    <2>2. \A r \in Requests : request[r].amount \in Amounts \cup {0}
      BY DEF TypeOK, ServerOK
    <2>3. \A r \in Requests : Miner[r] \in Miners /\ request[r].amount \in Nat
      <3>1. Amounts \cup {0} \subseteq Nat
        BY AmountAssumption
      <3> QED
        BY <2>2, <3>1, MinerAssumption
    <2>4. \A m \in Miners : queue[m] # None => queue[m].amount \in Nat /\ queue[m].id \in Nat
      BY <2>1, AmountAssumption DEF Claim
    <2>5. proc.pc # "idle" => proc.m \in Miners /\ proc.item \in Claim
      BY DEF TypeOK, ServerOK
    <2>6. proc.pc # "idle" => proc.item.id \in Nat
      BY <2>5 DEF Claim
    <2> QED
      BY <2>3, <2>4, <2>5, <2>6 DEF TypeOK, DatabaseOK, ServerOK, HistoryOK
  <1>1. ASSUME UNCHANGED <<balance, queue, request, accepted, overlapped, deductedUnheard>>,
               \/ proc'.pc = "idle"
               \/ proc.pc # "idle" /\ proc'.m = proc.m /\ proc'.item = proc.item
               \/ proc'.m \in Miners /\ queue[proc'.m] # None /\ queue[proc'.m] = proc'.item,
               \A m \in Miners : proc.m = m /\ proc.pc \in RecordingPcs \ {"deduct"}
                 => \/ queue[m] = None
                    \/ proc'.m = m /\ proc'.pc \in RecordingPcs \ {"deduct"}
        PROVE  Held'
    <2>1. OverlapIsSeen'
      BY <1>1 DEF OverlapIsSeen
    <2>2. QueueIsHeld'
      BY <1>1 DEF QueueIsHeld
    <2>3. AmountsAreCovered'
      BY <1>1 DEF AmountsAreCovered, Sound
    <2> QED
      BY <2>1, <2>2, <2>3
  <1>2. ASSUME UNCHANGED <<balance, queue, request, proc, accepted, overlapped,
                           deductedUnheard>>
        PROVE  Held'
    BY <1>2 DEF OverlapIsSeen, QueueIsHeld, AmountsAreCovered, Sound
  <1>3. ASSUME NEW r \in Requests, NEW amount \in Amounts, Receive(r, amount) PROVE Held'
    <2>1. /\ UNCHANGED <<balance, queue, proc, accepted, deductedUnheard>>
          /\ request[r].pc = "idle" /\ request'[r].pc = "queue"
          /\ \A s \in Requests \ {r} : request'[s] = request[s]
          /\ overlapped \subseteq overlapped'
          /\ \A s \in Requests :
               Miner[s] = Miner[r] /\ request[s].pc # "idle" => Miner[r] \in overlapped'
      BY <1>3 DEF Receive, TypeOK, ServerOK
    <2>2. OverlapIsSeen'
      BY <2>1 DEF OverlapIsSeen
    <2>3. QueueIsHeld'
      BY <2>1 DEF QueueIsHeld
    <2>4. AmountsAreCovered'
      <3>1. \A m : Sound(m)' => Sound(m)
        BY <2>1 DEF Sound
      <3>2. \A s \in Requests : request'[s].pc \in {"last", "insert"} =>
              request[s].pc \in {"last", "insert"} /\ request'[s].amount = request[s].amount
        BY <2>1
      <3> QED
        BY <2>1, <3>1, <3>2 DEF AmountsAreCovered
    <2> QED
      BY <2>2, <2>3, <2>4
  <1>4. ASSUME NEW r \in Requests, CheckQueue(r) \/ CheckBalance(r) \/ CheckLast(r) PROVE Held'
    <2>1. /\ UNCHANGED <<balance, queue, proc, accepted, overlapped, deductedUnheard>>
          /\ \A s \in Requests \ {r} : request'[s] = request[s]
      BY <1>4 DEF CheckQueue, CheckBalance, CheckLast, Answer, TypeOK, ServerOK
    <2>2. \/ request'[r].pc = "idle"
          \/ request'[r].pc = "balance" /\ queue[Miner[r]] = None
          \/ /\ request[r].pc = "balance" /\ request'[r].pc = "last"
             /\ request'[r].amount = request[r].amount /\ Covered(Miner[r], request[r].amount)
          \/ /\ request[r].pc = "last" /\ request'[r].pc = "insert"
             /\ request'[r].amount = request[r].amount
      <3>1. request[r] \in [pc: RequestPcs, amount: Amounts \cup {0}]
        BY DEF TypeOK, ServerOK
      <3>2. CASE CheckQueue(r)
        BY <3>1, <3>2 DEF CheckQueue, Answer, NoRequest, TypeOK, ServerOK
      <3>3. CASE CheckBalance(r)
        BY <3>1, <3>3 DEF CheckBalance, Answer, NoRequest, TypeOK, ServerOK
      <3>4. CASE CheckLast(r)
        BY <3>1, <3>4 DEF CheckLast, Answer, NoRequest, TypeOK, ServerOK
      <3> QED
        BY <1>4, <3>2, <3>3, <3>4
    <2>3. Covered(Miner[r], request[r].amount) /\ Sound(Miner[r])
            => request[r].amount <= balance[Miner[r]]
      BY <1>a DEF Covered, AmountsAreCovered
    <2>4. request'[r].pc # "idle" => request[r].pc # "idle"
      BY <1>4 DEF CheckQueue, CheckBalance, CheckLast
    <2>5. OverlapIsSeen'
      BY <2>1, <2>4 DEF OverlapIsSeen
    <2>6. QueueIsHeld'
      BY <2>1, <2>2 DEF QueueIsHeld
    <2>7. AmountsAreCovered'
      BY <2>1, <2>2, <2>3 DEF AmountsAreCovered, Sound
    <2> QED
      BY <2>5, <2>6, <2>7
  <1>5. ASSUME NEW r \in Requests, Insert(r) PROVE Held'
    <2>1. /\ UNCHANGED <<balance, proc, overlapped, deductedUnheard>>
          /\ request[r].pc = "insert" /\ accepted' = accepted + 1
          /\ queue'[Miner[r]] # None /\ queue'[Miner[r]].amount = request[r].amount
          /\ queue'[Miner[r]].id = accepted + 1
          /\ \A m \in Miners \ {Miner[r]} : queue'[m] = queue[m]
          /\ request'[r].pc = "idle"
          /\ \A s \in Requests \ {r} : request'[s] = request[s]
      <3>1. [id |-> accepted + 1, amount |-> request[r].amount] \in Claim
        BY <1>5 DEF Insert, TypeOK, ServerOK, HistoryOK, Claim
      <3> QED
        BY <1>a, <1>5, <3>1, NoneAssumption
           DEF Insert, Answer, NoRequest, TypeOK, ServerOK
    <2>2. /\ queue[Miner[r]] = None \/ Miner[r] \in overlapped
          /\ Sound(Miner[r]) => request[r].amount <= balance[Miner[r]]
      BY <2>1 DEF QueueIsHeld, AmountsAreCovered
    <2>3. proc.pc # "idle" /\ proc.m = Miner[r] => Miner[r] \in overlapped
      BY <2>2 DEF QueueIsHeld
    <2>4. \A s \in Requests \ {r} :
            Miner[s] = Miner[r] /\ request[s].pc # "idle" => Miner[r] \in overlapped
      BY <2>1 DEF OverlapIsSeen
    <2>5. OverlapIsSeen'
      BY <2>1 DEF OverlapIsSeen
    <2>6. QueueIsHeld'
      <3>1. \A s \in Requests : request'[s].pc \in {"balance", "last", "insert"}
              => queue'[Miner[s]] = None \/ Miner[s] \in overlapped
        BY <1>a, <2>1, <2>4 DEF QueueIsHeld
      <3>2. proc.pc # "idle" =>
              /\ queue'[proc.m] # None
              /\ \/ queue'[proc.m] = proc.item
                 \/ proc.m \in overlapped /\ queue'[proc.m].id > proc.item.id
        BY <1>a, <2>1, <2>3 DEF QueueIsHeld
      <3>3. /\ \A m \in Miners : queue'[m] # None => queue'[m].id <= accepted'
            /\ proc.pc # "idle" => proc.item.id <= accepted'
        BY <1>a, <2>1 DEF QueueIsHeld
      <3> QED
        BY <2>1, <3>1, <3>2, <3>3 DEF QueueIsHeld
    <2>7. AmountsAreCovered'
      <3>1. \A m \in Miners : Sound(m)' <=> Sound(m)
        BY <2>1 DEF Sound
      <3>2. proc.pc \in RecordingPcs /\ proc.m = Miner[r] => ~ Sound(Miner[r])
        BY <2>3 DEF Sound, RecordingPcs
      <3> QED
        BY <1>a, <2>1, <2>2, <3>1, <3>2 DEF AmountsAreCovered
    <2> QED
      BY <2>5, <2>6, <2>7
  <1>6. ASSUME NEW m \in Miners, Pick(m) PROVE Held'
    <2>1. /\ UNCHANGED <<balance, queue, request, accepted, overlapped, deductedUnheard>>
          /\ proc.pc = "idle" /\ queue[m] # None
          /\ proc'.m = m /\ proc'.item = queue[m]
      BY <1>6 DEF Pick
    <2> QED
      BY <1>1, <2>1 DEF RecordingPcs
  <1>7. CASE Sign \/ Send \/ PollConfirmed \/ PollExpired \/ GiveUp
    <2>1. /\ UNCHANGED <<balance, queue, request, accepted, overlapped, deductedUnheard>>
          /\ proc.pc # "idle" /\ proc.pc \notin RecordingPcs
          /\ \/ proc'.pc = "idle"
             \/ proc'.m = proc.m /\ proc'.item = proc.item
      <3>1. proc \in [pc: {"idle", "sign"} \cup SignedPcs, m: Miners \cup {None},
                      item: Claim \cup {None}, tx: Nat]
        BY DEF TypeOK, ServerOK
      <3>2. CASE Sign
        <4>1. \/ proc' = [proc EXCEPT !.pc = "send", !.tx = Len(txs) + 1]
              \/ proc' = NoProc
          BY <3>2 DEF Sign
        <4>2. \/ proc'.pc = "idle"
              \/ proc'.m = proc.m /\ proc'.item = proc.item
          <5>1. proc' = NoProc => proc'.pc = "idle"
            BY DEF NoProc
          <5>2. proc' = [proc EXCEPT !.pc = "send", !.tx = Len(txs) + 1]
                  => proc'.m = proc.m /\ proc'.item = proc.item
            BY DEF TypeOK, ServerOK
          <5> QED
            BY <4>1, <5>1, <5>2
        <4>3. /\ UNCHANGED <<balance, queue, request, accepted, overlapped, deductedUnheard>>
              /\ proc.pc = "sign"
          BY <3>2 DEF Sign
        <4> QED
          BY <4>2, <4>3 DEF RecordingPcs
      <3>3. CASE Send
        BY <3>1, <3>3 DEF Send, Processor, RecordingPcs
      <3>4. CASE PollConfirmed
        BY <3>1, <3>4 DEF PollConfirmed, Processor, NoProc, RecordingPcs
      <3>5. CASE PollExpired \/ GiveUp
        BY <3>1, <3>5 DEF PollExpired, GiveUp, Processor, NoProc, RecordingPcs
      <3> QED
        BY <1>7, <3>2, <3>3, <3>4, <3>5
    <2> QED
      BY <1>1, <1>a, <2>1
  <1>8. CASE DecreaseMinerReward
    <2>1. /\ UNCHANGED <<queue, request, accepted, overlapped>> /\ proc.pc = "deduct"
          /\ balance'[proc.m] = balance[proc.m] - proc.item.amount
          /\ \A m \in Miners \ {proc.m} : balance'[m] = balance[m]
          /\ proc'.m = proc.m /\ proc'.item = proc.item
      BY <1>a, <1>8 DEF DecreaseMinerReward, Answered, Unanswered, Processor, TypeOK, ServerOK
    <2>2. /\ proc.m \in Miners /\ queue[proc.m] # None
          /\ Sound(proc.m) => queue[proc.m] = proc.item
      BY <1>a, <2>1 DEF QueueIsHeld, Sound
    <2>3. /\ proc.item.amount \in Nat /\ proc.item.amount > 0
          /\ Sound(proc.m) => proc.item.amount <= balance[proc.m]
      <3>1. proc.item.amount \in Nat /\ proc.item.amount > 0
        <4>1. proc.item \in Claim
          BY <1>a, <2>1
        <4>2. proc.item.amount \in Amounts
          BY <4>1 DEF Claim
        <4>3. proc.item.amount \in Nat \ {0}
          BY <4>2, AmountAssumption
        <4> QED
          BY <4>3
      <3>2. queue[proc.m] # None /\ Sound(proc.m) => queue[proc.m].amount <= balance[proc.m]
        BY <2>1, <2>2 DEF AmountsAreCovered
      <3> QED
        BY <2>2, <3>1, <3>2
    <2>4. \A r \in Requests : request[r].pc \in {"last", "insert"} /\ Miner[r] = proc.m
            => ~ Sound(proc.m)
      BY <2>2 DEF QueueIsHeld, Sound
    <2>5. /\ \A m \in Miners \ {proc.m} : deductedUnheard'[m] = deductedUnheard[m]
          /\ \/ proc'.pc = "claimed" /\ UNCHANGED deductedUnheard
             \/ deductedUnheard'[proc.m] > 0
      BY <1>8, <1>a, <2>1, <2>2, <2>3
         DEF DecreaseMinerReward, Answered, Unanswered, Processor, TypeOK, ServerOK
    <2>6. \A m \in Miners : Sound(m)' => Sound(m) /\ (m = proc.m => proc'.pc = "claimed")
      BY <1>a, <2>1, <2>5 DEF Sound
    <2>7. OverlapIsSeen'
      BY <2>1 DEF OverlapIsSeen
    <2>8. QueueIsHeld'
      BY <2>1 DEF QueueIsHeld
    <2>9. AmountsAreCovered'
      <3>1. \A r \in Requests : request[r].pc \in {"last", "insert"} /\ Sound(Miner[r])'
              => request[r].amount <= balance'[Miner[r]]
        BY <1>a, <2>1, <2>4, <2>6 DEF AmountsAreCovered
      <3>2. \A m \in Miners :
              /\ queue[m] # None /\ Sound(m)'
              /\ ~(proc'.m = m /\ proc'.pc \in RecordingPcs \ {"deduct"})
            => queue[m].amount <= balance'[m]
        BY <1>a, <2>1, <2>6 DEF AmountsAreCovered, RecordingPcs
      <3>3. \A m \in Miners : Sound(m)' => balance'[m] >= 0
        BY <1>a, <2>1, <2>2, <2>3, <2>6 DEF AmountsAreCovered
      <3>4. UNCHANGED <<queue, request>>
        BY <2>1
      <3> QED
        BY <3>1, <3>2, <3>3, <3>4 DEF AmountsAreCovered
    <2> QED
      BY <2>7, <2>8, <2>9
  <1>9. CASE UpdatePoolClaimed \/ AddNewTransaction \/ AddNewClaim
    <2>1. /\ UNCHANGED <<balance, queue, request, accepted, overlapped, deductedUnheard>>
          /\ proc.pc # "idle" /\ proc'.m = proc.m /\ proc'.item = proc.item
          /\ proc'.pc \in RecordingPcs \ {"deduct"}
      BY <1>9
         DEF UpdatePoolClaimed, AddNewTransaction, AddNewClaim, Answered, Unanswered, Processor,
             RecordingPcs, TypeOK, ServerOK
    <2> QED
      BY <1>1, <1>a, <2>1
  <1>10. CASE Dequeue
    <2>1. /\ UNCHANGED <<balance, request, accepted, overlapped, deductedUnheard>>
          /\ proc'.pc = "idle"
          /\ \A m \in Miners : queue'[m] = IF m = proc.m THEN None ELSE queue[m]
      BY <1>a, <1>10 DEF Dequeue, NoProc
    <2>2. OverlapIsSeen'
      BY <2>1 DEF OverlapIsSeen
    <2>3. QueueIsHeld'
      BY <1>a, <2>1 DEF QueueIsHeld
    <2>4. AmountsAreCovered'
      <3>1. \A m : Sound(m)' <=> Sound(m)
        BY <2>1 DEF Sound
      <3>2. \A m \in Miners : queue'[m] # None => queue'[m] = queue[m] /\ m # proc.m
        BY <2>1
      <3> QED
        BY <2>1, <3>1, <3>2 DEF AmountsAreCovered
    <2> QED
      BY <2>2, <2>3, <2>4
  <1>11. CASE Chain
    BY <1>2, <1>11, ChainAges DEF TypeOK
  <1>12. CASE Restart
    <2>1. /\ UNCHANGED <<balance, accepted, overlapped, deductedUnheard>> /\ proc'.pc = "idle"
          /\ \A m \in Miners : queue'[m] = None
          /\ \A r \in Requests : request'[r].pc = "idle"
      BY <1>12 DEF Restart, EmptyQueue, NoRequest, NoProc
    <2>2. OverlapIsSeen' /\ QueueIsHeld'
      BY <2>1 DEF OverlapIsSeen, QueueIsHeld
    <2>3. \A m : Sound(m)' <=> Sound(m)
      BY <2>1 DEF Sound
    <2>4. AmountsAreCovered'
      BY <2>1, <2>3 DEF AmountsAreCovered
    <2> QED
      BY <2>2, <2>4
  <1>13. ASSUME NEW m \in Miners, HalfHourPasses(m) PROVE Held'
    BY <1>2, <1>13 DEF HalfHourPasses
  <1>14. ASSUME NEW m \in Miners, UpdateRewards(m) PROVE Held'
    <2>1. /\ UNCHANGED <<queue, request, proc, accepted, overlapped, deductedUnheard>>
          /\ \A n \in Miners : balance'[n] \in Int /\ balance[n] <= balance'[n]
      BY <1>a, <1>14 DEF UpdateRewards
    <2>2. OverlapIsSeen' /\ QueueIsHeld'
      BY <2>1 DEF OverlapIsSeen, QueueIsHeld
    <2>3. AmountsAreCovered'
      BY <1>a, <2>1 DEF AmountsAreCovered, Sound
    <2> QED
      BY <2>2, <2>3
  <1>15. CASE UNCHANGED vars
    BY <1>2, <1>15 DEF vars
  <1> QED
    BY <1>3, <1>4, <1>5, <1>6, <1>7, <1>8, <1>9, <1>10, <1>11, <1>12, <1>13, <1>14, <1>15
       DEF Next, PostClaim, ClaimProcessor, Surroundings

(* Whatever fails, however many requests a miner has: a balance is only negative *)
(* when two of its requests overlapped or the answer of a deduction was lost.    *)
(* For any other miner a claim is covered when it is accepted, and nothing else  *)
(* is deducted before it.                                                        *)
THEOREM NeverOverdrawnCorrect == Spec => []NeverOverdrawn
  <1> DEFINE Inv == TypeOK /\ OverlapIsSeen /\ QueueIsHeld /\ AmountsAreCovered
  <1>1. Init => Inv
    BY TypeInit, HeldInit
  <1>2. Inv /\ [Next]_vars => Inv'
    BY TypeNext, HeldNext
  <1>3. Inv => NeverOverdrawn
    <2> SUFFICES ASSUME Inv, NEW m \in Miners, balance[m] < 0, m \notin overlapped
                 PROVE  deductedUnheard[m] > 0
      BY DEF NeverOverdrawn
    <2>1. balance[m] \in Int /\ deductedUnheard[m] \in Nat
      BY DEF TypeOK, DatabaseOK, HistoryOK
    <2> QED
      BY <2>1 DEF AmountsAreCovered, Sound
  <1> QED
    BY <1>1, <1>2, <1>3, PTL DEF Spec

(* Whatever fails, however many requests a miner has: an accepted claim leaves  *)
(* the queue only paid and recorded, with a restart, or superseded by a request *)
(* that overlapped with its own.                                                *)
THEOREM OnlyPaidLeaveCorrect == Spec => OnlyPaidLeaveQueue
  <1> DEFINE Inv == TypeOK /\ OverlapIsSeen /\ QueueIsHeld /\ AmountsAreCovered /\ RecordsPayment
             Paying == \A m \in Miners :
               queue[m] # None /\ queue'[m] # queue[m] /\ restarts' = restarts
                 => PaidAndRecorded(queue[m].id) \/ Superseded(m)
  <1>1. Init => Inv
    BY TypeInit, HeldInit, RecordsInit
  <1>2. Inv /\ [Next]_vars => Inv'
    BY TypeNext, HeldNext, RecordsNext
  <1>3. Inv /\ [Next]_vars => [Paying]_vars
    <2> SUFFICES ASSUME Inv, Next, NEW m \in Miners, queue[m] # None, queue'[m] # queue[m],
                        restarts' = restarts
                 PROVE  PaidAndRecorded(queue[m].id) \/ Superseded(m)
      BY DEF vars
    <2> USE DEF dbVars, history, counts, unheard
    <2>1. ~ Restart
      BY DEF Restart, TypeOK, HistoryOK
    <2>2. ASSUME NEW r \in Requests, Insert(r) PROVE Superseded(m)
      <3>1. /\ m = Miner[r] /\ accepted \in Nat /\ request[r].pc = "insert"
            /\ queue'[m] = [id |-> accepted + 1, amount |-> request[r].amount]
        BY <2>2, MinerAssumption DEF Insert, TypeOK, ServerOK, HistoryOK
      <3>2. /\ m \in overlapped /\ queue[m].id <= accepted
            /\ queue[m] \in Claim
        BY <3>1 DEF QueueIsHeld, TypeOK, ServerOK
      <3>3. queue'[m] \in Claim
        BY <2>2, <3>1 DEF Insert, Claim, TypeOK, ServerOK
      <3>4. queue'[m] # None /\ queue'[m].id > queue[m].id
        BY <3>1, <3>2, <3>3, NoneAssumption DEF Claim
      <3> QED
        BY <3>2, <3>4 DEF Superseded
    <2>3. CASE Dequeue
      <3>1. m = proc.m /\ proc.pc = "dequeue"
        BY <2>3 DEF Dequeue, TypeOK, ServerOK
      <3>2. /\ proc.tx \in Claimed /\ Executed(proc.tx) /\ txs[proc.tx].m = m
            /\ txs[proc.tx].claim = proc.item.id
        BY <3>1 DEF RecordsPayment, SignedPcs, RecordingPcs
      <3>3. CASE queue[m] = proc.item
        BY <3>2, <3>3 DEF PaidAndRecorded
      <3>4. CASE m \in overlapped /\ queue[m].id > proc.item.id
        <4>1. queue[m].id \in Nat /\ proc.item.id \in Nat
          BY <3>1 DEF TypeOK, ServerOK, Claim
        <4> QED
          BY <3>2, <3>4, <4>1 DEF Superseded
      <3> QED
        BY <3>1, <3>3, <3>4 DEF QueueIsHeld
    <2> QED
      BY <2>1, <2>2, <2>3, ChainAges
         DEF Next, PostClaim, ClaimProcessor, Surroundings, Receive, CheckQueue, CheckBalance,
             CheckLast, Pick, Sign, Send, PollConfirmed, PollExpired, GiveUp,
             DecreaseMinerReward, UpdatePoolClaimed, AddNewTransaction, AddNewClaim,
             HalfHourPasses, UpdateRewards, TypeOK
  <1> QED
    BY <1>1, <1>2, <1>3, PTL DEF Spec, OnlyPaidLeaveQueue

-----------------------------------------------------------------------------
(* The ledger.                                                             *)

(* The amounts that Total sums up. *)
Parts(s, T) == [t \in DOMAIN s |-> IF t \in T THEN s[t].amount ELSE 0]

LEMMA PartsType ==
  ASSUME NEW s \in Seq(Tx), NEW T
  PROVE  /\ Len(s) \in Nat /\ DOMAIN s = 1..Len(s)
         /\ Total(s, T) = SumTo(Parts(s, T), Len(s))
         /\ \A t \in 1..Len(s) : /\ Parts(s, T)[t] = IF t \in T THEN s[t].amount ELSE 0
                                 /\ Parts(s, T)[t] \in Nat
  <1>1. \A t \in DOMAIN s : s[t].amount \in Nat
    <2>1. \A t \in DOMAIN s : s[t] \in Tx
      OBVIOUS
    <2> QED
      BY <2>1, AmountAssumption DEF Tx
  <1> QED
    BY <1>1 DEF Parts, Total

LEMMA TotalType ==
  ASSUME NEW s \in Seq(Tx), NEW T
  PROVE  Total(s, T) \in Nat
  BY PartsType, SumOfNaturals

(* A transaction more. *)
LEMMA TotalMore ==
  ASSUME NEW s \in Seq(Tx), NEW T, NEW t \in DOMAIN s, t \notin T
  PROVE  Total(s, T \cup {t}) = Total(s, T) + s[t].amount
  <1> DEFINE f == Parts(s, T)
             g == Parts(s, T \cup {t})
  <1>1. /\ Numbers(f, Len(s)) /\ g[t] \in Int /\ t \in 1..Len(s) /\ Len(s) \in Nat
        /\ \A i \in 1..Len(s) : i # t => g[i] = f[i]
    BY PartsType DEF Numbers
  <1>2. f[t] = 0 /\ g[t] = s[t].amount
    BY PartsType
  <1>3. Total(s, T) = SumTo(f, Len(s)) /\ Total(s, T \cup {t}) = SumTo(g, Len(s))
    BY PartsType
  <1> HIDE DEF f, g
  <1>4. SumTo(g, Len(s)) = SumTo(f, Len(s)) + (g[t] - f[t])
    BY <1>1, SumChanged
  <1> QED
    BY <1>1, <1>2, <1>3, <1>4, SumType

(* Transactions keep their total, whatever follows them. *)
LEMMA TotalSame ==
  ASSUME NEW s \in Seq(Tx), NEW s2 \in Seq(Tx), DOMAIN s \subseteq DOMAIN s2,
         \A t \in DOMAIN s : s2[t].amount = s[t].amount, NEW T, T \subseteq DOMAIN s
  PROVE  Total(s2, T) = Total(s, T)
  <1> DEFINE f == Parts(s, T)
             g == Parts(s2, T)
             n == Len(s2) - Len(s)
             zeros == [i \in 1..n |-> 0]
  <1>1. n \in Nat /\ Len(s) \in Nat /\ Len(s2) = Len(s) + n
    <2>1. Len(s) <= Len(s2)
      <3>1. Len(s) \in Nat /\ Len(s2) \in Nat /\ 1..Len(s) \subseteq 1..Len(s2)
        BY PartsType
      <3> QED
        BY <3>1
    <2> QED
      BY <2>1, PartsType
  <1>2. Continued(g, f, Len(s), zeros, n)
    BY <1>1, PartsType DEF Continued, Numbers
  <1>3. Total(s, T) = SumTo(f, Len(s)) /\ Total(s2, T) = SumTo(g, Len(s) + n)
    BY <1>1, PartsType
  <1>4. SumTo(f, Len(s)) \in Nat
    BY <1>3, TotalType
  <1>5. \A i \in 1..n : zeros[i] = 0
    OBVIOUS
  <1> HIDE DEF f, g, n, zeros
  <1>6. SumTo(zeros, n) = 0
    BY <1>1, <1>5, SumOfZeros
  <1>7. SumTo(g, Len(s) + n) = SumTo(f, Len(s)) + SumTo(zeros, n)
    BY <1>1, <1>2, SumContinued
  <1> QED
    BY <1>3, <1>4, <1>6, <1>7

(* What is left to deduct, and to record, of the payment under way. *)
ToDeduct(m) ==
  IF proc.m = m /\ proc.pc \in {"send", "poll", "expired", "deduct"} /\ Executed(proc.tx)
  THEN proc.item.amount
  ELSE 0
ToRecord(m) ==
  IF proc.m = m /\ proc.pc \in {"claimed", "transaction", "claim"} /\ proc.tx \notin Claimed
  THEN proc.item.amount
  ELSE 0

(* A payment comes before its charge, and that before its record. *)
PaymentsLead ==
  \A m \in Miners : /\ Recorded(m) + ToRecord(m) <= Charged(m)
                    /\ Charged(m) + ToDeduct(m) <= Paid(m)

(* Before a restart nothing is forgotten: what may still be executed and has no *)
(* record is the processor's, and what is recorded was added to the pool's      *)
(* claimed rewards, but for what lost answers added to them again.              *)
NothingForgotten ==
  restarts = 0 =>
    /\ \A t \in DOMAIN txs : Alive(t) => t \in Claimed \/ (proc.pc \in SignedPcs /\ t = proc.tx)
    /\ poolClaimed - claimedUnheard = Total(txs, Claimed)
         + IF proc.pc \in {"transaction", "claim"} /\ proc.tx \notin Claimed
           THEN proc.item.amount
           ELSE 0

LedgerInv == TypeOK /\ RecordsPayment /\ PaymentsLead

PaidOf(m) == {t \in Landed : txs[t].m = m}
RecordedOf(m) == {t \in Claimed : txs[t].m = m}

LEMMA LedgerTypes ==
  ASSUME TypeOK, NEW m \in Miners
  PROVE  /\ Paid(m) \in Nat /\ Recorded(m) \in Nat /\ Charged(m) \in Int
         /\ Paid(m) = Total(txs, PaidOf(m)) /\ Recorded(m) = Total(txs, RecordedOf(m))
         /\ ToDeduct(m) \in Nat /\ ToRecord(m) \in Nat
         /\ proc.pc # "idle" => proc.item.amount \in Nat
         /\ PaidOf(m) \subseteq DOMAIN txs /\ RecordedOf(m) \subseteq DOMAIN txs
  <1>1. /\ txs \in Seq(Tx) /\ balance[m] \in Int /\ earned[m] \in Nat
        /\ deductedUnheard[m] \in Nat
    BY DEF TypeOK, DatabaseOK, HistoryOK
  <1>2. proc.pc # "idle" => proc.item.amount \in Nat
    BY AmountAssumption DEF TypeOK, ServerOK, Claim
  <1>3. Paid(m) = Total(txs, PaidOf(m)) /\ Recorded(m) = Total(txs, RecordedOf(m))
    BY DEF Paid, Recorded, PaidOf, RecordedOf
  <1>4. PaidOf(m) \subseteq DOMAIN txs /\ RecordedOf(m) \subseteq DOMAIN txs
    BY DEF PaidOf, RecordedOf, Landed, TypeOK, DatabaseOK
  <1> QED
    BY <1>1, <1>2, <1>3, <1>4, TotalType DEF Charged, ToDeduct, ToRecord

(* No transaction of the past begins or ceases to be executed, and none of the *)
(* new ones is.                                                                *)
SamePaid ==
  /\ txs' \in Seq(Tx) /\ DOMAIN txs \subseteq DOMAIN txs'
  /\ \A t \in DOMAIN txs : /\ txs'[t].m = txs[t].m /\ txs'[t].amount = txs[t].amount
                           /\ Executed(t)' <=> Executed(t)
  /\ \A t \in DOMAIN txs' \ DOMAIN txs : ~ Executed(t)'

LEMMA SameLedger ==
  ASSUME TypeOK, TypeOK', SamePaid, UNCHANGED Claimed
  PROVE  /\ Total(txs, Claimed)' = Total(txs, Claimed)
         /\ \A m \in Miners : Paid(m)' = Paid(m) /\ Recorded(m)' = Recorded(m)
  <1>1. txs \in Seq(Tx) /\ Claimed \subseteq DOMAIN txs
    BY DEF TypeOK, DatabaseOK
  <1>2. \A T : T \subseteq DOMAIN txs => Total(txs', T) = Total(txs, T)
    BY <1>1, TotalSame DEF SamePaid
  <1>3. ASSUME NEW m \in Miners PROVE PaidOf(m)' = PaidOf(m) /\ RecordedOf(m)' = RecordedOf(m)
    BY <1>1 DEF PaidOf, RecordedOf, Landed, SamePaid
  <1>4. ASSUME NEW m \in Miners PROVE Paid(m)' = Paid(m) /\ Recorded(m)' = Recorded(m)
    <2>1. PaidOf(m) \subseteq DOMAIN txs /\ RecordedOf(m) \subseteq DOMAIN txs
      BY LedgerTypes
    <2>2. /\ Paid(m) = Total(txs, PaidOf(m)) /\ Recorded(m) = Total(txs, RecordedOf(m))
          /\ Paid(m)' = Total(txs', PaidOf(m)') /\ Recorded(m)' = Total(txs', RecordedOf(m)')
      BY DEF Paid, Recorded, PaidOf, RecordedOf
    <2> QED
      BY <1>2, <1>3, <2>1, <2>2
  <1> QED
    BY <1>1, <1>2, <1>4

(* Nothing is paid, deducted or recorded. *)
LEMMA LedgerKept ==
  ASSUME LedgerInv, TypeOK', SamePaid, UNCHANGED Claimed,
         \A m \in Miners : /\ Charged(m)' = Charged(m)
                           /\ ToRecord(m)' <= ToRecord(m) /\ ToDeduct(m)' <= ToDeduct(m)
  PROVE  PaymentsLead'
  <1> SUFFICES ASSUME NEW m \in Miners
               PROVE  /\ Recorded(m)' + ToRecord(m)' <= Charged(m)'
                      /\ Charged(m)' + ToDeduct(m)' <= Paid(m)'
    BY DEF PaymentsLead
  <1>1. /\ Recorded(m) + ToRecord(m) <= Charged(m)
        /\ Charged(m) + ToDeduct(m) <= Paid(m)
    BY DEF LedgerInv, PaymentsLead
  <1>2. Paid(m)' = Paid(m) /\ Recorded(m)' = Recorded(m)
    BY SameLedger DEF LedgerInv
  <1>3. /\ Paid(m) \in Nat /\ Recorded(m) \in Nat /\ Charged(m) \in Int
        /\ ToDeduct(m) \in Nat /\ ToRecord(m) \in Nat
    BY LedgerTypes DEF LedgerInv
  <1>4. ToDeduct(m)' \in Nat /\ ToRecord(m)' \in Nat
    <2>1. proc'.pc # "idle" => proc'.item.amount \in Nat
      BY AmountAssumption DEF TypeOK, ServerOK, Claim
    <2> QED
      BY <2>1 DEF ToDeduct, ToRecord
  <1> QED
    BY <1>1, <1>2, <1>3, <1>4

(* The processor goes on with its claim, or leaves it. *)
LEMMA LessIsLeft ==
  ASSUME TypeOK, TypeOK', SamePaid, UNCHANGED Claimed,
         \/ proc'.pc \in {"idle", "sign"}
         \/ /\ proc'.m = proc.m /\ proc'.item = proc.item /\ proc'.tx = proc.tx
            /\ proc'.pc \in {"send", "poll", "expired", "deduct"}
                 => proc.pc \in {"send", "poll", "expired", "deduct"}
            /\ proc'.pc \in {"claimed", "transaction", "claim"}
                 => proc.pc \in {"claimed", "transaction", "claim"},
         NEW m \in Miners
  PROVE  ToRecord(m)' <= ToRecord(m) /\ ToDeduct(m)' <= ToDeduct(m)
  <1>1. ToDeduct(m) \in Nat /\ ToRecord(m) \in Nat
    BY LedgerTypes
  <1>2. CASE proc'.pc \in {"idle", "sign"}
    BY <1>1, <1>2 DEF ToDeduct, ToRecord
  <1>3. CASE /\ proc'.m = proc.m /\ proc'.item = proc.item /\ proc'.tx = proc.tx
             /\ proc'.pc \in {"send", "poll", "expired", "deduct"}
                  => proc.pc \in {"send", "poll", "expired", "deduct"}
             /\ proc'.pc \in {"claimed", "transaction", "claim"}
                  => proc.pc \in {"claimed", "transaction", "claim"}
    <2>1. ToRecord(m)' <= ToRecord(m)
      BY <1>1, <1>3 DEF ToRecord
    <2>2. ToDeduct(m)' <= ToDeduct(m)
      <3>1. CASE proc'.pc \in {"send", "poll", "expired", "deduct"}
        <4>1. proc.tx \in DOMAIN txs
          BY <1>3, <3>1 DEF TypeOK, ServerOK, SignedPcs, RecordingPcs
        <4>2. Executed(proc.tx)' <=> Executed(proc.tx)
          BY <1>3, <4>1 DEF SamePaid, Executed
        <4> QED
          BY <1>1, <1>3, <3>1, <4>2 DEF ToDeduct
      <3>2. CASE proc'.pc \notin {"send", "poll", "expired", "deduct"}
        BY <1>1, <3>2 DEF ToDeduct
      <3> QED
        BY <3>1, <3>2
    <2> QED
      BY <2>1, <2>2
  <1> QED
    BY <1>2, <1>3

(* The chain executes a transaction, or what is paid stays the same. *)
LEMMA ChainPays ==
  ASSUME TypeOK, Chain
  PROVE  \/ SamePaid
         \/ \E t \in DOMAIN txs :
              /\ TxsOnlyAge /\ ~ Executed(t) /\ Executed(t)'
              /\ \A u \in DOMAIN txs : u # t => txs'[u] = txs[u]
  <1>1. PICK t \in DOMAIN txs : Land(t) \/ Fail(t) \/ Drop(t) \/ Finalize(t)
    BY DEF Chain
  <1>2. TxsOnlyAge /\ txs \in Seq(Tx) /\ txs[t] \in Tx
    BY ChainAges DEF TypeOK
  <1>3. PICK status \in Statuses, ok \in BOOLEAN :
          /\ SetStatus(t, status, ok)
          /\ \/ /\ ~ Executed(t)
                /\ (ok /\ status = "confirmed") \/ ~ ok
             \/ /\ txs[t].status = "confirmed" /\ status = "finalized" /\ ok = txs[t].ok
    BY <1>1, <1>2 DEF Land, Fail, Drop, Finalize, Executed, Statuses, Tx
  <1>4. /\ txs'[t] = [txs[t] EXCEPT !.status = status, !.ok = ok]
        /\ \A u \in DOMAIN txs : u # t => txs'[u] = txs[u]
    BY <1>2, <1>3, Updated DEF SetStatus
  <1>5. txs'[t].status = status /\ txs'[t].ok = ok
    BY <1>2, <1>4 DEF Tx
  <1>6. CASE Executed(t)' <=> Executed(t)
    BY <1>2, <1>4, <1>6 DEF SamePaid, TxsOnlyAge, Executed
  <1>7. CASE ~ Executed(t) /\ Executed(t)'
    BY <1>2, <1>4, <1>7
  <1> QED
    BY <1>2, <1>6, <1>7 DEF TxsOnlyAge

(* A payment. *)
LEMMA LandLeads ==
  ASSUME LedgerInv, TypeOK', NEW t \in DOMAIN txs, TxsOnlyAge, ~ Executed(t), Executed(t)',
         \A u \in DOMAIN txs : u # t => txs'[u] = txs[u],
         UNCHANGED <<dbVars, queue, request, proc, history>>
  PROVE  PaymentsLead'
  <1> USE DEF dbVars, history, counts, unheard
  <1> SUFFICES ASSUME NEW m \in Miners
               PROVE  /\ Recorded(m)' + ToRecord(m)' <= Charged(m)'
                      /\ Charged(m)' + ToDeduct(m)' <= Paid(m)'
    BY DEF PaymentsLead
  <1>1. /\ Recorded(m) + ToRecord(m) <= Charged(m)
        /\ Charged(m) + ToDeduct(m) <= Paid(m)
    BY DEF LedgerInv, PaymentsLead
  <1>2. /\ txs \in Seq(Tx) /\ txs' \in Seq(Tx) /\ DOMAIN txs' = DOMAIN txs
        /\ Claimed \subseteq DOMAIN txs
        /\ \A T : T \subseteq DOMAIN txs => Total(txs', T) = Total(txs, T)
    BY TotalSame DEF LedgerInv, TypeOK, DatabaseOK, TxsOnlyAge
  <1>3. /\ Paid(m) \in Nat /\ Recorded(m) \in Nat /\ Charged(m) \in Int
        /\ ToDeduct(m) \in Nat /\ ToRecord(m) \in Nat
        /\ PaidOf(m) \subseteq DOMAIN txs /\ RecordedOf(m) \subseteq DOMAIN txs
        /\ Paid(m) = Total(txs, PaidOf(m)) /\ Recorded(m) = Total(txs, RecordedOf(m))
        /\ proc.pc # "idle" => proc.item.amount \in Nat
    BY LedgerTypes DEF LedgerInv
  <1>4. Paid(m)' = Total(txs', PaidOf(m)') /\ Recorded(m)' = Total(txs', RecordedOf(m)')
    BY DEF Paid, Recorded, PaidOf, RecordedOf
  <1>a. Claimed' = Claimed
    BY SameRows
  <1>5. Charged(m)' = Charged(m) /\ ToRecord(m)' = ToRecord(m)
    BY <1>a DEF Charged, ToRecord
  <1>6. Recorded(m)' = Recorded(m)
    <2>1. RecordedOf(m)' = RecordedOf(m)
      BY <1>2, <1>a DEF RecordedOf, TxsOnlyAge
    <2> QED
      BY <1>2, <1>3, <1>4, <2>1
  <1>7. PaidOf(m)' = IF txs[t].m = m THEN PaidOf(m) \cup {t} ELSE PaidOf(m)
    BY <1>2 DEF PaidOf, Landed, TxsOnlyAge, Executed
  <1>8. t \notin PaidOf(m) /\ txs[t].amount \in Nat
    <2>1. txs[t] \in Tx
      BY <1>2
    <2> QED
      BY <2>1, AmountAssumption DEF PaidOf, Landed, Tx
  <1>9. Paid(m)' = IF txs[t].m = m THEN Paid(m) + txs[t].amount ELSE Paid(m)
    BY <1>2, <1>3, <1>4, <1>7, <1>8, TotalMore
  <1>10. ToDeduct(m)' <= ToDeduct(m) + (IF txs[t].m = m THEN txs[t].amount ELSE 0)
    <2>1. CASE proc.pc \notin {"send", "poll", "expired", "deduct"} \/ proc.m # m
      BY <1>3, <1>8, <2>1 DEF ToDeduct
    <2>2. CASE proc.pc \in {"send", "poll", "expired", "deduct"} /\ proc.m = m /\ proc.tx = t
      <3>1. txs[t].m = m /\ txs[t].amount = proc.item.amount
        BY <2>2 DEF LedgerInv, RecordsPayment, SignedPcs, RecordingPcs
      <3> QED
        BY <1>3, <1>8, <2>2, <3>1 DEF ToDeduct
    <2>3. CASE proc.pc \in {"send", "poll", "expired", "deduct"} /\ proc.m = m /\ proc.tx # t
      <3>1. proc.tx \in DOMAIN txs
        BY <2>3 DEF LedgerInv, TypeOK, ServerOK, SignedPcs, RecordingPcs
      <3>2. Executed(proc.tx)' <=> Executed(proc.tx)
        BY <2>3, <3>1 DEF Executed
      <3> QED
        BY <1>3, <1>8, <2>3, <3>2 DEF ToDeduct
    <2> QED
      BY <2>1, <2>2, <2>3
  <1>11. ToDeduct(m)' \in Nat
    BY <1>3 DEF ToDeduct
  <1> QED
    BY <1>1, <1>3, <1>5, <1>6, <1>8, <1>9, <1>10, <1>11

(* A deduction. *)
LEMMA DeductionFollows ==
  ASSUME LedgerInv, DecreaseMinerReward
  PROVE  PaymentsLead'
  <1> SUFFICES ASSUME NEW m \in Miners
               PROVE  /\ Recorded(m)' + ToRecord(m)' <= Charged(m)'
                      /\ Charged(m)' + ToDeduct(m)' <= Paid(m)'
    BY DEF PaymentsLead
  <1>1. /\ Recorded(m) + ToRecord(m) <= Charged(m)
        /\ Charged(m) + ToDeduct(m) <= Paid(m)
    BY DEF LedgerInv, PaymentsLead
  <1>2. /\ Paid(m) \in Nat /\ Recorded(m) \in Nat /\ Charged(m) \in Int
        /\ proc.pc # "idle" => proc.item.amount \in Nat
    BY LedgerTypes DEF LedgerInv
  <1>3. /\ proc.pc = "deduct" /\ UNCHANGED <<txs, Claimed, earned>>
        /\ proc'.m = proc.m /\ proc'.item = proc.item /\ proc'.tx = proc.tx
        /\ balance[m] \in Int /\ earned[m] \in Nat /\ deductedUnheard[m] \in Nat
        /\ balance'[m] = IF m = proc.m THEN balance[m] - proc.item.amount ELSE balance[m]
    BY SameRows
       DEF DecreaseMinerReward, Answered, Unanswered, Processor, LedgerInv, TypeOK, ServerOK,
           DatabaseOK, HistoryOK, counts
  <1>a. \/ proc'.pc = "claimed" /\ UNCHANGED deductedUnheard
        \/ /\ proc'.pc = "deduct"
           /\ deductedUnheard'[m] =
                IF m = proc.m THEN deductedUnheard[m] + proc.item.amount ELSE deductedUnheard[m]
    BY <1>3
       DEF DecreaseMinerReward, Answered, Unanswered, Processor, LedgerInv, TypeOK, ServerOK,
           HistoryOK
  <1>4. Executed(proc.tx)
    BY <1>3 DEF LedgerInv, RecordsPayment, RecordingPcs
  <1>5. Paid(m)' = Paid(m) /\ Recorded(m)' = Recorded(m)
    BY <1>3 DEF Paid, Recorded, Landed, Executed
  <1>6. /\ ToDeduct(m) = IF m = proc.m THEN proc.item.amount ELSE 0
        /\ ToRecord(m) = 0 /\ proc.tx \notin Claimed /\ Executed(proc.tx)'
    BY <1>3, <1>4
       DEF ToDeduct, ToRecord, LedgerInv, RecordsPayment, SignedPcs, RecordingPcs, Executed
  <1>7. CASE proc'.pc = "claimed" /\ UNCHANGED deductedUnheard
    <2>1. Charged(m)' = IF m = proc.m THEN Charged(m) + proc.item.amount ELSE Charged(m)
      BY <1>2, <1>3, <1>7 DEF Charged
    <2>2. /\ ToDeduct(m)' = 0
          /\ ToRecord(m)' = IF m = proc.m THEN proc.item.amount ELSE 0
      BY <1>3, <1>6, <1>7 DEF ToDeduct, ToRecord
    <2> QED
      BY <1>1, <1>2, <1>3, <1>5, <1>6, <2>1, <2>2
  <1>8. CASE /\ proc'.pc = "deduct"
             /\ deductedUnheard'[m] =
                  IF m = proc.m THEN deductedUnheard[m] + proc.item.amount ELSE deductedUnheard[m]
    <2>1. Charged(m)' = Charged(m)
      BY <1>2, <1>3, <1>8 DEF Charged
    <2>2. ToDeduct(m)' = ToDeduct(m) /\ ToRecord(m)' = ToRecord(m)
      BY <1>3, <1>6, <1>8 DEF ToDeduct, ToRecord
    <2> QED
      BY <1>1, <1>5, <2>1, <2>2
  <1> QED
    BY <1>a, <1>7, <1>8

(* A record. *)
LEMMA RecordFollows ==
  ASSUME LedgerInv, AddNewClaim
  PROVE  PaymentsLead'
  <1> SUFFICES ASSUME NEW m \in Miners
               PROVE  /\ Recorded(m)' + ToRecord(m)' <= Charged(m)'
                      /\ Charged(m)' + ToDeduct(m)' <= Paid(m)'
    BY DEF PaymentsLead
  <1>1. /\ Recorded(m) + ToRecord(m) <= Charged(m)
        /\ Charged(m) + ToDeduct(m) <= Paid(m)
    BY DEF LedgerInv, PaymentsLead
  <1>2. /\ Paid(m) \in Nat /\ Recorded(m) \in Nat /\ Charged(m) \in Int
        /\ Recorded(m) = Total(txs, RecordedOf(m))
        /\ proc.pc # "idle" => proc.item.amount \in Nat
    BY LedgerTypes DEF LedgerInv
  <1>3. /\ proc.pc = "claim" /\ UNCHANGED <<txs, balance, earned, deductedUnheard>>
        /\ proc'.pc \in {"claim", "dequeue"} /\ proc'.tx = proc.tx
    BY DEF AddNewClaim, Answered, Unanswered, Processor, LedgerInv, TypeOK, ServerOK, counts
  <1>a. Claimed' = Claimed \cup {proc.tx}
    BY ClaimAdded DEF LedgerInv
  <1>4. /\ proc.tx \in DOMAIN txs /\ txs[proc.tx].m = proc.m
        /\ txs[proc.tx].amount = proc.item.amount
    BY <1>3 DEF LedgerInv, TypeOK, ServerOK, RecordsPayment, SignedPcs, RecordingPcs
  <1>5. Paid(m)' = Paid(m) /\ Charged(m)' = Charged(m)
    BY <1>3 DEF Paid, Charged, Landed, Executed
  <1>6. RecordedOf(m)' = IF m = proc.m THEN RecordedOf(m) \cup {proc.tx} ELSE RecordedOf(m)
    BY <1>3, <1>4, <1>a DEF RecordedOf
  <1>7. Recorded(m)' = Total(txs, RecordedOf(m)')
    BY <1>3 DEF Recorded, RecordedOf
  <1>8. Recorded(m)' = Recorded(m) + ToRecord(m)
    <2>1. CASE m = proc.m /\ proc.tx \notin Claimed
      <3>1. proc.tx \notin RecordedOf(m) /\ txs \in Seq(Tx)
        BY <2>1 DEF RecordedOf, LedgerInv, TypeOK
      <3>2. ToRecord(m) = txs[proc.tx].amount
        BY <1>3, <1>4, <2>1 DEF ToRecord
      <3> QED
        BY <1>2, <1>4, <1>6, <1>7, <2>1, <3>1, <3>2, TotalMore
    <2>2. CASE ~(m = proc.m /\ proc.tx \notin Claimed)
      <3>1. RecordedOf(m)' = RecordedOf(m) /\ ToRecord(m) = 0
        BY <1>4, <1>6, <2>2 DEF RecordedOf, ToRecord
      <3> QED
        BY <1>2, <1>7, <3>1
    <2> QED
      BY <2>1, <2>2
  <1>9. ToDeduct(m) = 0 /\ ToDeduct(m)' = 0 /\ ToRecord(m)' = 0 /\ ToRecord(m) \in Nat
    BY <1>2, <1>3, <1>a DEF ToDeduct, ToRecord
  <1> QED
    BY <1>1, <1>2, <1>5, <1>8, <1>9

LEMMA LedgerInit == Init => PaymentsLead /\ NothingForgotten
  <1> SUFFICES ASSUME Init PROVE PaymentsLead /\ NothingForgotten
    OBVIOUS
  <1>1. /\ TypeOK /\ txs = << >> /\ Claimed = {} /\ proc.pc = "idle"
        /\ poolClaimed = 0 /\ claimedUnheard = 0
    BY TypeInit DEF Init, NoProc, NoRows, Claimed
  <1>2. \A T : Total(txs, T) = 0
    BY <1>1, SumZero DEF Total
  <1>3. \A m \in Miners : Charged(m) = 0 /\ ToDeduct(m) = 0 /\ ToRecord(m) = 0
    BY <1>1, AmountAssumption DEF Init, Charged, ToDeduct, ToRecord
  <1>4. PaymentsLead
    BY <1>2, <1>3 DEF PaymentsLead, Paid, Recorded
  <1>5. NothingForgotten
    BY <1>1, <1>2 DEF NothingForgotten
  <1> QED
    BY <1>4, <1>5

LEMMA LedgerNext ==
  ASSUME LedgerInv, [Next]_vars
  PROVE  LedgerInv'
  <1> USE DEF dbVars, history, counts, unheard
  <1>a. TypeOK /\ RecordsPayment /\ TypeOK' /\ RecordsPayment'
    BY TypeNext, RecordsNext DEF LedgerInv
  <1> SUFFICES PaymentsLead'
    BY <1>a DEF LedgerInv
  <1>b. UNCHANGED txs => SamePaid
    BY <1>a DEF SamePaid, TypeOK, Executed
  <1>1. ASSUME SamePaid, UNCHANGED Claimed, \A m \in Miners : Charged(m)' = Charged(m),
               \/ proc'.pc \in {"idle", "sign"}
               \/ /\ proc'.m = proc.m /\ proc'.item = proc.item /\ proc'.tx = proc.tx
                  /\ proc'.pc \in {"send", "poll", "expired", "deduct"}
                       => proc.pc \in {"send", "poll", "expired", "deduct"}
                  /\ proc'.pc \in {"claimed", "transaction", "claim"}
                       => proc.pc \in {"claimed", "transaction", "claim"}
        PROVE  PaymentsLead'
    BY <1>a, <1>1, LessIsLeft, LedgerKept
  <1>2. ASSUME UNCHANGED <<txs, transactions, claims, balance, earned, deductedUnheard>>,
               proc'.pc \in {"idle", "sign"} \/ UNCHANGED proc
        PROVE  PaymentsLead'
    BY <1>b, <1>1, <1>2, SameRows DEF Charged
  <1>3. ASSUME SamePaid, UNCHANGED <<Claimed, balance, earned, deductedUnheard>>, NEW next,
               Processor(next),
               \/ /\ proc.pc \in {"send", "poll", "expired", "deduct"}
                  /\ next \in {"send", "poll", "expired", "deduct"}
               \/ /\ proc.pc \in {"claimed", "transaction", "claim"}
                  /\ next \in {"claimed", "transaction", "claim"}
        PROVE  PaymentsLead'
    <2>1. /\ proc'.pc = next /\ proc'.m = proc.m /\ proc'.item = proc.item
          /\ proc'.tx = proc.tx
      BY <1>a, <1>3 DEF Processor, TypeOK, ServerOK
    <2> QED
      BY <1>1, <1>3, <2>1 DEF Charged
  <1>4. CASE PostClaim
    BY <1>2, <1>4 DEF PostClaim, Receive, CheckQueue, CheckBalance, CheckLast, Insert
  <1>5. ASSUME NEW m \in Miners, Pick(m) PROVE PaymentsLead'
    BY <1>2, <1>5 DEF Pick
  <1>6. CASE Sign
    <2>1. CASE /\ txs' = Append(txs, Payment)
               /\ proc' = [proc EXCEPT !.pc = "send", !.tx = Len(txs) + 1]
      <3>1. /\ DOMAIN txs' = 1..(Len(txs) + 1) /\ Len(txs) \in Nat /\ DOMAIN txs = 1..Len(txs)
            /\ txs'[Len(txs) + 1] = Payment
            /\ \A t \in DOMAIN txs : txs'[t] = txs[t]
        BY <1>a, <2>1 DEF TypeOK
      <3>2. SamePaid
        BY <1>a, <3>1 DEF SamePaid, TypeOK, Executed, Payment
      <3>3. /\ proc.pc = "sign" /\ proc'.pc = "send" /\ proc'.tx = Len(txs) + 1
            /\ UNCHANGED <<Claimed, balance, earned, deductedUnheard>>
        BY <1>a, <1>6, <2>1, SameRows DEF Sign, TypeOK, ServerOK
      <3>4. ~ Executed(proc.tx)'
        BY <3>1, <3>3 DEF Executed, Payment
      <3>5. \A m \in Miners : ToRecord(m)' = 0 /\ ToDeduct(m)' = 0
        BY <3>3, <3>4 DEF ToRecord, ToDeduct
      <3>6. \A m \in Miners : ToRecord(m) = 0 /\ ToDeduct(m) = 0
        BY <3>3 DEF ToRecord, ToDeduct
      <3> QED
        BY <1>a, <3>2, <3>3, <3>5, <3>6, LedgerKept DEF Charged
    <2>2. CASE proc' = NoProc /\ UNCHANGED txs
      BY <1>2, <1>6, <2>2 DEF Sign, NoProc
    <2> QED
      BY <1>6, <2>1, <2>2 DEF Sign
  <1>7. CASE Send
    <2>1. proc.tx \in DOMAIN txs /\ txs[proc.tx] \in Tx /\ proc.pc = "send"
      BY <1>a, <1>7 DEF Send, TypeOK, ServerOK, SignedPcs
    <2>2. txs' = [txs EXCEPT ![proc.tx].status = "pending", ![proc.tx].ok = txs[proc.tx].ok]
      BY <1>7, <2>1 DEF Send, Tx
    <2>3. /\ DOMAIN txs' = DOMAIN txs
          /\ txs'[proc.tx] = [txs[proc.tx] EXCEPT !.status = "pending", !.ok = txs[proc.tx].ok]
          /\ \A u \in DOMAIN txs : u # proc.tx => txs'[u] = txs[u]
      BY <1>a, <2>1, <2>2, Updated DEF TypeOK, Tx, Statuses
    <2>4. /\ txs'[proc.tx].status = "pending" /\ txs'[proc.tx].m = txs[proc.tx].m
          /\ txs'[proc.tx].amount = txs[proc.tx].amount
          /\ txs[proc.tx].status \in {"signed", "pending"}
      BY <1>7, <2>1, <2>3 DEF Send, Tx
    <2>5. SamePaid
      BY <1>a, <2>1, <2>3, <2>4 DEF SamePaid, TypeOK, Executed
    <2> QED
      <3>1. UNCHANGED <<Claimed, balance, earned, deductedUnheard>>
        BY <1>7, SameRows DEF Send
      <3> QED
        BY <1>1, <1>3, <1>7, <2>1, <2>5, <3>1 DEF Send, Charged
  <1>8. CASE PollConfirmed \/ PollExpired
    <2>1. /\ proc.pc = "poll" /\ SamePaid
          /\ UNCHANGED <<txs, transactions, claims, Claimed, balance, earned, deductedUnheard>>
          /\ proc' = NoProc \/ \E next \in {"deduct", "expired"} : Processor(next)
      BY <1>8, <1>b, SameRows DEF PollConfirmed, PollExpired
    <2>2. CASE proc' = NoProc
      BY <1>2, <2>1, <2>2 DEF NoProc
    <2>3. CASE \E next \in {"deduct", "expired"} : Processor(next)
      BY <1>3, <2>1, <2>3
    <2> QED
      BY <2>1, <2>2, <2>3
  <1>9. CASE GiveUp \/ Dequeue \/ Restart
    BY <1>2, <1>9 DEF GiveUp, Dequeue, Restart, NoProc
  <1>10. CASE DecreaseMinerReward
    BY <1>10, DeductionFollows
  <1>11. CASE UpdatePoolClaimed \/ AddNewTransaction
    <2>1. /\ proc.pc \in {"claimed", "transaction"} /\ SamePaid
          /\ UNCHANGED <<Claimed, balance, earned, deductedUnheard>>
          /\ UNCHANGED proc \/ \E next \in {"transaction", "claim"} : Processor(next)
      BY <1>11, <1>a, <1>b, SameRows, TransactionAdded
         DEF UpdatePoolClaimed, AddNewTransaction, Answered, Unanswered
    <2>2. CASE UNCHANGED proc
      BY <1>1, <2>1, <2>2 DEF Charged
    <2>3. CASE \E next \in {"transaction", "claim"} : Processor(next)
      BY <1>3, <2>1, <2>3
    <2> QED
      BY <2>1, <2>2, <2>3
  <1>12. CASE AddNewClaim
    BY <1>12, RecordFollows
  <1>13. CASE Chain
    <2>1. TxsOnlyAge /\ UNCHANGED <<dbVars, queue, request, proc, history>>
      BY <1>a, <1>13, ChainAges DEF TypeOK
    <2>2. CASE SamePaid
      BY <1>1, <2>1, <2>2, SameRows DEF Charged
    <2>3. CASE ~ SamePaid
      BY <1>a, <1>13, <2>1, <2>3, ChainPays, LandLeads
    <2> QED
      BY <2>2, <2>3
  <1>14. ASSUME NEW m \in Miners, HalfHourPasses(m) PROVE PaymentsLead'
    BY <1>2, <1>14 DEF HalfHourPasses
  <1>15. ASSUME NEW m \in Miners, UpdateRewards(m) PROVE PaymentsLead'
    <2>1. SamePaid /\ UNCHANGED <<Claimed, proc>>
      BY <1>b, <1>15, SameRows DEF UpdateRewards
    <2>2. \A n \in Miners : Charged(n)' = Charged(n)
      BY <1>a, <1>15 DEF UpdateRewards, Charged, TypeOK, DatabaseOK, HistoryOK
    <2> QED
      BY <1>1, <2>1, <2>2
  <1>16. CASE UNCHANGED vars
    BY <1>2, <1>16 DEF vars
  <1> QED
    BY <1>4, <1>5, <1>6, <1>7, <1>8, <1>9, <1>10, <1>11, <1>12, <1>13, <1>14, <1>15, <1>16
       DEF Next, ClaimProcessor, Surroundings

(* Without an outage the processor never leaves a transaction that was or may be *)
(* executed before it is recorded.                                               *)
LEMMA ForgottenNext ==
  ASSUME LedgerInv, EndIsSeen, NothingForgotten, [Next]_vars
  PROVE  NothingForgotten'
  <1> USE DEF dbVars, history, counts, unheard
  <1>a. /\ TypeOK /\ RecordsPayment /\ TypeOK' /\ txs \in Seq(Tx) /\ txs' \in Seq(Tx)
        /\ Claimed \subseteq DOMAIN txs /\ poolClaimed \in Nat /\ restarts \in Nat
        /\ claimedUnheard \in Nat
    BY TypeNext DEF LedgerInv, TypeOK, DatabaseOK, HistoryOK
  <1>b. proc.pc \in SignedPcs => proc.tx \in DOMAIN txs
    BY <1>a DEF TypeOK, ServerOK
  <1>1. ASSUME TxsOnlyAge, UNCHANGED <<Claimed, poolClaimed, claimedUnheard, restarts>>,
               \/ UNCHANGED proc
               \/ /\ proc.pc \in SignedPcs \ {"transaction", "claim"}
                  /\ \E next \in SignedPcs \ {"transaction", "claim"} : Processor(next)
               \/ proc.pc = "transaction" /\ Processor("claim")
        PROVE  NothingForgotten'
    <2>1. /\ proc'.tx = proc.tx /\ proc'.item = proc.item
          /\ proc.pc \in SignedPcs <=> proc'.pc \in SignedPcs
          /\ proc.pc \in {"transaction", "claim"} <=> proc'.pc \in {"transaction", "claim"}
      BY <1>a, <1>1 DEF Processor, TypeOK, ServerOK, SignedPcs, RecordingPcs
    <2>2. Total(txs', Claimed) = Total(txs, Claimed)
      BY <1>a, <1>1, TotalSame DEF TxsOnlyAge
    <2> QED
      BY <1>1, <2>1, <2>2 DEF NothingForgotten, TxsOnlyAge
  <1>2. ASSUME UNCHANGED <<txs, Claimed, poolClaimed, claimedUnheard, restarts>>,
               proc'.pc \in {"idle", "sign"},
               proc.pc \notin {"transaction", "claim"},
               proc.pc \in SignedPcs => ~ Alive(proc.tx) \/ proc.tx \in Claimed
        PROVE  NothingForgotten'
    <2>1. \A t \in DOMAIN txs : Alive(t)' <=> Alive(t)
      BY <1>2 DEF Alive, Executed
    <2> QED
      BY <1>2, <2>1 DEF NothingForgotten
  <1>3. ASSUME UNCHANGED <<txs, transactions, claims, poolClaimed, claimedUnheard, restarts,
                           proc>>
        PROVE  NothingForgotten'
    BY <1>a, <1>1, <1>3, SameAges, SameRows
  <1>4. CASE PostClaim
    BY <1>3, <1>4 DEF PostClaim, Receive, CheckQueue, CheckBalance, CheckLast, Insert
  <1>5. ASSUME NEW m \in Miners, Pick(m) PROVE NothingForgotten'
    BY <1>2, <1>5, SameRows DEF Pick, SignedPcs, RecordingPcs
  <1>6. CASE Sign
    <2>1. CASE /\ txs' = Append(txs, Payment)
               /\ proc' = [proc EXCEPT !.pc = "send", !.tx = Len(txs) + 1]
      <3>1. /\ DOMAIN txs' = 1..(Len(txs) + 1) /\ Len(txs) \in Nat /\ DOMAIN txs = 1..Len(txs)
            /\ \A t \in DOMAIN txs : txs'[t] = txs[t]
        BY <1>a, <2>1
      <3>2. /\ proc.pc = "sign" /\ proc'.pc = "send" /\ proc'.tx = Len(txs) + 1
            /\ UNCHANGED <<Claimed, poolClaimed, claimedUnheard, restarts>>
        BY <1>a, <1>6, <2>1, SameRows DEF Sign, TypeOK, ServerOK
      <3>3. Total(txs', Claimed) = Total(txs, Claimed)
        BY <1>a, <3>1, TotalSame
      <3>4. \A t \in DOMAIN txs : Alive(t)' <=> Alive(t)
        BY <3>1 DEF Alive, Executed
      <3> QED
        BY <3>1, <3>2, <3>3, <3>4 DEF NothingForgotten, SignedPcs, RecordingPcs
    <2>2. CASE proc' = NoProc /\ UNCHANGED txs
      BY <1>2, <1>6, <2>2, SameRows DEF Sign, NoProc, SignedPcs, RecordingPcs
    <2> QED
      BY <1>6, <2>1, <2>2 DEF Sign
  <1>7. CASE Send
    <2>1. TxsOnlyAge /\ Claimed' = Claimed
      BY <1>7, <1>a, <1>b, SendAges, SameRows DEF Send
    <2> QED
      BY <1>1, <1>7, <2>1 DEF Send, SignedPcs
  <1>8. CASE PollConfirmed
    <2>1. /\ proc.pc = "poll" /\ txs[proc.tx].status = "confirmed"
          /\ UNCHANGED <<txs, Claimed, poolClaimed, claimedUnheard, restarts>> /\ TxsOnlyAge
          /\ Processor("deduct") \/ (proc' = NoProc /\ ~ txs[proc.tx].ok)
      BY <1>8, <1>a, SameAges, SameRows DEF PollConfirmed
    <2>2. CASE Processor("deduct")
      BY <1>1, <2>1, <2>2 DEF SignedPcs, RecordingPcs
    <2>3. CASE proc' = NoProc /\ ~ txs[proc.tx].ok
      BY <1>2, <2>1, <2>3 DEF NoProc, Alive, Executed
    <2> QED
      BY <2>1, <2>2, <2>3
  <1>9. CASE PollExpired
    <2>1. TxsOnlyAge /\ Claimed' = Claimed
      BY <1>9, <1>a, SameAges, SameRows DEF PollExpired
    <2> QED
      BY <1>1, <1>9, <2>1 DEF PollExpired, SignedPcs, RecordingPcs
  <1>10. CASE GiveUp
    BY <1>2, <1>10, SameRows DEF GiveUp, NoProc, EndIsSeen
  <1>11. CASE Dequeue
    BY <1>2, <1>11, <1>a, SameRows DEF Dequeue, NoProc, RecordsPayment
  <1>12. CASE Restart
    BY <1>12, <1>a DEF Restart, NothingForgotten
  <1>13. CASE DecreaseMinerReward \/ AddNewTransaction
    <2>1. TxsOnlyAge /\ UNCHANGED <<Claimed, poolClaimed, claimedUnheard, restarts>>
      BY <1>13, <1>a, SameAges, SameRows, TransactionAdded
         DEF DecreaseMinerReward, AddNewTransaction
    <2>2. \/ UNCHANGED proc
          \/ proc.pc = "deduct" /\ Processor("claimed")
          \/ proc.pc = "transaction" /\ Processor("claim")
      BY <1>13 DEF DecreaseMinerReward, AddNewTransaction, Answered, Unanswered
    <2> QED
      BY <1>1, <2>1, <2>2 DEF SignedPcs, RecordingPcs
  <1>14. CASE UpdatePoolClaimed
    <2>1. /\ proc.pc = "claimed" /\ UNCHANGED <<txs, Claimed, restarts>>
          /\ proc'.tx = proc.tx /\ proc'.item = proc.item
          /\ poolClaimed' = poolClaimed + proc.item.amount
          /\ \/ proc'.pc = "transaction" /\ UNCHANGED claimedUnheard
             \/ proc'.pc = "claimed" /\ claimedUnheard' = claimedUnheard + proc.item.amount
      BY <1>14, <1>a, SameRows
         DEF UpdatePoolClaimed, Answered, Unanswered, Processor, TypeOK, ServerOK
    <2>2. proc.item.amount \in Nat /\ proc.tx \notin Claimed
      BY <2>1, <1>a, AmountAssumption
         DEF TypeOK, ServerOK, Claim, RecordsPayment, SignedPcs, RecordingPcs
    <2>3. \A t \in DOMAIN txs : Alive(t)' <=> Alive(t)
      BY <2>1 DEF Alive, Executed
    <2>4. Total(txs, Claimed) \in Nat
      BY <1>a, TotalType
    <2>5. restarts = 0 => poolClaimed - claimedUnheard = Total(txs, Claimed)
      BY <1>a, <2>1, <2>4 DEF NothingForgotten
    <2>6. restarts = 0 =>
            poolClaimed' - claimedUnheard' = Total(txs, Claimed)
              + IF proc'.pc = "transaction" THEN proc.item.amount ELSE 0
      BY <1>a, <2>1, <2>2, <2>4, <2>5
    <2>7. restarts = 0 =>
            \A t \in DOMAIN txs : Alive(t) => t \in Claimed \/ t = proc.tx
      BY <2>1 DEF NothingForgotten
    <2> QED
      BY <2>1, <2>2, <2>3, <2>6, <2>7 DEF NothingForgotten, SignedPcs, RecordingPcs
  <1>15. CASE AddNewClaim
    <2>1. /\ proc.pc = "claim" /\ UNCHANGED <<txs, poolClaimed, claimedUnheard, restarts>>
          /\ proc'.pc \in {"claim", "dequeue"} /\ proc'.tx = proc.tx
      BY <1>15, <1>a DEF AddNewClaim, Answered, Unanswered, Processor, TypeOK, ServerOK
    <2>2. Claimed' = Claimed \cup {proc.tx}
      BY <1>15, <1>a, ClaimAdded
    <2>3. proc.tx \in DOMAIN txs /\ txs[proc.tx].amount = proc.item.amount
      BY <1>a, <1>b, <2>1 DEF RecordsPayment, SignedPcs, RecordingPcs
    <2>4. Total(txs, Claimed) \in Nat /\ proc.item.amount \in Nat
      BY <1>a, <2>1, AmountAssumption, TotalType DEF TypeOK, ServerOK, Claim
    <2>5. Total(txs, Claimed \cup {proc.tx}) =
            Total(txs, Claimed) + IF proc.tx \notin Claimed THEN proc.item.amount ELSE 0
      <3>1. CASE proc.tx \notin Claimed
        BY <1>a, <2>3, <3>1, TotalMore
      <3>2. CASE proc.tx \in Claimed
        <4>1. Claimed \cup {proc.tx} = Claimed
          BY <3>2
        <4> QED
          BY <2>4, <3>2, <4>1
      <3> QED
        BY <3>1, <3>2
    <2>6. \A t \in DOMAIN txs : Alive(t)' <=> Alive(t)
      BY <2>1 DEF Alive, Executed
    <2>7. restarts = 0 => poolClaimed - claimedUnheard = Total(txs, Claimed \cup {proc.tx})
      BY <2>1, <2>5 DEF NothingForgotten
    <2>8. restarts = 0 => poolClaimed' - claimedUnheard' = Total(txs', Claimed') + 0
      BY <1>a, <2>1, <2>2, <2>4, <2>5, <2>7
    <2> QED
      BY <1>a, <2>1, <2>2, <2>6, <2>8 DEF NothingForgotten, SignedPcs, RecordingPcs
  <1>16. CASE Chain
    BY <1>1, <1>16, <1>a, ChainAges, SameRows
  <1>17. ASSUME NEW m \in Miners, HalfHourPasses(m) \/ UpdateRewards(m) PROVE NothingForgotten'
    BY <1>3, <1>17 DEF HalfHourPasses, UpdateRewards
  <1>18. CASE UNCHANGED vars
    BY <1>3, <1>18 DEF vars
  <1> QED
    BY <1>4, <1>5, <1>6, <1>7, <1>8, <1>9, <1>10, <1>11, <1>12, <1>13, <1>14, <1>15, <1>16,
       <1>17, <1>18
       DEF Next, ClaimProcessor, Surroundings

(* Whatever fails, expires, goes unnoticed or is forgotten, whichever answers    *)
(* are lost: what is recorded as claimed was charged, and what was charged was   *)
(* paid, where the charge is what was deducted but for the deductions that were  *)
(* repeated because their answer was lost.                                       *)
THEOREM PaymentsLeadCorrect ==
  Spec => [](\A m \in Miners : Recorded(m) <= Charged(m) /\ Charged(m) <= Paid(m))
  <1> DEFINE Led == \A m \in Miners : Recorded(m) <= Charged(m) /\ Charged(m) <= Paid(m)
  <1>1. Init => LedgerInv
    BY TypeInit, RecordsInit, LedgerInit DEF LedgerInv
  <1>2. LedgerInv /\ [Next]_vars => LedgerInv'
    BY LedgerNext
  <1>3. LedgerInv => Led
    <2> SUFFICES ASSUME LedgerInv, NEW m \in Miners
                 PROVE  Recorded(m) <= Charged(m) /\ Charged(m) <= Paid(m)
      OBVIOUS
    <2>1. /\ Recorded(m) + ToRecord(m) <= Charged(m)
          /\ Charged(m) + ToDeduct(m) <= Paid(m)
      BY DEF LedgerInv, PaymentsLead
    <2> QED
      BY <2>1, LedgerTypes DEF LedgerInv
  <1> QED
    BY <1>1, <1>2, <1>3, PTL DEF Spec

(* As long as the processor sees its transaction confirmed before it is          *)
(* finalized, payments, charges and records agree: in this order at any time,    *)
(* and, until a restart, exactly whenever the processor is idle; what disagrees  *)
(* is accounted for by the answers that were lost.                               *)
THEOREM LedgerCorrect ==
  ASSUME "outage" \notin Faults
  PROVE  Spec => []LedgerAgrees
  <1> DEFINE Inv == LedgerInv /\ OnceInv /\ NothingForgotten /\ RowsAreFew
             Led == \A m \in Miners : Recorded(m) <= Charged(m) /\ Charged(m) <= Paid(m)
  <1>1. Init => Inv
    BY TypeInit, OnceInit, RecordsInit, RowsInit, LedgerInit DEF LedgerInv
  <1>2. Inv /\ [Next]_vars => Inv'
    BY OnceNext, LedgerNext, ForgottenNext, RowsNext DEF LedgerInv, OnceInv
  <1>3. Inv /\ Led => LedgerAgrees
    <2> SUFFICES ASSUME Inv, Led PROVE LedgerAgrees
      OBVIOUS
    <2>1. Claimed \subseteq Booked
      BY DEF LedgerInv, RecordsPayment
    <2>2. ASSUME proc.pc = "idle", restarts = 0
          PROVE  /\ \A m \in Miners : Recorded(m) = Paid(m)
                 /\ poolClaimed - claimedUnheard = Total(txs, Landed)
      <3>1. Claimed = Landed
        <4>1. Claimed \subseteq DOMAIN txs
          BY DEF LedgerInv, TypeOK, DatabaseOK
        <4>2. \A t \in DOMAIN txs : Executed(t) => t \in Claimed
          BY <2>2 DEF NothingForgotten, Alive, SignedPcs, RecordingPcs
        <4> QED
          BY <4>1, <4>2 DEF Landed, LedgerInv, RecordsPayment
      <3>2. poolClaimed - claimedUnheard = Total(txs, Claimed) + 0
        BY <2>2 DEF NothingForgotten
      <3>3. Total(txs, Claimed) \in Nat
        BY TotalType DEF LedgerInv, TypeOK
      <3> QED
        BY <3>1, <3>2, <3>3 DEF Recorded, Paid
    <2>3. \A t \in 1..MaxTxs : transactions[t] <= 1 + lost /\ claims[t] <= 1 + lost
      BY DEF RowsAreFew
    <2> QED
      BY <2>1, <2>2, <2>3 DEF LedgerAgrees
  <1> HIDE DEF Inv, Led
  <1>4. Spec => []Led
    BY PaymentsLeadCorrect DEF Led
  <1> QED
    BY <1>1, <1>2, <1>3, <1>4, PTL DEF Spec

-----------------------------------------------------------------------------
(* Claims implements ClaimLife: from the invariants of above, each step of *)
(* Claims is a step of ClaimLife or leaves what ClaimLife sees as it is.   *)

Payments == {PaidBy(t) : t \in {u \in DOMAIN txs : Executed(u)}}
Records == {PaidBy(t) : t \in Claimed}

LifeInv == TypeOK /\ OnceInv /\ HeldInv

-----------------------------------------------------------------------------
(* What ClaimLife sees of the transactions.                                *)

(* No transaction begins or ceases to be executed. *)
SameExecuted ==
  /\ DOMAIN txs \subseteq DOMAIN txs'
  /\ \A t \in DOMAIN txs : /\ txs'[t].claim = txs[t].claim /\ txs'[t].m = txs[t].m
                           /\ Executed(t)' <=> Executed(t)
  /\ \A t \in DOMAIN txs' \ DOMAIN txs : ~ Executed(t)'

LEMMA SamePayments ==
  ASSUME SameExecuted
  PROVE  Payments' = Payments
  BY DEF SameExecuted, Payments, PaidBy

LEMMA SameRecords ==
  ASSUME Claimed \subseteq DOMAIN txs, Claimed' = Claimed,
         \A t \in DOMAIN txs : txs'[t].claim = txs[t].claim /\ txs'[t].m = txs[t].m
  PROVE  Records' = Records
  BY DEF Records, PaidBy

LEMMA Unexecuted ==
  ASSUME TxsOnlyAge, NEW t \in DOMAIN txs, ~ Executed(t)',
         \A u \in DOMAIN txs : u # t => txs'[u] = txs[u]
  PROVE  SameExecuted
  BY DEF SameExecuted, TxsOnlyAge, Executed

LEMMA LifeInit == Init => Life!Init
  <1> SUFFICES ASSUME Init PROVE Life!Init
    OBVIOUS
  <1>1. Payments = {} /\ Records = {}
    BY DEF Init, Payments, Records, Claimed, NoRows
  <1> QED
    BY <1>1 DEF Init, Life!Init, EmptyQueue, Payments, Records

-----------------------------------------------------------------------------
(* The steps that ClaimLife sees.                                          *)

LEMMA ReceiveRaces ==
  ASSUME LifeInv, NEW r \in Requests, NEW amount \in Amounts, Receive(r, amount)
  PROVE  Life!Next \/ UNCHANGED Life!vars
  <1>1. /\ Miner[r] \in Miners
        /\ overlapped' = overlapped \/ overlapped' = overlapped \cup {Miner[r]}
        /\ UNCHANGED <<txs, queue, claims, transactions, accepted, restarts>>
    BY MinerAssumption DEF Receive, dbVars
  <1>2. Payments' = Payments /\ Records' = Records
    BY <1>1, SameRows DEF Payments, Records, PaidBy, Executed
  <1>3. CASE overlapped' = overlapped
    BY <1>1, <1>2, <1>3 DEF Life!vars, Payments, Records
  <1>4. CASE overlapped' = overlapped \cup {Miner[r]}
    <2>1. Life!Race(Miner[r])
      BY <1>1, <1>2, <1>4 DEF Life!Race, Payments, Records
    <2> QED
      BY <1>1, <2>1 DEF Life!Next
  <1> QED
    BY <1>1, <1>3, <1>4

LEMMA InsertAccepts ==
  ASSUME LifeInv, NEW r \in Requests, Insert(r)
  PROVE  Life!Next
  <1>1. /\ queue[Miner[r]] = None \/ Miner[r] \in overlapped
        /\ Miner[r] \in Miners /\ request[r].amount \in Amounts
        /\ queue' = [queue EXCEPT ![Miner[r]] =
                       [id |-> accepted + 1, amount |-> request[r].amount]]
        /\ accepted' = accepted + 1 /\ restarts' = restarts
        /\ UNCHANGED <<txs, claims, transactions, overlapped>>
    BY MinerAssumption
       DEF LifeInv, HeldInv, QueueIsHeld, Insert, TypeOK, ServerOK, history, counts, dbVars
  <1>2. Payments' = Payments /\ Records' = Records
    BY <1>1, SameRows DEF Payments, Records, PaidBy, Executed
  <1>3. Life!Accept(Miner[r], request[r].amount)
    BY <1>1, <1>2 DEF Life!Accept, Payments, Records
  <1> QED
    BY <1>1, <1>3 DEF Life!Next

LEMMA DequeueFinishes ==
  ASSUME LifeInv, Dequeue
  PROVE  Life!Next
  <1>1. /\ proc.m \in Miners /\ proc.item \in Claim /\ proc.tx \in Claimed
        /\ queue[proc.m] # None
        /\ \/ queue[proc.m] = proc.item
           \/ proc.m \in overlapped /\ queue[proc.m].id > proc.item.id
        /\ txs[proc.tx].claim = proc.item.id /\ txs[proc.tx].m = proc.m
    BY DEF LifeInv, HeldInv, QueueIsHeld, RecordsPayment, Dequeue, TypeOK, ServerOK, SignedPcs,
           RecordingPcs
  <1>2. /\ queue' = [queue EXCEPT ![proc.m] = None]
        /\ UNCHANGED <<txs, claims, transactions, accepted, restarts, overlapped>>
    BY DEF Dequeue, history, counts, dbVars
  <1>3. Payments' = Payments /\ Records' = Records
    BY <1>2, SameRows DEF Payments, Records, PaidBy, Executed
  <1>4. /\ PaidBy(proc.tx) \in Records /\ PaidBy(proc.tx).miner = proc.m
        /\ PaidBy(proc.tx).claim = proc.item.id
    BY <1>1 DEF Records, PaidBy
  <1>5. \E p \in Records :
          \/ p.claim = queue[proc.m].id
          \/ proc.m \in overlapped /\ p.miner = proc.m /\ p.claim < queue[proc.m].id
    <2>1. CASE queue[proc.m] = proc.item
      BY <1>4, <2>1
    <2>2. CASE proc.m \in overlapped /\ queue[proc.m].id > proc.item.id
      <3>1. queue[proc.m].id \in Nat /\ proc.item.id \in Nat
        BY <1>1 DEF LifeInv, TypeOK, ServerOK, Claim
      <3> QED
        BY <1>4, <2>2, <3>1
    <2> QED
      BY <1>1, <2>1, <2>2
  <1>6. Life!Finish(proc.m)
    BY <1>1, <1>2, <1>3, <1>5 DEF Life!Finish, Payments, Records
  <1> QED
    BY <1>1, <1>6 DEF Life!Next

LEMMA AddNewClaimRecords ==
  ASSUME LifeInv, AddNewClaim
  PROVE  Life!Next
  <1>1. /\ proc.tx \in DOMAIN txs /\ Executed(proc.tx)
        /\ UNCHANGED <<txs, queue, accepted, restarts, overlapped>>
    BY DEF LifeInv, HeldInv, RecordsPayment, AddNewClaim, TypeOK, ServerOK, SignedPcs,
           RecordingPcs, counts
  <1>2. PaidBy(proc.tx) \in Payments
    BY <1>1 DEF Payments
  <1>3. Claimed' = Claimed \cup {proc.tx}
    BY ClaimAdded DEF LifeInv
  <1>4. Payments' = Payments /\ Records' = Records \cup {PaidBy(proc.tx)}
    BY <1>1, <1>3 DEF Payments, Records, PaidBy, Executed
  <1>5. Life!Record(PaidBy(proc.tx))
    BY <1>1, <1>4 DEF Life!Record, Payments, Records
  <1> QED
    BY <1>2, <1>5 DEF Life!Next, Payments

LEMMA LandPays ==
  ASSUME LifeInv, NEW t \in DOMAIN txs, Land(t)
  PROVE  Life!Next
  <1>1. txs[t] \in Tx /\ txs[t].status = "pending" /\ t \in 1..MaxTxs
    BY BoundsAssumption DEF LifeInv, TypeOK, Land
  <1>2. /\ TxsOnlyAge /\ txs'[t].status = "confirmed" /\ txs'[t].ok = TRUE
        /\ \A u \in DOMAIN txs : u # t => txs'[u] = txs[u]
    <2>1. txs' = [txs EXCEPT ![t].status = "confirmed", ![t].ok = TRUE]
      BY DEF Land, SetStatus
    <2>2. TxsOnlyAge /\ txs'[t].status = "confirmed" /\ txs'[t].ok = TRUE
      BY <1>1, <2>1, StatusAges DEF LifeInv, TypeOK, Statuses
    <2> QED
      BY <2>1, <2>2, Updated DEF LifeInv, TypeOK, Statuses
  <1>3. UNCHANGED <<queue, Claimed, accepted, restarts, overlapped>>
    BY SameRows DEF Land, SetStatus, dbVars, history, counts
  <1>4. \A u \in DOMAIN txs : Executed(u) => u # t /\ txs[u].claim # txs[t].claim
    BY <1>1 DEF LifeInv, OnceInv, AliveOnce, Alive, Executed
  <1>5. Records' = Records
    BY <1>2, <1>3, SameRecords DEF LifeInv, TypeOK, DatabaseOK, TxsOnlyAge
  <1>6. Payments' = Payments \cup {PaidBy(t)}
    BY <1>2 DEF Payments, PaidBy, TxsOnlyAge, Executed
  <1>7. \A p \in Payments : p.claim # txs[t].claim /\ p.signature # t
    BY <1>4 DEF Payments, PaidBy
  <1>8. Life!Pay(txs[t].m, txs[t].claim, t)
    BY <1>3, <1>5, <1>6, <1>7 DEF Life!Pay, Payments, Records, PaidBy
  <1>9. txs[t].claim \in 1..accepted /\ txs[t].m \in Miners
    BY <1>1 DEF LifeInv, OnceInv, ClaimsAreNumbered, TypeOK, HistoryOK, Tx
  <1> QED
    BY <1>1, <1>8, <1>9 DEF Life!Next

LEMMA RestartForgets ==
  ASSUME LifeInv, Restart
  PROVE  Life!Next
  <1>1. /\ queue' = [m \in Miners |-> None] /\ restarts' = restarts + 1
        /\ UNCHANGED <<txs, claims, transactions, accepted, overlapped>>
    BY DEF Restart, EmptyQueue, dbVars
  <1>2. Payments' = Payments /\ Records' = Records
    BY <1>1, SameRows DEF Payments, Records, PaidBy, Executed
  <1> QED
    BY <1>1, <1>2 DEF Life!Next, Life!Forget, Payments, Records

-----------------------------------------------------------------------------
LEMMA LifeNext ==
  ASSUME LifeInv, [Next]_vars
  PROVE  [Life!Next]_(Life!vars)
  <1> USE DEF dbVars, history, counts, unheard
  <1>1. ASSUME SameExecuted, UNCHANGED <<queue, Claimed, accepted, restarts, overlapped>>
        PROVE  UNCHANGED Life!vars
    <2>1. Payments' = Payments /\ Records' = Records
      BY <1>1, SamePayments, SameRecords DEF LifeInv, TypeOK, DatabaseOK, SameExecuted
    <2> QED
      BY <1>1, <2>1 DEF Life!vars, Payments, Records
  <1>2. ASSUME UNCHANGED <<txs, queue, Claimed, accepted, restarts, overlapped>>
        PROVE  UNCHANGED Life!vars
    BY <1>1, <1>2 DEF SameExecuted, Executed
  <1>3. CASE Sign
    <2>1. CASE UNCHANGED txs
      BY <1>2, <1>3, <2>1, SameRows DEF Sign
    <2>2. CASE txs' = Append(txs, Payment)
      <3>1. txs \in Seq(Tx)
        BY DEF LifeInv, TypeOK
      <3>2. /\ DOMAIN txs' = DOMAIN txs \cup {Len(txs) + 1}
            /\ \A t \in DOMAIN txs : txs'[t] = txs[t]
            /\ txs'[Len(txs) + 1] = Payment
        BY <2>2, <3>1
      <3>3. SameExecuted
        BY <3>2 DEF SameExecuted, Executed, Payment
      <3> QED
        BY <1>1, <1>3, <3>3, SameRows DEF Sign
    <2> QED
      BY <1>3, <2>1, <2>2 DEF Sign
  <1>4. CASE Send
    <2>1. TxsOnlyAge /\ proc.tx \in DOMAIN txs /\ txs \in Seq(Tx)
      BY <1>4, SendAges DEF LifeInv, TypeOK, ServerOK, Send, SignedPcs
    <2>2. /\ txs' = [txs EXCEPT ![proc.tx].status = "pending"]
          /\ UNCHANGED <<queue, Claimed, accepted, restarts, overlapped>>
      BY <1>4, SameRows DEF Send
    <2>3. /\ txs'[proc.tx].status = "pending"
          /\ \A u \in DOMAIN txs : u # proc.tx => txs'[u] = txs[u]
      <3>1. txs[proc.tx] \in Tx
        BY <2>1
      <3> QED
        BY <2>1, <2>2, <3>1 DEF Tx
    <2>4. SameExecuted
      BY <2>1, <2>3, Unexecuted DEF Executed
    <2> QED
      BY <1>1, <2>2, <2>4
  <1>5. CASE Chain
    <2>1. PICK t \in DOMAIN txs : Land(t) \/ Fail(t) \/ Drop(t) \/ Finalize(t)
      BY <1>5 DEF Chain
    <2>2. CASE Land(t)
      BY <2>2, LandPays
    <2>3. CASE Fail(t) \/ Drop(t) \/ Finalize(t)
      <3>1. txs[t] \in Tx /\ txs \in Seq(Tx) /\ TxsOnlyAge
        BY <1>5, ChainAges DEF LifeInv, TypeOK
      <3>2. PICK status \in Statuses, ok \in BOOLEAN :
              /\ txs' = [txs EXCEPT ![t].status = status, ![t].ok = ok]
              /\ \/ ~ ok /\ txs[t].status \in {"signed", "pending"}
                 \/ ok = txs[t].ok /\ status = "finalized" /\ txs[t].status = "confirmed"
        BY <2>3, <3>1 DEF Fail, Drop, Finalize, SetStatus, Statuses, Tx
      <3>3. /\ txs'[t].status = status /\ txs'[t].ok = ok
            /\ \A u \in DOMAIN txs : u # t => txs'[u] = txs[u]
        <4>1. txs'[t] = [txs[t] EXCEPT !.status = status, !.ok = ok]
          BY <3>1, <3>2, Updated
        <4>2. \A u \in DOMAIN txs : u # t => txs'[u] = txs[u]
          BY <3>1, <3>2, Updated
        <4> QED
          BY <3>1, <4>1, <4>2 DEF Tx
      <3>4. SameExecuted
        BY <3>1, <3>2, <3>3 DEF SameExecuted, Executed, TxsOnlyAge
      <3> QED
        BY <1>1, <2>3, <3>4, SameRows DEF Fail, Drop, Finalize, SetStatus
    <2> QED
      BY <2>1, <2>2, <2>3
  <1>6. CASE \E r \in Requests : Insert(r)
    BY <1>6, InsertAccepts
  <1>7. ASSUME NEW r \in Requests,
               CheckQueue(r) \/ CheckBalance(r) \/ CheckLast(r)
        PROVE  UNCHANGED Life!vars
    BY <1>2, <1>7, SameRows DEF CheckQueue, CheckBalance, CheckLast
  <1>8. CASE Restart
    BY <1>8, RestartForgets
  <1>9. CASE \E m \in Miners : Pick(m) \/ HalfHourPasses(m) \/ UpdateRewards(m)
    BY <1>2, <1>9, SameRows DEF Pick, HalfHourPasses, UpdateRewards
  <1>10. CASE \/ PollConfirmed \/ PollExpired \/ GiveUp \/ DecreaseMinerReward
              \/ UpdatePoolClaimed \/ AddNewTransaction
    BY <1>2, <1>10, SameRows, TransactionAdded
       DEF LifeInv, PollConfirmed, PollExpired, GiveUp, DecreaseMinerReward, UpdatePoolClaimed,
           AddNewTransaction
  <1>11. CASE AddNewClaim
    BY <1>11, AddNewClaimRecords
  <1>12. CASE Dequeue
    BY <1>12, DequeueFinishes
  <1>13. CASE UNCHANGED vars
    BY <1>2, <1>13, SameRows DEF vars
  <1>14. ASSUME NEW r \in Requests, NEW amount \in Amounts, Receive(r, amount)
         PROVE  [Life!Next]_(Life!vars)
    BY <1>14, ReceiveRaces
  <1> QED
    BY <1>3, <1>4, <1>5, <1>6, <1>7, <1>8, <1>9, <1>10, <1>11, <1>12, <1>13, <1>14
       DEF Next, PostClaim, ClaimProcessor, Surroundings

(* Requests, processor and chain implement ClaimLife, as long as the processor  *)
(* sees its transaction confirmed before it is finalized, whatever else fails,   *)
(* whichever answers are lost and however many requests a miner has at a time.   *)
THEOREM ImplementsLife ==
  ASSUME "outage" \notin Faults
  PROVE  Spec => ImplementsClaimLife
  <1>1. Init => LifeInv /\ Life!Init
    BY TypeInit, OnceInit, HeldInit, RecordsInit, LifeInit DEF LifeInv, HeldInv
  <1>2. LifeInv /\ [Next]_vars => LifeInv'
    BY TypeNext, OnceNext, HeldNext, RecordsNext DEF LifeInv, HeldInv
  <1>3. LifeInv /\ [Next]_vars => [Life!Next]_(Life!vars)
    BY LifeNext
  <1> QED
    BY <1>1, <1>2, <1>3, PTL DEF Spec, ImplementsClaimLife, Life!Spec
=============================================================================
