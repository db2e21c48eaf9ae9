--------------------------- MODULE EnrolmentProofs ----------------------------
(***************************************************************************)
(* Proofs about Enrolment, for every number of miners and of concurrent    *)
(* requests, every bound and every choice of faults.                       *)
(***************************************************************************)
EXTENDS Enrolment, FiniteSetTheorems, SequenceTheorems, TLAPS

-----------------------------------------------------------------------------
(* What the statements answer.                                             *)

MinerRow == [id: Ids, pubkey: Pubkeys, enabled: BOOLEAN]
DbType == [miners: Seq(MinerRow), pools: Seq([id: {1}]), rewards: Seq([miner: Ids, balance: Nat])]

(* Every answer of a query leaves the database as it is, and a row it returns *)
(* is the only one; without a fault it fails only for a wrong number of rows. *)
LEMMA QueryAnswers ==
  ASSUME NEW d, NEW rows, NEW a \in QueryOne(d, rows)
  PROVE  /\ a.db = d
         /\ \/ a.result = "ok" /\ rows = {a.row} /\ a.fault = "none"
            \/ a.result = "query" /\ a.fault = "none" /\ ~\E row \in rows : rows = {row}
            \/ a.result \in {"connection", "query"} /\ a.fault \in FaultKinds
  BY DEF QueryOne, NoConnection, Unless, Answer, FaultKinds

LEMMA ExecuteAnswers ==
  ASSUME NEW d, NEW after, NEW a \in Execute(d, after, 1)
  PROVE  \/ a.db = after /\ a.result = "ok" /\ a.fault = "none"
         \/ a.db = d /\ a.result \in {"connection", "query"} /\ a.fault \in FaultKinds
         \/ a.db = after /\ a.result = "query" /\ a.fault \in FaultKinds
  BY DEF Execute, NoConnection, Unless, Answer, FaultKinds

LEMMA RefusedAnswers ==
  ASSUME NEW d, NEW a \in Refused(d)
  PROVE  /\ a.db = d
         /\ \/ a.result = "query" /\ a.fault = "none"
            \/ a.result = "connection" /\ a.fault \in FaultKinds
  BY DEF Refused, NoConnection, Unless, Answer, FaultKinds

(* The enrolment of a miner: only when nothing failed is the answer "ok". *)
Enrolled(d, m) == WithReward(WithMiner(d, m), Len(WithMiner(d, m).miners))

LEMMA EnrolAnswers ==
  ASSUME NEW d, NEW m, NEW a \in signup_enrollment(d, m)
  PROVE  \/ a.db = d /\ a.result \in {"abort", "query"} /\ a.fault = "none"
         \/ a.db = d /\ a.result \in {"connection", "abort"} /\ a.fault \in FaultKinds
         \/ /\ ~HasMiner(d, m) /\ a.db = Enrolled(d, m)
            /\ \/ a.result = "ok" /\ a.fault = "none"
               \/ a.result = "abort" /\ a.fault \in FaultKinds
  <1>1. CASE HasMiner(d, m)
    BY <1>1 DEF signup_enrollment, NoConnection, Unless, Answer, FaultKinds
  <1>2. CASE ~HasMiner(d, m) /\ d.pools = <<>>
    BY <1>2, RefusedAnswers DEF signup_enrollment
  <1>3. CASE ~HasMiner(d, m) /\ d.pools # <<>>
    BY <1>3 DEF signup_enrollment, Enrolled, Transaction, NoConnection, Unless, Answer, FaultKinds
  <1> QED
    BY <1>1, <1>2, <1>3

-----------------------------------------------------------------------------
(* What the statements do to the tables.                                   *)

LEMMA WithMinerType ==
  ASSUME NEW d \in DbType, NEW m \in Pubkeys
  PROVE  /\ WithMiner(d, m) \in DbType
         /\ WithMiner(d, m).rewards = d.rewards /\ WithMiner(d, m).pools = d.pools
         /\ LET n == Len(d.miners) IN
            /\ n \in Nat
            /\ DOMAIN d.miners = 1..n
            /\ DOMAIN WithMiner(d, m).miners = 1..(n + 1)
            /\ Len(WithMiner(d, m).miners) = n + 1
            /\ \A i \in 1..n : WithMiner(d, m).miners[i] = d.miners[i]
            /\ WithMiner(d, m).miners[n + 1] = [id |-> n + 1, pubkey |-> m, enabled |-> TRUE]
  <1> DEFINE n == Len(d.miners)
             row == [id |-> n + 1, pubkey |-> m, enabled |-> TRUE]
  <1>1. d.miners \in Seq(MinerRow) /\ n \in Nat
    BY DEF DbType
  <1>2. row \in MinerRow
    BY <1>1 DEF MinerRow, Ids
  <1>3. WithMiner(d, m) = [d EXCEPT !.miners = Append(d.miners, row)]
    BY DEF WithMiner, DbType
  <1>4. Append(d.miners, row) \in Seq(MinerRow)
    BY <1>1, <1>2
  <1>5. WithMiner(d, m) \in DbType
    BY <1>3, <1>4 DEF DbType
  <1>6. /\ WithMiner(d, m).miners = Append(d.miners, row)
        /\ WithMiner(d, m).rewards = d.rewards /\ WithMiner(d, m).pools = d.pools
    BY <1>3 DEF DbType
  <1> HIDE DEF row
  <1>7. /\ DOMAIN d.miners = 1..n
        /\ DOMAIN Append(d.miners, row) = 1..(n + 1)
        /\ Len(Append(d.miners, row)) = n + 1
        /\ \A i \in 1..n : Append(d.miners, row)[i] = d.miners[i]
        /\ Append(d.miners, row)[n + 1] = row
    BY <1>1, <1>2
  <1> QED
    BY <1>1, <1>5, <1>6, <1>7 DEF row

LEMMA WithRewardType ==
  ASSUME NEW d \in DbType, NEW id \in Ids
  PROVE  /\ WithReward(d, id) \in DbType
         /\ WithReward(d, id).miners = d.miners /\ WithReward(d, id).pools = d.pools
         /\ LET n == Len(d.rewards) IN
            /\ n \in Nat
            /\ DOMAIN d.rewards = 1..n
            /\ DOMAIN WithReward(d, id).rewards = 1..(n + 1)
            /\ \A i \in 1..n : WithReward(d, id).rewards[i] = d.rewards[i]
            /\ WithReward(d, id).rewards[n + 1] = [miner |-> id, balance |-> 0]
  <1> DEFINE n == Len(d.rewards)
             row == [miner |-> id, balance |-> 0]
  <1>1. d.rewards \in Seq([miner: Ids, balance: Nat]) /\ n \in Nat
    BY DEF DbType
  <1>2. row \in [miner: Ids, balance: Nat]
    OBVIOUS
  <1>3. WithReward(d, id) = [d EXCEPT !.rewards = Append(d.rewards, row)]
    BY DEF WithReward, DbType
  <1>4. Append(d.rewards, row) \in Seq([miner: Ids, balance: Nat])
    BY <1>1, <1>2
  <1>5. WithReward(d, id) \in DbType
    BY <1>3, <1>4 DEF DbType
  <1>6. /\ WithReward(d, id).rewards = Append(d.rewards, row)
        /\ WithReward(d, id).miners = d.miners /\ WithReward(d, id).pools = d.pools
    BY <1>3 DEF DbType
  <1> HIDE DEF row
  <1>7. /\ DOMAIN d.rewards = 1..n
        /\ DOMAIN Append(d.rewards, row) = 1..(n + 1)
        /\ \A i \in 1..n : Append(d.rewards, row)[i] = d.rewards[i]
        /\ Append(d.rewards, row)[n + 1] = row
    BY <1>1, <1>2
  <1> QED
    BY <1>1, <1>5, <1>6, <1>7 DEF row

(* Ids are positions and keys are unique, every balance is of a miner, and of *)
(* another miner than every other balance.                                    *)
TablesAreSound(d) ==
  /\ \A i \in DOMAIN d.miners : d.miners[i].id = i
  /\ \A i, j \in DOMAIN d.miners : d.miners[i].pubkey = d.miners[j].pubkey => i = j
  /\ \A k \in DOMAIN d.rewards : d.rewards[k].miner \in DOMAIN d.miners
  /\ \A k, l \in DOMAIN d.rewards : d.rewards[k].miner = d.rewards[l].miner => k = l

HasReward(d, id) == \E k \in DOMAIN d.rewards : d.rewards[k].miner = id

LEMMA WithMinerSound ==
  ASSUME NEW d \in DbType, NEW m \in Pubkeys, TablesAreSound(d), ~HasMiner(d, m)
  PROVE  /\ TablesAreSound(WithMiner(d, m))
         /\ ~HasReward(WithMiner(d, m), Len(d.miners) + 1)
  <1> DEFINE e == WithMiner(d, m)
             n == Len(d.miners)
  <1>1. /\ n \in Nat /\ DOMAIN d.miners = 1..n /\ DOMAIN e.miners = 1..(n + 1)
        /\ \A i \in 1..n : e.miners[i] = d.miners[i]
        /\ e.miners[n + 1].id = n + 1 /\ e.miners[n + 1].pubkey = m
        /\ e.rewards = d.rewards
    <2>1. /\ n \in Nat /\ DOMAIN d.miners = 1..n /\ DOMAIN e.miners = 1..(n + 1)
          /\ \A i \in 1..n : e.miners[i] = d.miners[i]
          /\ e.miners[n + 1] = [id |-> n + 1, pubkey |-> m, enabled |-> TRUE]
          /\ e.rewards = d.rewards
      BY WithMinerType
    <2> HIDE DEF e, n
    <2> QED
      BY <2>1
  <1>2. /\ \A i \in 1..n : d.miners[i].id = i /\ d.miners[i].pubkey # m
        /\ \A i, j \in 1..n : d.miners[i].pubkey = d.miners[j].pubkey => i = j
        /\ \A k \in DOMAIN d.rewards : d.rewards[k].miner \in 1..n
        /\ \A k, l \in DOMAIN d.rewards : d.rewards[k].miner = d.rewards[l].miner => k = l
    BY <1>1 DEF TablesAreSound, HasMiner
  <1> HIDE DEF e, n
  <1>3. \A i \in 1..(n + 1) : i = n + 1 \/ i \in 1..n
    BY <1>1
  <1>4. \A i \in 1..(n + 1) : e.miners[i].id = i
    BY <1>1, <1>2, <1>3
  <1>5. \A i, j \in 1..(n + 1) : e.miners[i].pubkey = e.miners[j].pubkey => i = j
    BY <1>1, <1>2, <1>3
  <1>6. \A k \in DOMAIN e.rewards : e.rewards[k].miner \in 1..(n + 1) /\ e.rewards[k].miner # n + 1
    BY <1>1, <1>2
  <1>7. TablesAreSound(e) /\ ~HasReward(e, n + 1)
    BY <1>1, <1>2, <1>4, <1>5, <1>6 DEF TablesAreSound, HasReward
  <1> QED
    BY <1>7 DEF e, n

LEMMA WithRewardSound ==
  ASSUME NEW d \in DbType, TablesAreSound(d), NEW id \in DOMAIN d.miners, ~HasReward(d, id)
  PROVE  TablesAreSound(WithReward(d, id))
  <1> DEFINE e == WithReward(d, id)
             n == Len(d.rewards)
  <1>1. id \in Ids
    BY DEF DbType, Ids
  <1>2. /\ n \in Nat /\ DOMAIN d.rewards = 1..n /\ DOMAIN e.rewards = 1..(n + 1)
        /\ \A i \in 1..n : e.rewards[i] = d.rewards[i]
        /\ e.rewards[n + 1].miner = id
        /\ e.miners = d.miners
    <2>1. /\ n \in Nat /\ DOMAIN d.rewards = 1..n /\ DOMAIN e.rewards = 1..(n + 1)
          /\ \A i \in 1..n : e.rewards[i] = d.rewards[i]
          /\ e.rewards[n + 1] = [miner |-> id, balance |-> 0]
          /\ e.miners = d.miners
      BY <1>1, WithRewardType
    <2> HIDE DEF e, n
    <2> QED
      BY <2>1
  <1>3. /\ \A k \in 1..n : d.rewards[k].miner \in DOMAIN d.miners /\ d.rewards[k].miner # id
        /\ \A k, l \in 1..n : d.rewards[k].miner = d.rewards[l].miner => k = l
    BY <1>2 DEF TablesAreSound, HasReward
  <1> HIDE DEF e, n
  <1>4. \A i \in 1..(n + 1) : i = n + 1 \/ i \in 1..n
    BY <1>2
  <1>5. \A k \in 1..(n + 1) : e.rewards[k].miner \in DOMAIN d.miners
    BY <1>2, <1>3, <1>4
  <1>6. \A k, l \in 1..(n + 1) : e.rewards[k].miner = e.rewards[l].miner => k = l
    BY <1>2, <1>3, <1>4
  <1>7. TablesAreSound(e)
    BY <1>2, <1>5, <1>6 DEF TablesAreSound
  <1> QED
    BY <1>7 DEF e

LEMMA WithRewardHas ==
  ASSUME NEW d \in DbType, NEW id \in Ids
  PROVE  \A i : HasReward(WithReward(d, id), i) <=> (HasReward(d, i) \/ i = id)
  <1> DEFINE e == WithReward(d, id)
             n == Len(d.rewards)
  <1>1. /\ n \in Nat /\ DOMAIN d.rewards = 1..n /\ DOMAIN e.rewards = 1..(n + 1)
        /\ \A i \in 1..n : e.rewards[i] = d.rewards[i]
        /\ e.rewards[n + 1].miner = id
    <2>1. /\ n \in Nat /\ DOMAIN d.rewards = 1..n /\ DOMAIN e.rewards = 1..(n + 1)
          /\ \A i \in 1..n : e.rewards[i] = d.rewards[i]
          /\ e.rewards[n + 1] = [miner |-> id, balance |-> 0]
      BY WithRewardType
    <2> HIDE DEF e, n
    <2> QED
      BY <2>1
  <1> HIDE DEF e, n
  <1>2. \A i \in 1..(n + 1) : i = n + 1 \/ i \in 1..n
    BY <1>1
  <1>3. n + 1 \in 1..(n + 1) /\ \A i \in 1..n : i \in 1..(n + 1)
    BY <1>1
  <1>4. \A i : HasReward(e, i) <=> (HasReward(d, i) \/ i = id)
    BY <1>1, <1>2, <1>3 DEF HasReward
  <1> QED
    BY <1>4 DEF e

LEMMA EnrolledSound ==
  ASSUME NEW d \in DbType, NEW m \in Pubkeys, TablesAreSound(d), ~HasMiner(d, m)
  PROVE  /\ Enrolled(d, m) \in DbType /\ TablesAreSound(Enrolled(d, m))
         /\ Enrolled(d, m).pools = d.pools
         /\ Enrolled(d, m).miners = WithMiner(d, m).miners
         /\ \A i : HasReward(Enrolled(d, m), i) <=> (HasReward(d, i) \/ i = Len(d.miners) + 1)
  <1> DEFINE e == WithMiner(d, m)
             id == Len(d.miners) + 1
  <1>1. /\ e \in DbType /\ Len(e.miners) = id /\ DOMAIN e.miners = 1..id
        /\ e.rewards = d.rewards /\ e.pools = d.pools
        /\ Len(d.miners) \in Nat
    BY WithMinerType
  <1>2. TablesAreSound(e) /\ ~HasReward(e, id) /\ id \in DOMAIN e.miners /\ id \in Ids
    BY <1>1, WithMinerSound DEF Ids
  <1>3. Enrolled(d, m) = WithReward(e, id)
    BY <1>1 DEF Enrolled
  <1> HIDE DEF e, id
  <1>4. WithReward(e, id) \in DbType /\ TablesAreSound(WithReward(e, id))
    BY <1>1, <1>2, WithRewardType, WithRewardSound
  <1>5. WithReward(e, id).pools = e.pools /\ WithReward(e, id).miners = e.miners
    BY <1>1, <1>2, WithRewardType
  <1>6. \A i : HasReward(WithReward(e, id), i) <=> (HasReward(e, i) \/ i = id)
    BY <1>1, <1>2, WithRewardHas
  <1>7. \A i : HasReward(e, i) <=> HasReward(d, i)
    BY <1>1 DEF HasReward
  <1>8. \A i : HasReward(Enrolled(d, m), i) <=> (HasReward(d, i) \/ i = id)
    BY <1>3, <1>6, <1>7
  <1> QED
    BY <1>1, <1>3, <1>4, <1>5, <1>8 DEF e, id

-----------------------------------------------------------------------------
(* The inductive invariant.                                                *)

Pcs == {"idle", "signup", "enrol", "signupAnswer", "ws", "addMiner", "getMiner", "findPool",
        "addPool", "getPool", "addReward", "verify"}

HandlerType ==
  [pc: Pcs, miner: Pubkeys, id: Nat, enabled: BOOLEAN, add_miner: Results, add_pool: Results]

(* A handler that has added its miner, and is to add its balance. *)
Owner(h) ==
  /\ handler[h].pc \in {"getMiner", "findPool", "addPool", "getPool", "addReward"}
  /\ handler[h].add_miner = "ok"

(* The miner an owner added has no balance, and the owner has its id. *)
OwnerHolds(h) ==
  Owner(h) =>
    \E i \in DOMAIN db.miners :
      /\ db.miners[i].pubkey = handler[h].miner
      /\ ~HasReward(db, i)
      /\ handler[h].pc # "getMiner" => handler[h].id = i

HandlerIsSound(h) ==
  /\ OwnerHolds(h)
  /\ handler[h].pc = "addReward" => Owner(h)
  /\ handler[h].pc \in {"findPool", "addPool", "getPool", "addReward", "verify"}
       => handler[h].id \in Ids
  /\ (handler[h].pc = "signupAnswer" /\ handler[h].add_miner = "ok") => HasBalance(handler[h].miner)
  /\ handler[h].pc # "idle" => server = "up"
  /\ handler[h].pc \in {"addPool", "getPool"} => faults # 0

OwnersDiffer ==
  \A g, h \in Handlers : (Owner(g) /\ Owner(h) /\ handler[g].miner = handler[h].miner) => g = h

PoolIsKnown ==
  server \in {"receiver", "enrol", "again", "config", "up"} => db.pools # <<>>

(* Unless something was interrupted, a miner without a balance has an owner. *)
Owned(i) == \E h \in Handlers : Owner(h) /\ handler[h].miner = db.miners[i].pubkey

MinersAreServed ==
  (faults = 0 /\ ~aborted) => \A i \in DOMAIN db.miners : HasReward(db, i) \/ Owned(i)

EnrolmentInv ==
  /\ TypeOK
  /\ TablesAreSound(db)
  /\ \A h \in Handlers : HandlerIsSound(h)
  /\ OwnersDiffer
  /\ PoolIsKnown
  /\ SuccessCanBePaid
  /\ MinersAreServed

(* The database has grown: rows are added, none is changed. *)
Grown ==
  /\ db' \in DbType /\ TablesAreSound(db')
  /\ \A i \in DOMAIN db.miners : i \in DOMAIN db'.miners /\ db'.miners[i] = db.miners[i]
  /\ \A i : HasReward(db, i) => HasReward(db', i)
  /\ db.pools # <<>> => db'.pools # <<>>

LEMMA BalanceIsReward ==
  ASSUME TablesAreSound(db), NEW m
  PROVE  HasBalance(m) <=> \E i \in DOMAIN db.miners : db.miners[i].pubkey = m /\ HasReward(db, i)
  BY DEF HasBalance, Balances, HasReward, TablesAreSound

LEMMA BalanceIsKept ==
  ASSUME TablesAreSound(db), Grown, NEW m, HasBalance(m)
  PROVE  HasBalance(m)'
  BY BalanceIsReward DEF Grown, HasBalance, Balances, HasReward, TablesAreSound

LEMMA FaultsCounted ==
  ASSUME TypeOK, NEW fault, Counted(fault)
  PROVE  /\ faults' \in 0..MaxFaults
         /\ faults' = 0 => (faults = 0 /\ fault = "none")
         /\ fault = "none" => faults' = faults
         /\ fault # "none" => faults' # 0
         /\ faults # 0 => faults' # 0
  BY BoundsAssumption DEF TypeOK, Counted

LEMMA DeathStep ==
  ASSUME EnrolmentInv, Die, Grown, faults' \in 0..MaxFaults, aborted' \in BOOLEAN,
         (faults' # 0) \/ aborted', UNCHANGED <<received, history>>
  PROVE  EnrolmentInv'
  <1>1. NoHandler \in HandlerType
    BY PubkeysAssumption DEF NoHandler, HandlerType, Pcs, Results
  <1>2. NoHandler.pc = "idle"
    BY DEF NoHandler
  <1>3. \A h \in Handlers : handler'[h] = NoHandler
    BY DEF Die
  <1>4. handler' \in [Handlers -> HandlerType]
    BY <1>1 DEF Die
  <1>5. TypeOK'
    BY <1>4 DEF EnrolmentInv, TypeOK, Die, Grown, DbType, MinerRow, HandlerType, Pcs, history
  <1>6. \A h \in Handlers : HandlerIsSound(h)' /\ ~Owner(h)'
    BY <1>2, <1>3 DEF HandlerIsSound, Owner, OwnerHolds
  <1>7. OwnersDiffer'
    BY <1>6 DEF OwnersDiffer
  <1>8. PoolIsKnown'
    BY DEF PoolIsKnown, Die
  <1>9. SuccessCanBePaid'
    BY BalanceIsKept DEF EnrolmentInv, SuccessCanBePaid, history
  <1>10. MinersAreServed'
    BY DEF MinersAreServed
  <1> QED
    BY <1>5, <1>6, <1>7, <1>8, <1>9, <1>10 DEF EnrolmentInv, Grown

(* What is left of a step of a handler: the rows it adds, its own state, and *)
(* who owns what.                                                            *)
HandlerStep(h, r) ==
  /\ Grown
  /\ handler' = [handler EXCEPT ![h] = r]
  /\ HandlerIsSound(h)'
  /\ \A i \in DOMAIN db.miners :
       HasReward(db', i) => \/ HasReward(db, i)
                            \/ Owner(h) /\ db.miners[i].pubkey = handler[h].miner
  /\ Owner(h)' => \/ Owner(h) /\ r.miner = handler[h].miner
                  \/ ~HasMiner(db, r.miner)
  /\ (faults' = 0 /\ ~aborted) =>
       /\ \A i \in DOMAIN db'.miners :
            \/ i \in DOMAIN db.miners
            \/ HasReward(db', i)
            \/ Owner(h)' /\ r.miner = db'.miners[i].pubkey
       /\ Owner(h) => \/ Owner(h)' /\ r.miner = handler[h].miner
                      \/ \A i \in DOMAIN db.miners :
                           db.miners[i].pubkey = handler[h].miner => HasReward(db', i)

HistoryStep ==
  /\ signedUp' \subseteq Pubkeys /\ \A m \in signedUp' : m \in signedUp \/ HasBalance(m)
  /\ connected' \subseteq [pubkey: Pubkeys, id: Ids]

LEMMA HandlerStepSound ==
  ASSUME EnrolmentInv, NEW h \in Handlers, NEW r \in HandlerType, HandlerStep(h, r), HistoryStep,
         UNCHANGED <<server, aborted>>, received' \in 0..MaxRequests,
         faults' \in 0..MaxFaults, faults' = 0 => faults = 0
  PROVE  EnrolmentInv'
  <1>1. handler \in [Handlers -> HandlerType]
    BY DEF EnrolmentInv, TypeOK, HandlerType, Pcs
  <1>2. handler' \in [Handlers -> HandlerType] /\ handler'[h] = r
    BY <1>1 DEF HandlerStep
  <1>3. \A g \in Handlers \ {h} : handler'[g] = handler[g]
    BY <1>1 DEF HandlerStep
  <1>4. TypeOK'
    BY <1>2 DEF EnrolmentInv, TypeOK, HandlerStep, HistoryStep, Grown, DbType, MinerRow, HandlerType,
                  Pcs
  <1>5. \A g \in Handlers \ {h} : Owner(g)' <=> Owner(g)
    BY <1>3 DEF Owner
  <1>6. \A g \in Handlers \ {h} : HandlerIsSound(g)'
    <2> SUFFICES ASSUME NEW g \in Handlers \ {h}
                 PROVE  HandlerIsSound(g)'
      OBVIOUS
    <2>1. HandlerIsSound(g)
      BY DEF EnrolmentInv
    <2>2. OwnerHolds(g)'
      <3> SUFFICES ASSUME Owner(g)
                   PROVE  OwnerHolds(g)'
        BY <1>5 DEF OwnerHolds
      <3>1. PICK i \in DOMAIN db.miners :
              /\ db.miners[i].pubkey = handler[g].miner
              /\ ~HasReward(db, i)
              /\ handler[g].pc # "getMiner" => handler[g].id = i
        BY <2>1 DEF HandlerIsSound, OwnerHolds
      <3>2. i \in DOMAIN db'.miners /\ db'.miners[i] = db.miners[i]
        BY DEF HandlerStep, Grown
      <3>3. ~HasReward(db', i)
        BY <3>1 DEF HandlerStep, EnrolmentInv, OwnersDiffer
      <3> QED
        BY <1>3, <3>1, <3>2, <3>3 DEF OwnerHolds
    <2>3. (handler'[g].pc = "signupAnswer" /\ handler'[g].add_miner = "ok")
            => HasBalance(handler[g].miner)'
      <3> SUFFICES ASSUME handler[g].pc = "signupAnswer", handler[g].add_miner = "ok"
                   PROVE  HasBalance(handler[g].miner)'
        BY <1>3
      <3>1. PICK i \in DOMAIN db.miners : db.miners[i].pubkey = handler[g].miner /\ HasReward(db, i)
        BY <2>1, BalanceIsReward DEF HandlerIsSound, EnrolmentInv
      <3>2. /\ i \in DOMAIN db'.miners /\ db'.miners[i].id = i
            /\ db'.miners[i].pubkey = handler'[g].miner /\ HasReward(db', i)
        BY <1>3, <3>1 DEF HandlerStep, Grown, TablesAreSound
      <3> QED
        BY <3>2 DEF HasBalance, Balances, HasReward
    <2>4. handler'[g] = handler[g]
      BY <1>3
    <2> QED
      BY <1>5, <2>1, <2>2, <2>3, <2>4 DEF HandlerIsSound
  <1>7. \A g \in Handlers : HandlerIsSound(g)'
    BY <1>6 DEF HandlerStep
  <1>8. OwnersDiffer'
    <2>1. \A g \in Handlers \ {h} : Owner(g) => HasMiner(db, handler[g].miner)
      BY DEF EnrolmentInv, HandlerIsSound, OwnerHolds, HasMiner
    <2>2. \A g \in Handlers \ {h} : (Owner(g)' /\ Owner(h)') => handler'[g].miner # handler'[h].miner
      BY <1>2, <1>3, <1>5, <2>1 DEF HandlerStep, EnrolmentInv, OwnersDiffer
    <2>3. \A f, g \in Handlers \ {h} :
            (Owner(f)' /\ Owner(g)' /\ handler'[f].miner = handler'[g].miner) => f = g
      BY <1>3, <1>5 DEF EnrolmentInv, OwnersDiffer
    <2> QED
      BY <2>2, <2>3 DEF OwnersDiffer
  <1>9. PoolIsKnown'
    BY DEF EnrolmentInv, PoolIsKnown, HandlerStep, Grown
  <1>10. SuccessCanBePaid'
    <2>1. \A m \in signedUp' : HasBalance(m)
      BY DEF HistoryStep, EnrolmentInv, SuccessCanBePaid
    <2> QED
      BY <2>1, BalanceIsKept DEF SuccessCanBePaid, EnrolmentInv, HandlerStep
  <1>11. MinersAreServed'
    <2> SUFFICES ASSUME faults' = 0, ~aborted, NEW i \in DOMAIN db'.miners, ~HasReward(db', i)
                 PROVE  Owned(i)'
      BY DEF MinersAreServed
    <2>1. CASE i \notin DOMAIN db.miners
      BY <1>2, <2>1 DEF HandlerStep, Owned
    <2>2. CASE i \in DOMAIN db.miners
      <3>1. db'.miners[i] = db.miners[i] /\ ~HasReward(db, i)
        BY <2>2 DEF HandlerStep, Grown
      <3>2. PICK g \in Handlers : Owner(g) /\ handler[g].miner = db.miners[i].pubkey
        BY <2>2, <3>1 DEF EnrolmentInv, MinersAreServed, Owned
      <3>3. Owner(g)' /\ handler'[g].miner = db'.miners[i].pubkey
        BY <1>2, <1>3, <1>5, <2>2, <3>1, <3>2 DEF HandlerStep
      <3> QED
        BY <3>3 DEF Owned
    <2> QED
      BY <2>1, <2>2
  <1> QED
    BY <1>4, <1>7, <1>8, <1>9, <1>10, <1>11 DEF EnrolmentInv, HandlerStep, Grown

-----------------------------------------------------------------------------
(* The steps of a handler.                                                 *)

LEMMA HandlersHaveType ==
  ASSUME TypeOK, NEW h \in Handlers
  PROVE  /\ handler \in [Handlers -> HandlerType] /\ handler[h] \in HandlerType
         /\ NoHandler \in HandlerType /\ NoHandler.pc = "idle"
         /\ \A pc \in Pcs :
              /\ At(h, pc) \in HandlerType /\ At(h, pc).pc = pc
              /\ At(h, pc).miner = handler[h].miner /\ At(h, pc).id = handler[h].id
              /\ At(h, pc).add_miner = handler[h].add_miner
  <1>1. handler \in [Handlers -> HandlerType]
    BY DEF TypeOK, HandlerType, Pcs
  <1>2. handler[h] \in HandlerType
    BY <1>1
  <1>3. NoHandler \in HandlerType /\ NoHandler.pc = "idle"
    BY PubkeysAssumption DEF NoHandler, HandlerType, Pcs, Results
  <1> QED
    BY <1>1, <1>2, <1>3 DEF At, HandlerType

LEMMA DatabaseIsKept ==
  ASSUME TypeOK, TablesAreSound(db), db' = db
  PROVE  Grown
  BY DEF Grown, TypeOK, DbType, MinerRow, TablesAreSound, HasReward

(* A step that leaves the database alone. *)
QuietStep(h, r) ==
  /\ db' = db
  /\ handler' = [handler EXCEPT ![h] = r]
  /\ HandlerIsSound(h)'
  /\ Owner(h)' => (Owner(h) /\ r.miner = handler[h].miner)
  /\ (faults' = 0 /\ ~aborted /\ Owner(h)) => (Owner(h)' /\ r.miner = handler[h].miner)

LEMMA QuietStepSound ==
  ASSUME EnrolmentInv, NEW h \in Handlers, NEW r \in HandlerType, QuietStep(h, r), HistoryStep,
         UNCHANGED <<server, aborted>>, received' \in 0..MaxRequests,
         faults' \in 0..MaxFaults, faults' = 0 => faults = 0
  PROVE  EnrolmentInv'
  <1>1. Grown
    BY DatabaseIsKept DEF EnrolmentInv, QuietStep
  <1>2. \A i \in DOMAIN db.miners : HasReward(db', i) => HasReward(db, i)
    BY DEF QuietStep
  <1>3. \A i \in DOMAIN db'.miners : i \in DOMAIN db.miners
    BY DEF QuietStep
  <1>4. HandlerStep(h, r)
    BY <1>1, <1>2, <1>3 DEF QuietStep, HandlerStep
  <1> QED
    BY <1>4, HandlerStepSound

LEMMA HistoryIsKept ==
  ASSUME TypeOK, UNCHANGED history
  PROVE  HistoryStep
  BY DEF TypeOK, HistoryStep, history

LEMMA ReceiveStep ==
  ASSUME EnrolmentInv, NEW h \in Handlers, NEW m \in Pubkeys, NEW first \in {"signup", "ws"},
         Receive(h, m, first)
  PROVE  EnrolmentInv'
  <1> DEFINE r == [NoHandler EXCEPT !.pc = first, !.miner = m]
  <1>1. NoHandler \in HandlerType /\ handler \in [Handlers -> HandlerType]
    BY HandlersHaveType DEF EnrolmentInv
  <1>2. r \in HandlerType /\ r.pc = first
    BY <1>1 DEF HandlerType, Pcs
  <1> HIDE DEF r
  <1>3. handler' = [handler EXCEPT ![h] = r] /\ handler'[h].pc = first
    BY <1>1, <1>2 DEF Receive, r
  <1>4. ~Owner(h) /\ ~Owner(h)'
    BY <1>3 DEF Owner, Receive
  <1>5. HandlerIsSound(h)'
    BY <1>3, <1>4 DEF HandlerIsSound, OwnerHolds, Receive
  <1>6. QuietStep(h, r)
    BY <1>3, <1>4, <1>5 DEF QuietStep, Receive
  <1>7. /\ UNCHANGED <<server, aborted, faults>> /\ HistoryStep
        /\ faults' \in 0..MaxFaults /\ received' \in 0..MaxRequests
    BY HistoryIsKept, BoundsAssumption DEF Receive, EnrolmentInv, TypeOK
  <1> QED
    BY <1>2, <1>6, <1>7, QuietStepSound

(* A call, its answer and what it makes of the handler. *)
Called(h, pc, a, r) ==
  /\ handler[h].pc = pc
  /\ Counted(a.fault)
  /\ db' = a.db
  /\ IF a.result = "abort"
     THEN Die /\ aborted' = (aborted \/ a.fault = "none")
     ELSE handler' = [handler EXCEPT ![h] = r] /\ UNCHANGED <<server, aborted>>
  /\ UNCHANGED <<received, history>>

LEMMA CallStep ==
  ASSUME EnrolmentInv, NEW h \in Handlers, NEW pc, NEW a, NEW r, Called(h, pc, a, r),
         Grown,
         a.result # "abort" => (r \in HandlerType /\ HandlerStep(h, r))
  PROVE  EnrolmentInv'
  <1>1. /\ HistoryStep /\ faults' \in 0..MaxFaults /\ (faults' = 0 => faults = 0)
        /\ received' \in 0..MaxRequests
        /\ a.fault # "none" => faults' # 0
        /\ UNCHANGED <<received, history>>
    BY HistoryIsKept, FaultsCounted DEF Called, EnrolmentInv, TypeOK
  <1>2. CASE a.result # "abort"
    BY <1>1, <1>2, HandlerStepSound DEF Called
  <1>3. CASE a.result = "abort"
    <2>1. Die /\ aborted' = (aborted \/ a.fault = "none")
      BY <1>3 DEF Called
    <2>2. aborted \in BOOLEAN
      BY DEF EnrolmentInv, TypeOK
    <2>3. aborted' \in BOOLEAN /\ ((faults' # 0) \/ aborted')
      BY <1>1, <2>1, <2>2
    <2> QED
      BY <1>1, <2>1, <2>3, DeathStep
  <1> QED
    BY <1>2, <1>3

(* A call that leaves the database alone. *)
LEMMA QueryStep ==
  ASSUME EnrolmentInv, NEW h \in Handlers, NEW pc, NEW a, NEW r, Called(h, pc, a, r),
         a.db = db,
         a.result # "abort" =>
           /\ r \in HandlerType
           /\ HandlerIsSound(h)'
           /\ Owner(h)' => (Owner(h) /\ r.miner = handler[h].miner)
           /\ (faults' = 0 /\ ~aborted /\ Owner(h)) => (Owner(h)' /\ r.miner = handler[h].miner)
  PROVE  EnrolmentInv'
  <1>1. db' = db
    BY DEF Called
  <1>2. Grown
    BY <1>1, DatabaseIsKept DEF EnrolmentInv
  <1>3. CASE a.result = "abort"
    BY <1>2, <1>3, CallStep
  <1>4. CASE a.result # "abort"
    <2>1. QuietStep(h, r)
      BY <1>1, <1>4 DEF QuietStep, Called
    <2>2. /\ HistoryStep /\ faults' \in 0..MaxFaults /\ (faults' = 0 => faults = 0)
          /\ received' \in 0..MaxRequests
      BY HistoryIsKept, FaultsCounted DEF Called, EnrolmentInv, TypeOK
    <2> QED
      BY <1>4, <2>1, <2>2, QuietStepSound DEF Called
  <1> QED
    BY <1>3, <1>4

LEMMA UnwrappedAnswers ==
  ASSUME NEW d, NEW rows, NEW a \in Unwrapped(QueryOne(d, rows))
  PROVE  /\ a.db = d
         /\ \/ a.result = "ok" /\ rows = {a.row} /\ a.fault = "none"
            \/ a.result = "abort"
  <1>1. PICK b \in QueryOne(d, rows) :
          a = IF b.result = "ok" THEN b ELSE [b EXCEPT !.result = "abort"]
    BY DEF Unwrapped
  <1>2. b.db = d /\ (b.result = "ok" => (rows = {b.row} /\ b.fault = "none"))
    BY QueryAnswers
  <1>3. b = Answer(b.db, b.result, b.row, b.fault)
    BY DEF QueryOne, NoConnection, Unless, Answer
  <1>4. b.result # "ok" => (a.db = b.db /\ a.result = "abort")
    BY <1>1, <1>3 DEF Answer
  <1> QED
    BY <1>1, <1>2, <1>4

(* A miner that is found has a row of the table. *)
LEMMA MinerIsFound ==
  ASSUME TypeOK, TablesAreSound(db), NEW m, NEW row,
         {found \in ToSet(db.miners) : found.pubkey = m} = {row}
  PROVE  /\ row \in MinerRow
         /\ \A i \in DOMAIN db.miners : db.miners[i].pubkey = m => row.id = i
  <1>1. db.miners \in Seq(MinerRow)
    BY DEF TypeOK, MinerRow
  <1>2. \A i \in DOMAIN db.miners : db.miners[i] \in MinerRow /\ db.miners[i] \in ToSet(db.miners)
    BY <1>1 DEF ToSet
  <1>3. row \in ToSet(db.miners)
    OBVIOUS
  <1>4. row \in MinerRow
    BY <1>2, <1>3 DEF ToSet
  <1>5. \A i \in DOMAIN db.miners : db.miners[i].pubkey = m => row = db.miners[i]
    BY <1>2
  <1> QED
    BY <1>4, <1>5 DEF TablesAreSound

LEMMA SignupFindStep ==
  ASSUME EnrolmentInv, NEW h \in Handlers, SignupFind(h)
  PROVE  EnrolmentInv'
  <1> DEFINE After(a) == IF a.result = "connection" \/ (a.result = "ok" /\ a.row.enabled)
                         THEN NoHandler ELSE At(h, "enrol")
  <1>1. PICK a \in get_miner_by_pubkey_str(db, handler[h].miner) :
          Called(h, "signup", a, After(a))
    BY DEF SignupFind, Call, Called
  <1> HIDE DEF After
  <1>2. a.db = db /\ a.result # "abort"
    BY QueryAnswers DEF get_miner_by_pubkey_str
  <1>3. After(a) \in HandlerType /\ After(a).pc \in {"idle", "enrol"}
    BY HandlersHaveType DEF EnrolmentInv, Pcs, After
  <1>4. handler[h].pc = "signup" /\ handler'[h] = After(a) /\ UNCHANGED server
    BY <1>1, <1>2, HandlersHaveType DEF Called, EnrolmentInv
  <1>5. ~Owner(h) /\ ~Owner(h)'
    BY <1>3, <1>4 DEF Owner
  <1>6. HandlerIsSound(h)'
    BY <1>3, <1>4, <1>5 DEF HandlerIsSound, OwnerHolds, EnrolmentInv
  <1> QED
    BY <1>1, <1>2, <1>3, <1>5, <1>6, QueryStep

LEMMA SignupAnswerStep ==
  ASSUME EnrolmentInv, NEW h \in Handlers, SignupAnswer(h)
  PROVE  EnrolmentInv'
  <1>1. /\ handler[h].pc = "signupAnswer" /\ handler'[h] = NoHandler
        /\ handler' = [handler EXCEPT ![h] = NoHandler]
        /\ NoHandler \in HandlerType /\ NoHandler.pc = "idle"
        /\ handler[h].miner \in Pubkeys
    BY HandlersHaveType DEF SignupAnswer, EnrolmentInv, HandlerType
  <1>2. ~Owner(h) /\ ~Owner(h)'
    BY <1>1 DEF Owner
  <1>3. HandlerIsSound(h)'
    BY <1>1, <1>2 DEF HandlerIsSound, OwnerHolds
  <1>4. QuietStep(h, NoHandler)
    BY <1>1, <1>2, <1>3 DEF QuietStep, SignupAnswer
  <1>5. HistoryStep
    BY <1>1 DEF HistoryStep, SignupAnswer, EnrolmentInv, TypeOK, HandlerIsSound
  <1> QED
    BY <1>1, <1>4, <1>5, QuietStepSound DEF SignupAnswer, EnrolmentInv, TypeOK

LEMMA WsFindStep ==
  ASSUME EnrolmentInv, NEW h \in Handlers, WsFind(h)
  PROVE  EnrolmentInv'
  <1> DEFINE After(a) == CASE a.result = "ok" -> Seen(h, a, "verify")
                           [] a.result = "query" -> At(h, "addMiner")
                           [] OTHER -> NoHandler
  <1>1. PICK a \in get_miner_by_pubkey_str(db, handler[h].miner) : Called(h, "ws", a, After(a))
    BY DEF WsFind, Call, Called
  <1>2. /\ a.db = db /\ a.result \in {"ok", "query", "connection"}
        /\ a.result = "ok" => a.row \in MinerRow
    <2>1. a \in QueryOne(db, {row \in ToSet(db.miners) : row.pubkey = handler[h].miner})
      BY DEF get_miner_by_pubkey_str
    <2>2. /\ a.db = db /\ a.result \in {"ok", "query", "connection"}
          /\ a.result = "ok" => {row \in ToSet(db.miners) : row.pubkey = handler[h].miner} = {a.row}
      BY <2>1, QueryAnswers
    <2>3. ASSUME a.result = "ok" PROVE a.row \in MinerRow
      <3>1. {row \in ToSet(db.miners) : row.pubkey = handler[h].miner} = {a.row}
        BY <2>2, <2>3
      <3>2. TypeOK /\ TablesAreSound(db)
        BY DEF EnrolmentInv
      <3> QED
        BY <3>1, <3>2, MinerIsFound
    <2> QED
      BY <2>2, <2>3
  <1>3. /\ handler[h] \in HandlerType /\ NoHandler \in HandlerType /\ NoHandler.pc = "idle"
        /\ At(h, "addMiner") \in HandlerType /\ At(h, "addMiner").pc = "addMiner"
    BY HandlersHaveType DEF EnrolmentInv, Pcs
  <1>4. a.result = "ok" =>
          /\ Seen(h, a, "verify") \in HandlerType
          /\ Seen(h, a, "verify").pc = "verify" /\ Seen(h, a, "verify").id \in Ids
    BY <1>2, <1>3 DEF Seen, HandlerType, Pcs, MinerRow, Ids
  <1>5. /\ After(a) \in HandlerType /\ After(a).pc \in {"verify", "addMiner", "idle"}
        /\ After(a).pc = "verify" => After(a).id \in Ids
    BY <1>2, <1>3, <1>4
  <1> HIDE DEF After
  <1>6. handler[h].pc = "ws" /\ handler'[h] = After(a) /\ UNCHANGED server
    BY <1>1, <1>2, HandlersHaveType DEF Called, EnrolmentInv
  <1>7. ~Owner(h) /\ ~Owner(h)'
    BY <1>5, <1>6 DEF Owner
  <1>8. HandlerIsSound(h)'
    BY <1>5, <1>6, <1>7 DEF HandlerIsSound, OwnerHolds, EnrolmentInv
  <1> QED
    BY <1>1, <1>2, <1>5, <1>7, <1>8, QueryStep

LEMMA WsVerifyStep ==
  ASSUME EnrolmentInv, NEW h \in Handlers, NEW verified \in BOOLEAN, WsVerify(h, verified)
  PROVE  EnrolmentInv'
  <1>1. /\ handler[h].pc = "verify" /\ handler'[h] = NoHandler
        /\ handler' = [handler EXCEPT ![h] = NoHandler]
        /\ NoHandler \in HandlerType /\ NoHandler.pc = "idle"
        /\ handler[h].miner \in Pubkeys
    BY HandlersHaveType DEF WsVerify, EnrolmentInv, HandlerType
  <1>2. ~Owner(h) /\ ~Owner(h)'
    BY <1>1 DEF Owner
  <1>3. HandlerIsSound(h)'
    BY <1>1, <1>2 DEF HandlerIsSound, OwnerHolds
  <1>4. QuietStep(h, NoHandler)
    BY <1>1, <1>2, <1>3 DEF QuietStep, WsVerify
  <1>5. handler[h].id \in Ids
    BY <1>1 DEF EnrolmentInv, HandlerIsSound
  <1>6. HistoryStep
    BY <1>1, <1>5 DEF HistoryStep, WsVerify, EnrolmentInv, TypeOK
  <1> QED
    BY <1>1, <1>4, <1>6, QuietStepSound DEF WsVerify, EnrolmentInv, TypeOK

LEMMA WsGetMinerStep ==
  ASSUME EnrolmentInv, NEW h \in Handlers, WsGetMiner(h)
  PROVE  EnrolmentInv'
  <1> DEFINE rows == {row \in ToSet(db.miners) : row.pubkey = handler[h].miner}
  <1>1. PICK a \in Unwrapped(QueryOne(db, rows)) : Called(h, "getMiner", a, Seen(h, a, "findPool"))
    BY DEF WsGetMiner, Call, Called, get_miner_by_pubkey_str
  <1>2. a.db = db /\ (a.result # "abort" => rows = {a.row})
    BY UnwrappedAnswers
  <1> DEFINE r == Seen(h, a, "findPool")
  <1>3. ASSUME a.result # "abort"
        PROVE  /\ r \in HandlerType /\ HandlerIsSound(h)'
               /\ Owner(h)' <=> Owner(h)
               /\ r.miner = handler[h].miner
    <2>1. /\ a.row \in MinerRow
          /\ \A i \in DOMAIN db.miners : db.miners[i].pubkey = handler[h].miner => a.row.id = i
      BY <1>2, <1>3, MinerIsFound DEF EnrolmentInv
    <2>2. handler[h] \in HandlerType
      BY HandlersHaveType DEF EnrolmentInv
    <2>3. /\ r \in HandlerType
          /\ r.pc = "findPool" /\ r.miner = handler[h].miner
          /\ r.id = a.row.id /\ r.id \in Ids /\ r.add_miner = handler[h].add_miner
      BY <2>1, <2>2 DEF Seen, HandlerType, Pcs, MinerRow, Ids
    <2> HIDE DEF r
    <2>4. handler[h].pc = "getMiner" /\ handler'[h] = r /\ UNCHANGED <<db, server>>
      BY <1>1, <1>2, <1>3, HandlersHaveType DEF Called, EnrolmentInv, r
    <2>5. Owner(h)' <=> Owner(h)
      BY <2>3, <2>4 DEF Owner
    <2>6. OwnerHolds(h)'
      <3> SUFFICES ASSUME Owner(h)
                   PROVE  OwnerHolds(h)'
        BY <2>5 DEF OwnerHolds
      <3>1. PICK i \in DOMAIN db.miners :
              db.miners[i].pubkey = handler[h].miner /\ ~HasReward(db, i)
        BY DEF EnrolmentInv, HandlerIsSound, OwnerHolds
      <3> QED
        BY <2>1, <2>3, <2>4, <3>1 DEF OwnerHolds
    <2>7. HandlerIsSound(h)'
      BY <2>3, <2>4, <2>6 DEF HandlerIsSound, EnrolmentInv
    <2> QED
      BY <2>3, <2>5, <2>7
  <1> QED
    BY <1>1, <1>2, <1>3, QueryStep

(* The pool is known while the server is up, and it is one row. *)
LEMMA PoolIsFound ==
  ASSUME EnrolmentInv, server = "up"
  PROVE  \E row \in ToSet(db.pools) : ToSet(db.pools) = {row}
  <1>1. db.pools \in Seq([id: {1}]) /\ db.pools # <<>>
    BY DEF EnrolmentInv, TypeOK, PoolIsKnown
  <1>2. 1 \in DOMAIN db.pools /\ \A i \in DOMAIN db.pools : db.pools[i] \in [id: {1}]
    <2>1. Len(db.pools) \in Nat /\ Len(db.pools) # 0 /\ DOMAIN db.pools = 1..Len(db.pools)
      BY <1>1, EmptySeq
    <2>2. 1 \in DOMAIN db.pools
      BY <2>1
    <2>3. \A i \in DOMAIN db.pools : db.pools[i] \in [id: {1}]
      BY <1>1, <2>1, ElementOfSeq
    <2> QED
      BY <2>2, <2>3
  <1>3. \A i \in DOMAIN db.pools : db.pools[i] = [id |-> 1]
    BY <1>2
  <1> QED
    BY <1>2, <1>3 DEF ToSet

(* Both queries of the pool, and what follows them. *)
LEMMA WithPoolIs ==
  ASSUME EnrolmentInv, NEW h \in Handlers, NEW result
  PROVE  /\ WithPool(h, result) \in HandlerType
         /\ WithPool(h, result).pc \in {"addReward", "idle"}
         /\ WithPool(h, result).pc = "addReward" =>
              /\ WithPool(h, result).miner = handler[h].miner
              /\ WithPool(h, result).id = handler[h].id
              /\ WithPool(h, result).add_miner = handler[h].add_miner
              /\ handler[h].add_miner = "ok" /\ result = "ok"
         /\ (handler[h].add_miner = "ok" /\ result = "ok") => WithPool(h, result).pc = "addReward"
  <1>1. /\ At(h, "addReward") \in HandlerType /\ NoHandler \in HandlerType
        /\ At(h, "addReward").pc = "addReward" /\ NoHandler.pc = "idle"
        /\ At(h, "addReward").miner = handler[h].miner /\ At(h, "addReward").id = handler[h].id
        /\ At(h, "addReward").add_miner = handler[h].add_miner
    BY HandlersHaveType DEF EnrolmentInv, Pcs
  <1>2. CASE AddedPool(h, result)
    BY <1>1, <1>2 DEF WithPool, AddedPool
  <1>3. CASE ~AddedPool(h, result)
    BY <1>1, <1>3 DEF WithPool, AddedPool
  <1> QED
    BY <1>2, <1>3

(* The step of a handler whose miner has its id: it keeps what it knows, or *)
(* gives up.                                                               *)
LEMMA PoolStep ==
  ASSUME EnrolmentInv, NEW h \in Handlers, NEW r,
         handler[h].pc \in {"findPool", "addPool", "getPool"},
         db'.miners = db.miners, db'.rewards = db.rewards,
         handler'[h] = r, UNCHANGED server,
         r.pc \in {"addPool", "getPool"} => faults' # 0,
         r.pc \in {"addPool", "getPool", "addReward", "idle"},
         r.pc # "idle" => /\ r.miner = handler[h].miner /\ r.id = handler[h].id
                          /\ r.add_miner = handler[h].add_miner,
         r.pc = "addReward" => r.add_miner = "ok"
  PROVE  /\ HandlerIsSound(h)'
         /\ Owner(h)' => (Owner(h) /\ r.miner = handler[h].miner)
         /\ (Owner(h) /\ r.pc # "idle") => (Owner(h)' /\ r.miner = handler[h].miner)
  <1>1. Owner(h)' => Owner(h) /\ r.pc # "idle"
    BY DEF Owner
  <1>2. (Owner(h) /\ r.pc # "idle") => Owner(h)'
    BY DEF Owner
  <1>3. OwnerHolds(h)'
    <2> SUFFICES ASSUME Owner(h), r.pc # "idle"
                 PROVE  OwnerHolds(h)'
      BY <1>1 DEF OwnerHolds
    <2>1. PICK i \in DOMAIN db.miners :
            /\ db.miners[i].pubkey = handler[h].miner /\ ~HasReward(db, i)
            /\ handler[h].pc # "getMiner" => handler[h].id = i
      BY DEF EnrolmentInv, HandlerIsSound, OwnerHolds
    <2> QED
      BY <2>1 DEF OwnerHolds, HasReward
  <1>4. handler[h].id \in Ids /\ server = "up"
    BY DEF EnrolmentInv, HandlerIsSound
  <1>5. r.pc = "addReward" => Owner(h)'
    BY DEF Owner
  <1>6. HandlerIsSound(h)'
    BY <1>3, <1>4, <1>5 DEF HandlerIsSound
  <1> QED
    BY <1>1, <1>2, <1>6

LEMMA WsFindPoolStep ==
  ASSUME EnrolmentInv, NEW h \in Handlers, WsFindPool(h)
  PROVE  EnrolmentInv'
  <1> DEFINE After(a) == CASE a.result = "ok" -> WithPool(h, "ok")
                           [] a.result = "query" -> At(h, "addPool")
                           [] OTHER -> NoHandler
  <1>1. PICK a \in QueryOne(db, ToSet(db.pools)) : Called(h, "findPool", a, After(a))
    BY DEF WsFindPool, Call, Called, get_pool_by_authority_pubkey
  <1>2. /\ a.db = db /\ a.result \in {"ok", "query", "connection"}
        /\ a.result = "ok" \/ a.fault # "none"
    <2>1. server = "up"
      BY <1>1 DEF Called, EnrolmentInv, HandlerIsSound
    <2>2. \E row \in ToSet(db.pools) : ToSet(db.pools) = {row}
      BY <2>1, PoolIsFound
    <2>3. "none" \notin FaultKinds
      BY DEF FaultKinds
    <2> QED
      BY <2>2, <2>3, QueryAnswers
  <1>3. a.result # "ok" => faults' # 0
    BY <1>1, <1>2, FaultsCounted DEF Called, EnrolmentInv
  <1>4. /\ handler[h] \in HandlerType /\ NoHandler \in HandlerType /\ NoHandler.pc = "idle"
        /\ At(h, "addPool") \in HandlerType /\ At(h, "addPool").pc = "addPool"
        /\ At(h, "addPool").miner = handler[h].miner /\ At(h, "addPool").id = handler[h].id
        /\ At(h, "addPool").add_miner = handler[h].add_miner
    BY HandlersHaveType DEF EnrolmentInv, Pcs
  <1> DEFINE r == After(a)
  <1>5. /\ r \in HandlerType /\ r.pc \in {"addPool", "addReward", "idle"}
        /\ r.pc # "idle" => /\ r.miner = handler[h].miner /\ r.id = handler[h].id
                            /\ r.add_miner = handler[h].add_miner
        /\ r.pc = "addReward" => r.add_miner = "ok"
        /\ r.pc = "addPool" => a.result # "ok"
        /\ r.pc = "idle" => (a.result # "ok" \/ handler[h].add_miner # "ok")
    BY <1>2, <1>4, WithPoolIs
  <1> HIDE DEF r, After
  <1>6. handler[h].pc = "findPool" /\ handler'[h] = r /\ UNCHANGED <<db, server>>
    BY <1>1, <1>2, HandlersHaveType DEF Called, EnrolmentInv, r
  <1>7. /\ HandlerIsSound(h)'
        /\ Owner(h)' => (Owner(h) /\ r.miner = handler[h].miner)
        /\ (Owner(h) /\ r.pc # "idle") => (Owner(h)' /\ r.miner = handler[h].miner)
    BY <1>3, <1>5, <1>6, PoolStep
  <1>8. (faults' = 0 /\ Owner(h)) => r.pc # "idle"
    BY <1>3, <1>5 DEF Owner
  <1> QED
    BY <1>1, <1>2, <1>5, <1>7, <1>8, QueryStep DEF r

LEMMA WsGetPoolStep ==
  ASSUME EnrolmentInv, NEW h \in Handlers, WsGetPool(h)
  PROVE  EnrolmentInv'
  <1> DEFINE r == WithPool(h, handler[h].add_pool)
  <1>1. PICK a \in Unwrapped(QueryOne(db, ToSet(db.pools))) : Called(h, "getPool", a, r)
    BY DEF WsGetPool, Call, Called, get_pool_by_authority_pubkey
  <1>2. a.db = db
    BY UnwrappedAnswers
  <1>3. faults' # 0
    BY <1>1, FaultsCounted DEF Called, EnrolmentInv, HandlerIsSound
  <1>4. ASSUME a.result # "abort"
        PROVE  /\ r \in HandlerType /\ HandlerIsSound(h)'
               /\ Owner(h)' => (Owner(h) /\ r.miner = handler[h].miner)
    <2>1. /\ r \in HandlerType /\ r.pc \in {"addReward", "idle"}
          /\ r.pc # "idle" => /\ r.miner = handler[h].miner /\ r.id = handler[h].id
                              /\ r.add_miner = handler[h].add_miner
          /\ r.pc = "addReward" => r.add_miner = "ok"
      BY WithPoolIs
    <2> HIDE DEF r
    <2>2. handler[h].pc = "getPool" /\ handler'[h] = r /\ UNCHANGED <<db, server>>
      BY <1>1, <1>2, <1>4, HandlersHaveType DEF Called, EnrolmentInv
    <2> QED
      BY <1>3, <2>1, <2>2, PoolStep
  <1> QED
    BY <1>1, <1>2, <1>3, <1>4, QueryStep

LEMMA WsAddPoolStep ==
  ASSUME EnrolmentInv, NEW h \in Handlers, WsAddPool(h)
  PROVE  EnrolmentInv'
  <1> DEFINE After(a) == [At(h, "getPool") EXCEPT !.add_pool = a.result]
  <1>1. PICK a \in add_new_pool(db) : Called(h, "addPool", a, After(a))
    BY DEF WsAddPool, Call, Called
  <1> DEFINE r == After(a)
  <1>2. a.db = db /\ a.result \in {"query", "connection"}
    <2>1. db.pools # <<>>
      BY <1>1 DEF Called, EnrolmentInv, HandlerIsSound, PoolIsKnown
    <2> QED
      BY <2>1, RefusedAnswers DEF add_new_pool
  <1>3. faults' # 0
    BY <1>1, FaultsCounted DEF Called, EnrolmentInv, HandlerIsSound
  <1>4. /\ At(h, "getPool") \in HandlerType /\ At(h, "getPool").pc = "getPool"
        /\ At(h, "getPool").miner = handler[h].miner /\ At(h, "getPool").id = handler[h].id
        /\ At(h, "getPool").add_miner = handler[h].add_miner
    BY HandlersHaveType DEF EnrolmentInv, Pcs
  <1>5. /\ r \in HandlerType /\ r.pc = "getPool" /\ r.miner = handler[h].miner
        /\ r.id = handler[h].id /\ r.add_miner = handler[h].add_miner
    BY <1>2, <1>4 DEF HandlerType, Results
  <1> HIDE DEF r
  <1>6. handler[h].pc = "addPool" /\ handler'[h] = r /\ UNCHANGED <<db, server>>
    BY <1>1, <1>2, HandlersHaveType DEF Called, EnrolmentInv, r
  <1>7. HandlerIsSound(h)' /\ (Owner(h)' => (Owner(h) /\ r.miner = handler[h].miner))
    BY <1>3, <1>5, <1>6, PoolStep
  <1> QED
    BY <1>1, <1>2, <1>3, <1>5, <1>7, QueryStep DEF r

LEMMA WsAddRewardStep ==
  ASSUME EnrolmentInv, NEW h \in Handlers, WsAddReward(h)
  PROVE  EnrolmentInv'
  <1> DEFINE After(a) == IF a.result = "ok" THEN At(h, "verify") ELSE NoHandler
             id == handler[h].id
  <1>1. PICK a \in Execute(db, WithReward(db, id), 1) : Called(h, "addReward", a, After(a))
    BY DEF WsAddReward, Call, Called, add_new_reward
  <1> DEFINE r == After(a)
  <1>2. handler[h].pc = "addReward" /\ Owner(h) /\ id \in Ids /\ server = "up"
    BY <1>1 DEF Called, EnrolmentInv, HandlerIsSound
  <1>3. id \in DOMAIN db.miners /\ db.miners[id].pubkey = handler[h].miner /\ ~HasReward(db, id)
    BY <1>2 DEF EnrolmentInv, HandlerIsSound, OwnerHolds
  <1>4. db \in DbType /\ TablesAreSound(db)
    BY DEF EnrolmentInv, TypeOK, DbType, MinerRow
  <1>5. /\ WithReward(db, id) \in DbType /\ TablesAreSound(WithReward(db, id))
        /\ WithReward(db, id).miners = db.miners /\ WithReward(db, id).pools = db.pools
        /\ \A i : HasReward(WithReward(db, id), i) <=> (HasReward(db, i) \/ i = id)
    BY <1>2, <1>3, <1>4, WithRewardType, WithRewardSound, WithRewardHas
  <1>6. /\ a.result \in {"ok", "query", "connection"}
        /\ a.db \in {db, WithReward(db, id)}
        /\ a.result = "ok" => a.db = WithReward(db, id)
        /\ a.result # "ok" => a.fault # "none"
    <2>1. "none" \notin FaultKinds
      BY DEF FaultKinds
    <2> QED
      BY <2>1, ExecuteAnswers
  <1> HIDE DEF id
  <1>7. /\ db' \in DbType /\ TablesAreSound(db')
        /\ db'.miners = db.miners /\ db'.pools = db.pools
        /\ \A i : HasReward(db, i) => HasReward(db', i)
        /\ \A i : HasReward(db', i) => (HasReward(db, i) \/ i = id)
        /\ a.result = "ok" => HasReward(db', id)
    BY <1>1, <1>4, <1>5, <1>6 DEF Called
  <1>8. Grown
    BY <1>7 DEF Grown
  <1>9. r \in HandlerType /\ r.pc \in {"verify", "idle"} /\ (r.pc = "verify" => r.id \in Ids)
    BY <1>2, HandlersHaveType DEF EnrolmentInv, Pcs, id
  <1> HIDE DEF r
  <1>10. /\ handler' = [handler EXCEPT ![h] = r] /\ handler'[h] = r
         /\ UNCHANGED <<server, aborted>>
    BY <1>1, <1>6, HandlersHaveType DEF Called, EnrolmentInv, r
  <1>11. ~Owner(h)'
    BY <1>9, <1>10 DEF Owner
  <1>12. HandlerIsSound(h)'
    BY <1>2, <1>9, <1>10, <1>11 DEF HandlerIsSound, OwnerHolds
  <1>13. faults' = 0 => a.result = "ok"
    BY <1>1, <1>6, FaultsCounted DEF Called, EnrolmentInv
  <1>14. \A i \in DOMAIN db.miners : db.miners[i].pubkey = handler[h].miner => i = id
    BY <1>3 DEF EnrolmentInv, TablesAreSound
  <1>15. HandlerStep(h, r)
    BY <1>2, <1>3, <1>7, <1>8, <1>10, <1>11, <1>12, <1>13, <1>14 DEF HandlerStep
  <1> QED
    BY <1>1, <1>8, <1>9, <1>15, CallStep DEF r

LEMMA WsAddMinerStep ==
  ASSUME EnrolmentInv, NEW h \in Handlers, WsAddMiner(h)
  PROVE  EnrolmentInv'
  <1> DEFINE After(a) == [At(h, "getMiner") EXCEPT !.add_miner = a.result]
             m == handler[h].miner
             e == WithMiner(db, m)
             n == Len(db.miners)
  <1>1. PICK a \in add_new_miner(db, m) : Called(h, "addMiner", a, After(a))
    BY DEF WsAddMiner, Call, Called
  <1> DEFINE r == After(a)
  <1>2. handler[h].pc = "addMiner" /\ server = "up" /\ m \in Pubkeys /\ ~Owner(h)
    BY <1>1, HandlersHaveType DEF Called, EnrolmentInv, HandlerIsSound, HandlerType, Owner
  <1>3. db \in DbType /\ TablesAreSound(db)
    BY DEF EnrolmentInv, TypeOK, DbType, MinerRow
  <1>4. /\ e \in DbType /\ e.rewards = db.rewards /\ e.pools = db.pools
        /\ n \in Nat /\ DOMAIN db.miners = 1..n /\ DOMAIN e.miners = 1..(n + 1)
        /\ \A i \in 1..n : e.miners[i] = db.miners[i]
        /\ e.miners[n + 1].pubkey = m
    <2>1. /\ e \in DbType /\ e.rewards = db.rewards /\ e.pools = db.pools
          /\ n \in Nat /\ DOMAIN db.miners = 1..n /\ DOMAIN e.miners = 1..(n + 1)
          /\ \A i \in 1..n : e.miners[i] = db.miners[i]
          /\ e.miners[n + 1] = [id |-> n + 1, pubkey |-> m, enabled |-> TRUE]
      BY <1>2, <1>3, WithMinerType
    <2> HIDE DEF e, n, m
    <2> QED
      BY <2>1
  <1>5. ~HasMiner(db, m) => (TablesAreSound(e) /\ ~HasReward(e, n + 1))
    BY <1>2, <1>3, WithMinerSound
  <1>6. /\ a.result \in {"ok", "query", "connection"}
        /\ a.db = db \/ (a.db = e /\ ~HasMiner(db, m))
        /\ a.result = "ok" => (a.db = e /\ ~HasMiner(db, m))
        /\ a.db = e => (a.result = "ok" \/ a.fault # "none" \/ a.db = db)
    <2>1. "none" \notin FaultKinds
      BY DEF FaultKinds
    <2>2. CASE HasMiner(db, m)
      BY <2>2, RefusedAnswers DEF add_new_miner
    <2>3. CASE ~HasMiner(db, m)
      BY <2>1, <2>3, ExecuteAnswers DEF add_new_miner
    <2> QED
      BY <2>2, <2>3
  <1>7. /\ At(h, "getMiner") \in HandlerType /\ At(h, "getMiner").pc = "getMiner"
        /\ At(h, "getMiner").miner = m
    BY HandlersHaveType DEF EnrolmentInv, Pcs
  <1>8. /\ r \in HandlerType /\ r.pc = "getMiner" /\ r.miner = m /\ r.add_miner = a.result
    BY <1>6, <1>7 DEF HandlerType, Results
  <1> HIDE DEF r, e, n, m
  <1>9. /\ handler' = [handler EXCEPT ![h] = r] /\ handler'[h] = r /\ db' = a.db
        /\ UNCHANGED <<server, aborted>>
    BY <1>1, <1>6, HandlersHaveType DEF Called, EnrolmentInv, r
  <1>10. CASE a.db = db
    <2>1. ~Owner(h)' /\ db' = db
      <3>1. db # e \/ a.result # "ok"
        BY <1>4, <1>6, <1>10
      <3> QED
        BY <1>6, <1>8, <1>9, <1>10, <3>1 DEF Owner
    <2>2. HandlerIsSound(h)'
      BY <1>2, <1>8, <1>9, <2>1 DEF HandlerIsSound, OwnerHolds
    <2> QED
      BY <1>1, <1>2, <1>8, <1>10, <2>1, <2>2, QueryStep DEF r
  <1>11. CASE a.db = e /\ a.db # db
    <2>1. ~HasMiner(db, m) /\ TablesAreSound(e) /\ ~HasReward(e, n + 1) /\ db' = e
      BY <1>5, <1>6, <1>9, <1>11
    <2>2. \A i : HasReward(db', i) <=> HasReward(db, i)
      BY <1>4, <2>1 DEF HasReward
    <2>3. /\ \A i \in DOMAIN db.miners : i \in DOMAIN db'.miners /\ db'.miners[i] = db.miners[i]
          /\ \A i \in DOMAIN db'.miners : i \in DOMAIN db.miners \/ i = n + 1
          /\ n + 1 \in DOMAIN db'.miners /\ db'.miners[n + 1].pubkey = m
      BY <1>4, <2>1
    <2>4. Grown
      BY <1>4, <2>1, <2>2, <2>3 DEF Grown
    <2>5. OwnerHolds(h)'
      BY <1>8, <1>9, <2>1, <2>3 DEF OwnerHolds
    <2>6. HandlerIsSound(h)'
      BY <1>2, <1>8, <1>9, <2>5 DEF HandlerIsSound
    <2>7. faults' = 0 => Owner(h)'
      <3>1. faults' = 0 => a.result = "ok"
        BY <1>1, <1>6, <1>11, FaultsCounted DEF Called, EnrolmentInv
      <3> QED
        BY <1>8, <1>9, <3>1 DEF Owner
    <2>8. HandlerStep(h, r)
      BY <1>2, <1>8, <1>9, <2>1, <2>2, <2>3, <2>4, <2>6, <2>7 DEF HandlerStep
    <2> QED
      BY <1>1, <1>8, <2>4, <2>8, CallStep DEF r
  <1> QED
    BY <1>6, <1>10, <1>11

(* What the enrolment of a miner, by a request or by start-up, leaves behind. *)
LEMMA EnrolStep ==
  ASSUME EnrolmentInv, NEW m \in Pubkeys, NEW a \in signup_enrollment(db, m), db' = a.db
  PROVE  /\ Grown
         /\ a.result \in {"ok", "query", "connection", "abort"}
         /\ a.result # "abort" => (a.result = "ok" \/ a.db = db)
         /\ a.result = "ok" => HasBalance(m)'
         /\ \A i \in DOMAIN db.miners : HasReward(db', i) => HasReward(db, i)
         /\ \A i \in DOMAIN db'.miners : i \in DOMAIN db.miners \/ HasReward(db', i)
  <1> DEFINE e == Enrolled(db, m)
             n == Len(db.miners)
  <1>1. db \in DbType /\ TablesAreSound(db)
    BY DEF EnrolmentInv, TypeOK, DbType, MinerRow
  <1>2. /\ n \in Nat /\ DOMAIN db.miners = 1..n
        /\ DOMAIN WithMiner(db, m).miners = 1..(n + 1)
        /\ \A i \in 1..n : WithMiner(db, m).miners[i] = db.miners[i]
        /\ WithMiner(db, m).miners[n + 1] = [id |-> n + 1, pubkey |-> m, enabled |-> TRUE]
    BY <1>1, WithMinerType
  <1>3. ~HasMiner(db, m) =>
          /\ e \in DbType /\ TablesAreSound(e) /\ e.pools = db.pools
          /\ e.miners = WithMiner(db, m).miners
          /\ \A i : HasReward(e, i) <=> (HasReward(db, i) \/ i = n + 1)
    BY <1>1, EnrolledSound
  <1>4. /\ a.result \in {"ok", "query", "connection", "abort"}
        /\ a.db = db \/ (a.db = e /\ ~HasMiner(db, m))
        /\ a.result = "ok" => (a.db = e /\ ~HasMiner(db, m))
        /\ a.result # "abort" => (a.result = "ok" \/ a.db = db)
    BY EnrolAnswers
  <1> HIDE DEF e, n
  <1>5. CASE a.db = db /\ a.result # "ok"
    BY <1>1, <1>4, <1>5, DatabaseIsKept DEF EnrolmentInv
  <1>6. CASE a.db = e /\ ~HasMiner(db, m)
    <2>1. /\ \A i \in DOMAIN db.miners : i \in DOMAIN db'.miners /\ db'.miners[i] = db.miners[i]
          /\ \A i \in DOMAIN db'.miners : i \in DOMAIN db.miners \/ i = n + 1
          /\ n + 1 \in DOMAIN db'.miners
          /\ db'.miners[n + 1] = [id |-> n + 1, pubkey |-> m, enabled |-> TRUE]
          /\ n + 1 \notin DOMAIN db.miners
      BY <1>2, <1>3, <1>6
    <2>2. \A i : HasReward(db', i) <=> (HasReward(db, i) \/ i = n + 1)
      BY <1>3, <1>6
    <2>3. Grown
      BY <1>3, <1>6, <2>1, <2>2 DEF Grown
    <2>4. HasBalance(m)'
      <3>1. db'.miners[n + 1].id = n + 1 /\ db'.miners[n + 1].pubkey = m
        BY <2>1
      <3> QED
        BY <2>1, <2>2, <3>1 DEF HasBalance, Balances, HasReward
    <2> QED
      BY <1>4, <2>1, <2>2, <2>3, <2>4
  <1> QED
    BY <1>4, <1>5, <1>6

LEMMA SignupEnrolStep ==
  ASSUME EnrolmentInv, NEW h \in Handlers, SignupEnrol(h)
  PROVE  EnrolmentInv'
  <1> DEFINE After(a) == [At(h, "signupAnswer") EXCEPT !.add_miner = a.result]
  <1>1. PICK a \in signup_enrollment(db, handler[h].miner) : Called(h, "enrol", a, After(a))
    BY DEF SignupEnrol, Call, Called
  <1> DEFINE r == After(a)
  <1>2. PICK m \in Pubkeys : m = handler[h].miner
    BY HandlersHaveType DEF EnrolmentInv, HandlerType
  <1>3. /\ Grown
        /\ a.result \in {"ok", "query", "connection", "abort"}
        /\ a.result = "ok" => HasBalance(m)'
        /\ \A i \in DOMAIN db.miners : HasReward(db', i) => HasReward(db, i)
        /\ \A i \in DOMAIN db'.miners : i \in DOMAIN db.miners \/ HasReward(db', i)
    BY <1>1, <1>2, EnrolStep DEF Called
  <1>4. handler[h].pc = "enrol" /\ ~Owner(h) /\ server = "up"
    BY <1>1 DEF Called, Owner, EnrolmentInv, HandlerIsSound
  <1>5. ASSUME a.result # "abort"
        PROVE  r \in HandlerType /\ HandlerStep(h, r)
    <2>1. /\ At(h, "signupAnswer") \in HandlerType
          /\ At(h, "signupAnswer").pc = "signupAnswer" /\ At(h, "signupAnswer").miner = m
      BY <1>2, HandlersHaveType DEF EnrolmentInv, Pcs
    <2>2. /\ r \in HandlerType /\ r.pc = "signupAnswer" /\ r.miner = m /\ r.add_miner = a.result
      BY <1>3, <2>1 DEF HandlerType, Results
    <2> HIDE DEF r
    <2>3. /\ handler' = [handler EXCEPT ![h] = r] /\ handler'[h] = r
          /\ UNCHANGED <<server, aborted>>
      BY <1>1, <1>5, HandlersHaveType DEF Called, EnrolmentInv, r
    <2>4. ~Owner(h)'
      BY <2>2, <2>3 DEF Owner
    <2>5. handler'[h].add_miner = "ok" => HasBalance(handler[h].miner)'
      BY <1>3, <2>2, <2>3 DEF HasBalance, Balances
    <2>6. HandlerIsSound(h)'
      BY <1>4, <2>2, <2>3, <2>4, <2>5 DEF HandlerIsSound, OwnerHolds
    <2>7. HandlerStep(h, r)
      BY <1>3, <1>4, <2>3, <2>4, <2>6 DEF HandlerStep
    <2> QED
      BY <2>2, <2>7
  <1> QED
    BY <1>1, <1>3, <1>5, CallStep

-----------------------------------------------------------------------------
(* Start-up, a crash, and the theorems.                                    *)

(* No request is handled before the server is up. *)
LEMMA StartupStep ==
  ASSUME EnrolmentInv, server # "up", Grown, faults' \in 0..MaxFaults, faults' = 0 => faults = 0,
         server' \in {"down", "pool", "addPool", "receiver", "enrol", "again", "config", "up"},
         PoolIsKnown',
         \A i \in DOMAIN db'.miners : i \in DOMAIN db.miners \/ HasReward(db', i),
         UNCHANGED <<handler, received, aborted, history>>
  PROVE  EnrolmentInv'
  <1>1. TypeOK'
    BY DEF EnrolmentInv, TypeOK, Grown, DbType, MinerRow, history
  <1>2. \A h \in Handlers : handler[h].pc = "idle" /\ ~Owner(h) /\ ~Owner(h)'
    BY DEF EnrolmentInv, HandlerIsSound, Owner
  <1>3. \A h \in Handlers : HandlerIsSound(h)'
    BY <1>2 DEF HandlerIsSound, OwnerHolds
  <1>4. OwnersDiffer'
    BY <1>2 DEF OwnersDiffer
  <1>5. SuccessCanBePaid'
    BY BalanceIsKept DEF EnrolmentInv, SuccessCanBePaid, history
  <1>6. MinersAreServed'
    BY <1>2 DEF EnrolmentInv, MinersAreServed, Owned, Grown
  <1> QED
    BY <1>1, <1>3, <1>4, <1>5, <1>6 DEF EnrolmentInv, Grown

LEMMA StartStep ==
  ASSUME EnrolmentInv, StartNext
  PROVE  EnrolmentInv'
  <1>1. db \in DbType /\ TablesAreSound(db) /\ faults \in 0..MaxFaults
    BY DEF EnrolmentInv, TypeOK, DbType, MinerRow
  <1>2. CASE Start
    <2>1. Grown
      BY <1>2, DatabaseIsKept DEF Start, EnrolmentInv
    <2> QED
      BY <1>1, <1>2, <2>1, StartupStep DEF Start, PoolIsKnown
  <1> DEFINE Queried == \/ server = "pool" /\ server' \in {"down", "addPool"}
                        \/ server = "pool" /\ server' = "receiver" /\ db.pools # <<>>
                        \/ server = "receiver" /\ server' \in {"config", "enrol"}
                        \/ server = "again" /\ server' \in {"config", "down"}
                        \/ server = "config" /\ server' \in {"up", "down"}
             Kept == /\ db' = db /\ Queried /\ (faults' \in 0..MaxFaults) /\ (faults' = 0 => faults = 0)
                     /\ UNCHANGED <<handler, received, aborted, history>>
  <1>3. ASSUME Kept
        PROVE  EnrolmentInv'
    <2>1. Grown
      BY <1>3, DatabaseIsKept DEF EnrolmentInv
    <2>2. PoolIsKnown' /\ server # "up"
      BY <1>3 DEF EnrolmentInv, PoolIsKnown
    <2> QED
      BY <1>1, <1>3, <2>1, <2>2, StartupStep
  <1>4. CASE StartFindPool
    <2>1. PICK a \in QueryOne(db, ToSet(db.pools)) :
            /\ server = "pool" /\ Counted(a.fault) /\ db' = a.db
            /\ server' = IF a.result = "connection" THEN "down" ELSE Or(a.result, "receiver", "addPool")
            /\ UNCHANGED <<handler, received, aborted, history>>
      BY <1>4 DEF StartFindPool, Startup, get_pool_by_authority_pubkey
    <2>2. a.db = db /\ (a.result = "ok" => ToSet(db.pools) = {a.row})
      BY QueryAnswers
    <2>3. a.result = "ok" => db.pools # <<>>
      <3>1. \A s : s = <<>> => DOMAIN s = {}
        OBVIOUS
      <3> QED
        BY <2>2, <3>1 DEF ToSet
    <2>4. Queried
      BY <2>1, <2>3 DEF Or
    <2> QED
      BY <1>3, <2>1, <2>2, <2>4, FaultsCounted DEF EnrolmentInv
  <1>5. CASE StartFindReceiver
    <2>1. PICK a \in get_miner_by_pubkey_str(db, Receiver) :
            /\ server = "receiver" /\ Counted(a.fault) /\ db' = a.db
            /\ server' = Or(a.result, "config", "enrol")
            /\ UNCHANGED <<handler, received, aborted, history>>
      BY <1>5 DEF StartFindReceiver, Startup
    <2>2. a.db = db
      BY QueryAnswers DEF get_miner_by_pubkey_str
    <2> QED
      BY <1>3, <2>1, <2>2, FaultsCounted DEF EnrolmentInv, Or
  <1>6. CASE StartFindAgain
    <2>1. PICK a \in get_miner_by_pubkey_str(db, Receiver) :
            /\ server = "again" /\ Counted(a.fault) /\ db' = a.db
            /\ server' = Or(a.result, "config", "down")
            /\ UNCHANGED <<handler, received, aborted, history>>
      BY <1>6 DEF StartFindAgain, Startup
    <2>2. a.db = db
      BY QueryAnswers DEF get_miner_by_pubkey_str
    <2> QED
      BY <1>3, <2>1, <2>2, FaultsCounted DEF EnrolmentInv, Or
  <1>7. CASE StartConfig
    <2>1. PICK a \in QueryOne(db, ToSet(db.pools)) :
            /\ server = "config" /\ Counted(a.fault) /\ db' = a.db
            /\ server' = Or(a.result, "up", "down")
            /\ UNCHANGED <<handler, received, aborted, history>>
      BY <1>7 DEF StartConfig, Startup, get_pool_by_authority_pubkey
    <2>2. a.db = db
      BY QueryAnswers
    <2> QED
      BY <1>3, <2>1, <2>2, FaultsCounted DEF EnrolmentInv, Or
  <1>8. CASE StartEnrol
    <2>1. PICK a \in signup_enrollment(db, Receiver) :
            /\ server = "enrol" /\ Counted(a.fault) /\ db' = a.db
            /\ server' = Or(a.result, "again", "down")
            /\ UNCHANGED <<handler, received, aborted, history>>
      BY <1>8 DEF StartEnrol, Startup
    <2>2. Grown /\ \A i \in DOMAIN db'.miners : i \in DOMAIN db.miners \/ HasReward(db', i)
      BY <2>1, PubkeysAssumption, EnrolStep
    <2>3. server' \in {"again", "down"}
      BY <2>1 DEF Or
    <2>4. PoolIsKnown'
      BY <2>1, <2>2 DEF EnrolmentInv, PoolIsKnown, Grown
    <2> QED
      BY <2>1, <2>2, <2>3, <2>4, FaultsCounted, StartupStep DEF EnrolmentInv
  <1>9. CASE StartAddPool
    <2>1. PICK a \in add_new_pool(db) :
            /\ server = "addPool" /\ Counted(a.fault) /\ db' = a.db
            /\ server' = Or(a.result, "receiver", "down")
            /\ UNCHANGED <<handler, received, aborted, history>>
      BY <1>9 DEF StartAddPool, Startup
    <2> DEFINE e == [db EXCEPT !.pools = Append(@, [id |-> 1])]
    <2>2. /\ a.db \in {db, e}
          /\ a.result = "ok" => a.db = e
      BY RefusedAnswers, ExecuteAnswers DEF add_new_pool
    <2>3. e \in DbType /\ e.miners = db.miners /\ e.rewards = db.rewards /\ e.pools # <<>>
      <3>1. db.pools \in Seq([id: {1}]) /\ [id |-> 1] \in [id: {1}]
        BY <1>1 DEF DbType
      <3>2. Append(db.pools, [id |-> 1]) \in Seq([id: {1}]) /\ Append(db.pools, [id |-> 1]) # <<>>
        BY <3>1, AppendProperties
      <3> QED
        BY <1>1, <3>2 DEF DbType
    <2> HIDE DEF e
    <2>4. Grown /\ db'.miners = db.miners /\ (a.result = "ok" => db'.pools # <<>>)
      BY <1>1, <2>1, <2>2, <2>3 DEF Grown, TablesAreSound, HasReward
    <2>5. PoolIsKnown' /\ server' \in {"receiver", "down"}
      BY <2>1, <2>4 DEF PoolIsKnown, Or
    <2> QED
      BY <2>1, <2>4, <2>5, FaultsCounted, StartupStep DEF EnrolmentInv
  <1> QED
    BY <1>2, <1>4, <1>5, <1>6, <1>7, <1>8, <1>9 DEF StartNext

LEMMA CrashStep ==
  ASSUME EnrolmentInv, Crash
  PROVE  EnrolmentInv'
  <1>1. Grown
    BY DatabaseIsKept DEF EnrolmentInv, Crash
  <1>2. faults' \in 0..MaxFaults /\ faults' # 0 /\ aborted' \in BOOLEAN
    BY FaultsCounted DEF EnrolmentInv, TypeOK, Crash
  <1> QED
    BY <1>1, <1>2, DeathStep DEF Crash

LEMMA EnrolmentInit == Init => EnrolmentInv
  <1> SUFFICES ASSUME Init
               PROVE  EnrolmentInv
    OBVIOUS
  <1> DEFINE known == SetToSeq(Disabled)
             n == Cardinality(Disabled)
  <1>1. n \in Nat /\ \E f : f \in [1..n -> Disabled] /\ IsInjective(f)
    <2>1. PICK k \in Nat : ExistsBijection(1..k, Disabled)
      BY PubkeysAssumption, FS_NatBijection
    <2>2. k = n
      BY <2>1, FS_CountingElements
    <2> QED
      BY <2>1, <2>2 DEF ExistsBijection, Bijection, Injection, IsInjective
  <1>2. known \in [1..n -> Disabled] /\ IsInjective(known)
    BY <1>1 DEF SetToSeq
  <1> HIDE DEF known, n
  <1>3. /\ DOMAIN known = 1..n /\ \A i \in 1..n : known[i] \in Pubkeys
        /\ \A i, j \in 1..n : known[i] = known[j] => i = j
    BY <1>2, PubkeysAssumption DEF IsInjective
  <1> DEFINE miners == [i \in 1..n |-> [id |-> i, pubkey |-> known[i], enabled |-> FALSE]]
             rewards == [i \in 1..n |-> [miner |-> i, balance |-> 0]]
  <1>4. db = [miners |-> miners, pools |-> <<>>, rewards |-> rewards]
    BY <1>3 DEF Init, known
  <1>5. miners \in Seq(MinerRow) /\ rewards \in Seq([miner: Ids, balance: Nat])
    BY <1>1, <1>3 DEF MinerRow, Ids
  <1>6. /\ DOMAIN miners = 1..n /\ \A i \in 1..n : miners[i].id = i /\ miners[i].pubkey = known[i]
        /\ DOMAIN rewards = 1..n /\ \A i \in 1..n : rewards[i].miner = i
    OBVIOUS
  <1> HIDE DEF miners, rewards
  <1>7. NoHandler \in HandlerType /\ NoHandler.pc = "idle"
    BY PubkeysAssumption DEF NoHandler, HandlerType, Pcs, Results
  <1>8. TypeOK
    <2>1. db \in DbType
      BY <1>4, <1>5 DEF DbType
    <2>2. handler \in [Handlers -> HandlerType]
      BY <1>7 DEF Init
    <2>3. received \in 0..MaxRequests /\ faults \in 0..MaxFaults
      BY BoundsAssumption DEF Init
    <2> QED
      BY <2>1, <2>2, <2>3 DEF Init, TypeOK, DbType, MinerRow, HandlerType, Pcs
  <1>9. TablesAreSound(db)
    BY <1>3, <1>4, <1>6 DEF TablesAreSound
  <1>10. \A h \in Handlers : handler[h].pc = "idle" /\ ~Owner(h) /\ HandlerIsSound(h)
    BY <1>7 DEF Init, HandlerIsSound, OwnerHolds, Owner
  <1>11. MinersAreServed
    BY <1>4, <1>6 DEF MinersAreServed, HasReward
  <1> QED
    BY <1>8, <1>9, <1>10, <1>11 DEF EnrolmentInv, OwnersDiffer, PoolIsKnown, SuccessCanBePaid, Init

LEMMA EnrolmentNext == EnrolmentInv /\ [Next]_vars => EnrolmentInv'
  <1> SUFFICES ASSUME EnrolmentInv, [Next]_vars
               PROVE  EnrolmentInv'
    OBVIOUS
  <1>1. CASE \E h \in Handlers, m \in Pubkeys, first \in {"signup", "ws"} : Receive(h, m, first)
    BY <1>1, ReceiveStep
  <1>2. CASE \E h \in Handlers : HandlerNext(h)
    BY <1>2, SignupFindStep, SignupEnrolStep, SignupAnswerStep, WsFindStep, WsAddMinerStep,
       WsGetMinerStep, WsFindPoolStep, WsAddPoolStep, WsGetPoolStep, WsAddRewardStep, WsVerifyStep
       DEF HandlerNext
  <1>3. CASE StartNext
    BY <1>3, StartStep
  <1>4. CASE Crash
    BY <1>4, CrashStep
  <1>5. CASE UNCHANGED vars
    <2>1. TypeOK' /\ TablesAreSound(db)' /\ PoolIsKnown'
      BY <1>5 DEF vars, history, EnrolmentInv, TypeOK, TablesAreSound, PoolIsKnown
    <2>2. \A h \in Handlers : Owner(h)' <=> Owner(h)
      BY <1>5 DEF vars, Owner
    <2>3. \A h \in Handlers : HandlerIsSound(h)'
      BY <1>5, <2>2 DEF vars, EnrolmentInv, HandlerIsSound, OwnerHolds, HasReward, HasBalance, Balances
    <2>4. OwnersDiffer' /\ MinersAreServed'
      BY <1>5, <2>2 DEF vars, EnrolmentInv, OwnersDiffer, MinersAreServed, Owned, HasReward
    <2>5. SuccessCanBePaid'
      BY <1>5 DEF vars, history, EnrolmentInv, SuccessCanBePaid, HasBalance, Balances
    <2> QED
      BY <2>1, <2>3, <2>4, <2>5 DEF EnrolmentInv
  <1> QED
    BY <1>1, <1>2, <1>3, <1>4, <1>5 DEF Next

LEMMA EnrolmentInvariant == Spec => []EnrolmentInv
  BY EnrolmentInit, EnrolmentNext, PTL DEF Spec

(* The variables of Enrolment have their types. *)
THEOREM TypeCorrect == Spec => []TypeOK
  <1>1. EnrolmentInv => TypeOK
    BY DEF EnrolmentInv
  <1> QED
    BY <1>1, EnrolmentInvariant, PTL

(* Whatever handlers, faults and restarts do at the same time, no miner has *)
(* a second balance.                                                        *)
THEOREM OneBalanceCorrect == Spec => []AtMostOneBalance
  <1>1. EnrolmentInv => AtMostOneBalance
    <2> SUFFICES ASSUME EnrolmentInv, NEW k \in DOMAIN db.rewards
                 PROVE  Cardinality(Balances(db.rewards[k].miner)) = 1
      BY DEF AtMostOneBalance
    <2>1. Balances(db.rewards[k].miner) = {k}
      BY DEF EnrolmentInv, TablesAreSound, Balances
    <2> QED
      BY <2>1, FS_Singleton
  <1> QED
    BY <1>1, EnrolmentInvariant, PTL

(* A miner whose sign-up was answered with SUCCESS has a balance from then on. *)
THEOREM SuccessCorrect == Spec => []SuccessCanBePaid
  <1>1. EnrolmentInv => SuccessCanBePaid
    BY DEF EnrolmentInv
  <1> QED
    BY <1>1, EnrolmentInvariant, PTL

(* Only a fault or an abort leaves a miner without a balance behind. *)
THEOREM EnrolledCorrect == Spec => []EnrolledCompletely
  <1>1. EnrolmentInv => EnrolledCompletely
    BY DEF EnrolmentInv, EnrolledCompletely, MinersAreServed, Owned, Owner, TablesAreSound,
       Balances, HasReward
  <1> QED
    BY <1>1, EnrolmentInvariant, PTL
=============================================================================
