----------------------------- MODULE Enrolment ------------------------------
(***************************************************************************)
(* How a miner gets its record and its balance: post_signup in one         *)
(* transaction, ws_handler in separate statements, and start-up, which     *)
(* adds the pool and enrols the receiver of the commissions. Handlers run  *)
(* concurrently and are cut at every call of the database.                 *)
(*                                                                         *)
(* What a handler answers is in its history only where a property needs    *)
(* it; requests refused before the database is asked (a bad key, an old    *)
(* timestamp) are left out. A definition whose name ends in Bug is a       *)
(* faulty variant of the one that follows it, for mutation testing.        *)
(***************************************************************************)
EXTENDS Database

CONSTANTS
  Pubkeys,     \* keys of miners
  Receiver,    \* commission_pubkey
  Disabled,    \* miners whose record the operator has disabled
  Handlers,    \* concurrent requests
  MaxRequests, \* bound: requests received
  MaxFaults    \* bound: faults

ASSUME PubkeysAssumption ==
  Receiver \in Pubkeys /\ Disabled \subseteq Pubkeys \ {Receiver} /\ IsFiniteSet(Disabled)
ASSUME BoundsAssumption == MaxRequests \in Nat /\ MaxFaults \in Nat

VARIABLES
  db,        \* the tables miners, pools, rewards
  server,    \* where start-up is, or "up"
  handler,   \* the requests being handled
  received,  \* requests so far
  faults,    \* faults so far
  aborted,   \* history: whether the process aborted without a fault
  signedUp,  \* history: the miners post_signup answered SUCCESS
  connected  \* history: what handle_socket was called with

history == <<signedUp, connected>>
vars == <<db, server, handler, received, faults, aborted, history>>

NoHandler == [pc |-> "idle", miner |-> Receiver, id |-> 0, enabled |-> FALSE,
              add_miner |-> "ok", add_pool |-> "ok"]

Counted(fault) ==
  IF fault = "none" THEN UNCHANGED faults
  ELSE faults < MaxFaults /\ faults' = faults + 1

(* The process dies, and with it every handler. *)
Die ==
  /\ server' = "down"
  /\ handler' = [h \in Handlers |-> NoHandler]

-----------------------------------------------------------------------------
(* Handlers. A call: After is the handler's state once it has the answer.  *)

Call(h, pc, answers, After(_)) ==
  /\ handler[h].pc = pc
  /\ \E a \in answers :
       /\ Counted(a.fault)
       /\ db' = a.db
       /\ IF a.result = "abort"
          THEN Die /\ aborted' = (aborted \/ a.fault = "none")
          ELSE /\ handler' = [handler EXCEPT ![h] = After(a)]
               /\ UNCHANGED <<server, aborted>>
  /\ UNCHANGED received

(* .unwrap() of what a call returns. *)
Unwrapped(answers) ==
  {IF a.result = "ok" THEN a ELSE [a EXCEPT !.result = "abort"] : a \in answers}

At(h, pc) == [handler[h] EXCEPT !.pc = pc]

Receive(h, m, first) ==
  /\ server = "up" /\ handler[h].pc = "idle"
  /\ received < MaxRequests
  /\ received' = received + 1
  /\ handler' = [handler EXCEPT ![h] = [NoHandler EXCEPT !.pc = first, !.miner = m]]
  /\ UNCHANGED <<db, server, faults, aborted, history>>

(* post_signup. "EXISTS" for an enabled miner; a miner that is disabled, or *)
(* that the query failed to find, is signed up.                            *)
SignupFind(h) ==
  /\ Call(h, "signup", get_miner_by_pubkey_str(db, handler[h].miner),
          LAMBDA a: IF a.result = "connection" \/ (a.result = "ok" /\ a.row.enabled)
                    THEN NoHandler ELSE At(h, "enrol"))
  /\ UNCHANGED history

SignupEnrol(h) ==
  /\ Call(h, "enrol", signup_enrollment(db, handler[h].miner),
          LAMBDA a: [At(h, "signupAnswer") EXCEPT !.add_miner = a.result])
  /\ UNCHANGED history

SignupAnswer(h) ==
  /\ handler[h].pc = "signupAnswer"
  /\ signedUp' = IF handler[h].add_miner = "ok" THEN signedUp \cup {handler[h].miner}
                 ELSE signedUp
  /\ handler' = [handler EXCEPT ![h] = NoHandler]
  /\ UNCHANGED <<db, server, received, faults, aborted, connected>>

(* The record's id is not kept. *)
SeenIdBug(h, a, pc) == [handler[h] EXCEPT !.pc = pc, !.enabled = a.row.enabled]

Seen(h, a, pc) ==
  [handler[h] EXCEPT !.pc = pc, !.id = a.row.id, !.enabled = a.row.enabled]

(* ws_handler. *)
WsFind(h) ==
  /\ Call(h, "ws", get_miner_by_pubkey_str(db, handler[h].miner),
          LAMBDA a: CASE a.result = "ok" -> Seen(h, a, "verify")
                      [] a.result = "query" -> At(h, "addMiner")
                      [] OTHER -> NoHandler)
  /\ UNCHANGED history

(* Its result is looked at only when the pool is known too. *)
WsAddMiner(h) ==
  /\ Call(h, "addMiner", add_new_miner(db, handler[h].miner),
          LAMBDA a: [At(h, "getMiner") EXCEPT !.add_miner = a.result])
  /\ UNCHANGED history

WsGetMiner(h) ==
  /\ Call(h, "getMiner", Unwrapped(get_miner_by_pubkey_str(db, handler[h].miner)),
          LAMBDA a: Seen(h, a, "findPool"))
  /\ UNCHANGED history

(* add_miner_result is not looked at. *)
AddedPoolBug(h, result) == result = "ok"

(* add_miner_result.is_ok() && add_pool_result.is_ok() *)
AddedPool(h, result) == handler[h].add_miner = "ok" /\ result = "ok"

(* The balance is not added. *)
WithPoolBug(h, result) == IF AddedPool(h, result) THEN At(h, "verify") ELSE NoHandler

WithPool(h, result) == IF AddedPool(h, result) THEN At(h, "addReward") ELSE NoHandler

WsFindPool(h) ==
  /\ Call(h, "findPool", get_pool_by_authority_pubkey(db),
          LAMBDA a: CASE a.result = "ok" -> WithPool(h, "ok")
                      [] a.result = "query" -> At(h, "addPool")
                      [] OTHER -> NoHandler)
  /\ UNCHANGED history

WsAddPool(h) ==
  /\ Call(h, "addPool", add_new_pool(db),
          LAMBDA a: [At(h, "getPool") EXCEPT !.add_pool = a.result])
  /\ UNCHANGED history

WsGetPool(h) ==
  /\ Call(h, "getPool", Unwrapped(get_pool_by_authority_pubkey(db)),
          LAMBDA a: WithPool(h, handler[h].add_pool))
  /\ UNCHANGED history

WsAddReward(h) ==
  /\ Call(h, "addReward", add_new_reward(db, handler[h].id),
          LAMBDA a: IF a.result = "ok" THEN At(h, "verify") ELSE NoHandler)
  /\ UNCHANGED history

(* The signature is verified last, after the miner has been enrolled. *)
WsVerify(h, verified) ==
  /\ handler[h].pc = "verify"
  /\ connected' = IF handler[h].enabled /\ verified
                  THEN connected \cup {[pubkey |-> handler[h].miner, id |-> handler[h].id]}
                  ELSE connected
  /\ handler' = [handler EXCEPT ![h] = NoHandler]
  /\ UNCHANGED <<db, server, received, faults, aborted, signedUp>>

HandlerNext(h) ==
  \/ SignupFind(h) \/ SignupEnrol(h) \/ SignupAnswer(h)
  \/ WsFind(h) \/ WsAddMiner(h) \/ WsGetMiner(h)
  \/ WsFindPool(h) \/ WsAddPool(h) \/ WsGetPool(h)
  \/ WsAddReward(h) \/ \E verified \in BOOLEAN : WsVerify(h, verified)

-----------------------------------------------------------------------------
(* Start-up: "down" -> "pool" -> "receiver" -> "config" -> "up". Its errors  *)
(* panic, and the server is started again.                                  *)

Startup(pc, answers, After(_)) ==
  /\ server = pc
  /\ \E a \in answers :
       /\ Counted(a.fault)
       /\ db' = a.db
       /\ server' = After(a.result)
  /\ UNCHANGED <<handler, received, aborted, history>>

Or(result, next, otherwise) == IF result = "ok" THEN next ELSE otherwise

Start ==
  /\ server = "down"
  /\ server' = "pool"
  /\ UNCHANGED <<db, handler, received, faults, aborted, history>>

StartFindPoolBug ==
  Startup("pool", get_pool_by_authority_pubkey(db), LAMBDA result: Or(result, "receiver", "down"))

StartFindPool ==
  Startup("pool", get_pool_by_authority_pubkey(db),
          LAMBDA result: IF result = "connection" THEN "down" ELSE Or(result, "receiver", "addPool"))

StartAddPool ==
  Startup("addPool", add_new_pool(db), LAMBDA result: Or(result, "receiver", "down"))

(* Any error is taken for a missing record. *)
StartFindReceiver ==
  Startup("receiver", get_miner_by_pubkey_str(db, Receiver),
          LAMBDA result: Or(result, "config", "enrol"))

StartEnrol ==
  Startup("enrol", signup_enrollment(db, Receiver), LAMBDA result: Or(result, "again", "down"))

StartFindAgain ==
  Startup("again", get_miner_by_pubkey_str(db, Receiver),
          LAMBDA result: Or(result, "config", "down"))

StartConfig ==
  Startup("config", get_pool_by_authority_pubkey(db), LAMBDA result: Or(result, "up", "down"))

StartNext ==
  \/ Start \/ StartFindPool \/ StartAddPool
  \/ StartFindReceiver \/ StartEnrol \/ StartFindAgain \/ StartConfig

Crash ==
  /\ "crash" \in Faults /\ Counted("crash")
  /\ server = "up"
  /\ Die
  /\ UNCHANGED <<db, received, aborted, history>>

-----------------------------------------------------------------------------
Init ==
  /\ LET known == SetToSeq(Disabled)
     IN  db = [miners |-> [i \in DOMAIN known |->
                            [id |-> i, pubkey |-> known[i], enabled |-> FALSE]],
               pools |-> <<>>,
               rewards |-> [i \in DOMAIN known |-> [miner |-> i, balance |-> 0]]]
  /\ server = "down"
  /\ handler = [h \in Handlers |-> NoHandler]
  /\ received = 0 /\ faults = 0 /\ aborted = FALSE
  /\ signedUp = {} /\ connected = {}

Next ==
  \/ \E h \in Handlers, m \in Pubkeys, first \in {"signup", "ws"} : Receive(h, m, first)
  \/ \E h \in Handlers : HandlerNext(h)
  \/ StartNext
  \/ Crash

Spec == Init /\ [][Next]_vars

(* The server is started again, its handlers run, and faults come to an end. *)
FairSpec ==
  /\ Spec
  /\ WF_vars(StartNext)
  /\ \A h \in Handlers : WF_vars(HandlerNext(h))

-----------------------------------------------------------------------------
(* Properties                                                               *)

Ids == Nat \ {0}

(* The variables have their types. *)
TypeOK ==
  /\ db \in [miners: Seq([id: Ids, pubkey: Pubkeys, enabled: BOOLEAN]),
             pools: Seq([id: {1}]),
             rewards: Seq([miner: Ids, balance: Nat])]
  /\ server \in {"down", "pool", "addPool", "receiver", "enrol", "again", "config", "up"}
  /\ handler \in [Handlers ->
       [pc: {"idle", "signup", "enrol", "signupAnswer", "ws", "addMiner", "getMiner", "findPool",
             "addPool", "getPool", "addReward", "verify"},
        miner: Pubkeys, id: Nat, enabled: BOOLEAN, add_miner: Results, add_pool: Results]]
  /\ received \in 0..MaxRequests /\ faults \in 0..MaxFaults /\ aborted \in BOOLEAN
  /\ signedUp \subseteq Pubkeys
  /\ connected \subseteq [pubkey: Pubkeys, id: Ids]

Balances(id) == {i \in DOMAIN db.rewards : db.rewards[i].miner = id}

(* No miner ever has two balances: rewards has no unique index, every credit *)
(* is added to each row of a miner, and get_miner_rewards fails on two.      *)
(* However handlers, faults and restarts meet, only the handler that added   *)
(* the miner adds its balance.                                               *)
AtMostOneBalance ==
  \A id \in {db.rewards[i].miner : i \in DOMAIN db.rewards} : Cardinality(Balances(id)) = 1

HasBalance(m) ==
  \E i \in DOMAIN db.miners : db.miners[i].pubkey = m /\ Balances(db.miners[i].id) # {}

(* SUCCESS of post_signup means that the miner can be paid. *)
SuccessCanBePaid == \A m \in signedUp : HasBalance(m)

(* Unless a fault or an abort interrupts one, requests leave no miner behind *)
(* that has a record and no balance, whatever they do at the same time.      *)
EnrolledCompletely ==
  faults = 0 /\ ~aborted /\ (\A h \in Handlers : handler[h].pc = "idle")
    => \A i \in DOMAIN db.miners : Balances(db.miners[i].id) # {}

(* The server comes up again after any fault, whatever state of enrolment it *)
(* left in the database.                                                     *)
StartsAgain == []<>(server = "up")
=============================================================================
