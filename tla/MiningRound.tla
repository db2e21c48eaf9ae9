----------------------------- MODULE MiningRound -----------------------------
(***************************************************************************)
(* One hashpoo pool mining on the ORE program: the tasks that main.rs      *)
(* spawns around the shared round state, each cut at the awaits where      *)
(* another task can change what it has read.                               *)
(*                                                                         *)
(*   ready_clients_processor         hands out missions          (dist)    *)
(*   client_contributions_processor  records solutions           (contrib) *)
(*   pool_submission_processor       submits the best, and the attender    *)
(*                                   it spawns settles the round (sub)     *)
(*   proof_tracking_processor        copies proof notifications            *)
(*   the miners and the chain        as the code uses them                 *)
(*                                                                         *)
(* A challenge is the number of solutions the chain had accepted when it   *)
(* was issued, a nonce range is its index in units of NONCE_RANGE_SIZE,    *)
(* and a solution is valid for exactly the challenge it was mined for.     *)
(* A task's locals that are out of scope have the values of NoDist,        *)
(* NoContrib, NoSub and NoJob. A definition whose name ends in Bug is a    *)
(* faulty variant of the one that follows it, for mutation testing.        *)
(***************************************************************************)
EXTENDS Integers, Sequences, FiniteSets

CONSTANTS
  Clients,       \* socket addresses, each used by one connection
  Pubkeys,       \* miners' wallets
  Wallet,        \* Wallet[c]: the wallet that client c authenticated with
  Diffs,         \* difficulties a miner may find
  MinDifficulty, \* the pool's min_difficulty argument
  SubmitLimit,   \* SUBMIT_LIMIT
  CheckLimit,    \* CHECK_LIMIT
  WaitLimit,     \* the checkpoints granted to late contributions
  Reward,        \* what one accepted solution adds to the proof's balance
  None,          \* Option::None
  Faults,        \* which of FaultKinds may happen
  MaxLandings,   \* bound: solutions the chain accepts
  MaxClaims,     \* bound: claim transactions that lower the balance
  MaxReadies,    \* bound: Ready messages of all miners
  MaxQueue       \* bound: solutions under way to the contributions processor

(* A call to the RPC that is not answered, a transaction whose sender gets an *)
(* error, a notification that is not delivered, a miner that leaves, and a     *)
(* notification or an await of the submission loop that outlasts what is timed *)
(* in tens of seconds: the rest of a round, mining a solution.                 *)
FaultKinds == {"rpc", "confirmation", "notification", "disconnect", "delay"}

ASSUME WalletAssumption == Wallet \in [Clients -> Pubkeys]
ASSUME DifficultyAssumption == Diffs \subseteq Nat /\ MinDifficulty \in Nat \ {0}
ASSUME LimitsAssumption ==
  SubmitLimit \in Nat \ {0} /\ CheckLimit \in Nat \ {0} /\ WaitLimit \in Nat
ASSUME RewardAssumption == Reward \in Nat \ {0}
ASSUME BoundsAssumption ==
  MaxLandings \in Nat /\ MaxClaims \in Nat /\ MaxReadies \in Nat /\ MaxQueue \in Nat
ASSUME FaultsAssumption == Faults \subseteq FaultKinds

Proof == [ch: Nat, bal: Nat]
Solution == [c: Clients, ch: Nat, range: Nat, diff: Diffs]

ASSUME NoneAssumption == None \notin Solution /\ None \notin Nat

VARIABLES
  \* The chain: accepted transactions, the pool's balance, the running
  \* challenge's nearness to its cutoff, transactions under way, how many were
  \* sent so far, claims so far.
  landed, balance, age, inflight, sent, claims,
  \* State shared by the server's tasks.
  appProof, readyClients, sockets, appNonce, nonceRanges, bestHash, contributions,
  paused,
  \* What is under way: proof notifications, missions whose spawned sender has
  \* not finished, solutions, settled rounds for pool_mine_success_processor.
  notifications, missions, solutions, mineSuccess,
  \* The miners: connection state, mission and best difficulty sent for it,
  \* and how many times a miner became ready.
  client, job, readies,
  \* Where each task is, and its locals.
  dist, contrib, sub

chainVars == <<landed, balance, age, inflight, sent, claims>>
epochVars == <<bestHash, contributions>>
sharedVars == <<appProof, readyClients, sockets, appNonce, nonceRanges, epochVars, paused>>
wireVars == <<notifications, missions, solutions, mineSuccess>>
clientVars == <<client, job, readies>>
taskVars == <<dist, contrib, sub>>
vars == <<chainVars, sharedVars, wireVars, clientVars, taskVars>>

NoProof == [ch |-> 0, bal |-> 0]
NoJob == [ch |-> 0, range |-> 0, best |-> 0]
NoContributions == [p \in Pubkeys |-> None]
NoDist == [pc |-> "idle", todo |-> {}, proof |-> NoProof, ch |-> 0, sockets |-> {},
           granted |-> {}]
NoContrib == [pc |-> "receive", sol |-> None]
NoSub == [pc |-> "start", old |-> NoProof, best |-> None, frozen |-> NoContributions,
          attempt |-> 0, checking |-> 0, waiting |-> 0, fetched |-> NoProof]

-----------------------------------------------------------------------------
(* The chain, as the code uses it.                                         *)

Challenge == Len(landed)
ChainProof == [ch |-> Challenge, bal |-> balance]

(* get_cutoff: 0 = 10 seconds or more are left, 1 = less than 10, 2 = none. *)
(* A proof the chain has moved past was issued more than a minute ago.      *)
Cutoff(proof) == IF proof.ch = Challenge THEN age ELSE 2

Delayed == "delay" \in Faults
OnTime == notifications = <<>> /\ sub.pc \notin {"collect", "freeze"}

(* At least fifty seconds of a round pass before its cutoff. *)
Tick ==
  /\ age < 2
  /\ age = 1 => OnTime \/ Delayed
  /\ age' = age + 1
  /\ UNCHANGED <<landed, balance, inflight, sent, claims, sharedVars, wireVars, clientVars,
                 taskVars>>

(* The chain accepts a mine transaction, whatever its sender hears of it. *)
Land(tx) ==
  /\ tx \in inflight
  /\ tx.sol.ch = Challenge
  /\ age = 2
  /\ Challenge < MaxLandings
  /\ landed' = Append(landed, tx)
  /\ balance' = balance + Reward
  /\ age' = 0
  /\ inflight' = {}
  /\ notifications' = Append(notifications,
                              [ch |-> Challenge + 1, bal |-> balance + Reward])
  /\ UNCHANGED <<sent, claims, sharedVars, missions, solutions, mineSuccess, clientVars,
                 taskVars>>

(* A claim of claim_processor is confirmed: same challenge, less balance. *)
ClaimLands ==
  /\ claims < MaxClaims
  /\ balance > 0
  /\ claims' = claims + 1
  /\ balance' = balance - 1
  /\ notifications' = Append(notifications, [ch |-> Challenge, bal |-> balance - 1])
  /\ UNCHANGED <<landed, age, inflight, sent, sharedVars, missions, solutions, mineSuccess,
                 clientVars, taskVars>>

-----------------------------------------------------------------------------
(* proof_tracking_processor. last_challenge is never assigned, so the test *)
(* against it rejects no notification.                                     *)

TrackProof ==
  /\ notifications # <<>>
  /\ appProof' = Head(notifications)
  /\ notifications' = Tail(notifications)
  /\ UNCHANGED <<chainVars, readyClients, sockets, appNonce, nonceRanges, epochVars,
                 paused, missions, solutions, mineSuccess, clientVars, taskVars>>

(* The subscription is being re-established when the account changes. *)
MissNotification ==
  /\ "notification" \in Faults
  /\ notifications # <<>>
  /\ notifications' = Tail(notifications)
  /\ UNCHANGED <<chainVars, sharedVars, missions, solutions, mineSuccess, clientVars,
                 taskVars>>

-----------------------------------------------------------------------------
(* Miners and their connections.                                           *)

Connect(c) ==
  /\ client[c] = "new"
  /\ client' = [client EXCEPT ![c] = "connected"]
  /\ sockets' = sockets \cup {c}
  /\ UNCHANGED <<chainVars, appProof, readyClients, appNonce, nonceRanges, epochVars,
                 paused, wireVars, job, readies, taskVars>>

(* The connection's reader task ends; it removes the socket and nothing else. *)
Disconnect(c) ==
  /\ "disconnect" \in Faults
  /\ client[c] \in {"connected", "waiting", "mining"}
  /\ client' = [client EXCEPT ![c] = "gone"]
  /\ job' = [job EXCEPT ![c] = NoJob]
  /\ sockets' = sockets \ {c}
  /\ UNCHANGED <<chainVars, appProof, readyClients, appNonce, nonceRanges, epochVars,
                 paused, wireVars, readies, taskVars>>

(* The miner sends Ready on connecting and after each mission, and *)
(* client_message_processor puts it in ready_clients. Mining takes longer than *)
(* the mission's spawned task needs to record the range, and the distribution  *)
(* to remove the client from ready_clients.                                    *)
Ready(c) ==
  /\ client[c] \in {"connected", "mining"}
  /\ Delayed \/ (c \notin dist.granted /\ \A m \in missions : m.c # c)
  /\ readies < MaxReadies
  /\ readies' = readies + 1
  /\ client' = [client EXCEPT ![c] = "waiting"]
  /\ job' = [job EXCEPT ![c] = NoJob]
  /\ readyClients' = readyClients \cup {c}
  /\ UNCHANGED <<chainVars, appProof, sockets, appNonce, nonceRanges, epochVars,
                 paused, wireVars, taskVars>>

(* The challenge of c's mission came after proof was read. *)
IssuedSince(proof, c) == appProof.ch # proof.ch /\ job[c].ch > proof.ch

(* The miner sends a solution that beats the last one it sent, and              *)
(* client_message_processor forwards it. Mining a challenge takes longer than   *)
(* the one call between reading a proof and what the submission loop does next. *)
SubmitSolution(c, diff) ==
  /\ client[c] = "mining"
  /\ sub.pc = "collect" /\ IssuedSince(sub.old, c) => Delayed
  /\ sub.pc = "refresh" /\ IssuedSince(sub.fetched, c) => Delayed
  /\ diff > job[c].best
  /\ Len(solutions) < MaxQueue
  /\ job' = [job EXCEPT ![c].best = diff]
  /\ solutions' = Append(solutions, [c |-> c, ch |-> job[c].ch,
                                     range |-> job[c].range, diff |-> diff])
  /\ UNCHANGED <<chainVars, sharedVars, notifications, missions, mineSuccess, client,
                 readies, taskVars>>

-----------------------------------------------------------------------------
(* ready_clients_processor.                                                *)

DistSnapshot ==
  /\ dist.pc = "idle"
  /\ ~paused
  /\ readyClients # {}
  /\ dist' = [dist EXCEPT !.pc = "cutoff", !.todo = readyClients, !.proof = appProof]
  /\ UNCHANGED <<chainVars, sharedVars, wireVars, clientVars, contrib, sub>>

DistCutoffBug ==
  /\ dist.pc = "cutoff"
  /\ dist' = IF Cutoff(dist.proof) > 0 THEN NoDist
               ELSE [dist EXCEPT !.pc = "challenge", !.proof = NoProof]
  /\ UNCHANGED <<chainVars, sharedVars, wireVars, clientVars, contrib, sub>>

(* With less than ten seconds left there is no new mission, unless the *)
(* round has no solution yet.                                          *)
DistCutoff ==
  /\ dist.pc = "cutoff"
  /\ dist' = IF Cutoff(dist.proof) > 0 /\ bestHash # None
               THEN NoDist
               ELSE [dist EXCEPT !.pc = "challenge", !.proof = NoProof]
  /\ UNCHANGED <<chainVars, sharedVars, wireVars, clientVars, contrib, sub>>

DistChallenge ==
  /\ dist.pc = "challenge"
  /\ dist' = [dist EXCEPT !.pc = "grant", !.ch = appProof.ch, !.sockets = sockets]
  /\ UNCHANGED <<chainVars, sharedVars, wireVars, clientVars, contrib, sub>>

NewMissionBug(c) == [c |-> c, ch |-> dist.ch, range |-> appNonce - 1, sent |-> FALSE]
NewMission(c) == [c |-> c, ch |-> dist.ch, range |-> appNonce, sent |-> FALSE]

(* Every client of the snapshot takes a range; only one that still has a *)
(* socket gets the mission.                                              *)
DistGrant(c) ==
  /\ dist.pc = "grant"
  /\ c \in dist.todo
  /\ appNonce' = appNonce + 1
  /\ missions' = IF c \in dist.sockets THEN missions \cup {NewMission(c)} ELSE missions
  /\ dist' = [dist EXCEPT !.pc = "remove", !.todo = @ \ {c}, !.granted = {c}]
  /\ UNCHANGED <<chainVars, appProof, readyClients, sockets, nonceRanges, epochVars, paused,
                 notifications, solutions, mineSuccess, clientVars, contrib, sub>>

(* It leaves ready_clients, also when it has become ready again by now. *)
DistRemove ==
  /\ dist.pc = "remove"
  /\ readyClients' = readyClients \ dist.granted
  /\ dist' = IF dist.todo = {} THEN NoDist ELSE [dist EXCEPT !.pc = "grant", !.granted = {}]
  /\ UNCHANGED <<chainVars, appProof, sockets, appNonce, nonceRanges, epochVars, paused,
                 wireVars, clientVars, contrib, sub>>

(* The task spawned for a mission: first the message, on which a miner that *)
(* is still there starts, then the range its solutions are checked against. *)
SendMission(m) ==
  /\ m \in missions
  /\ ~m.sent
  /\ missions' = (missions \ {m}) \cup {[m EXCEPT !.sent = TRUE]}
  /\ IF client[m.c] = "waiting"
       THEN /\ client' = [client EXCEPT ![m.c] = "mining"]
            /\ job' = [job EXCEPT ![m.c] = [ch |-> m.ch, range |-> m.range, best |-> 0]]
       ELSE UNCHANGED <<client, job>>
  /\ UNCHANGED <<chainVars, sharedVars, notifications, solutions, mineSuccess, readies,
                 taskVars>>

RecordRange(m) ==
  /\ m \in missions
  /\ m.sent
  /\ missions' = missions \ {m}
  /\ nonceRanges' = [nonceRanges EXCEPT ![Wallet[m.c]] = m.range]
  /\ UNCHANGED <<chainVars, appProof, readyClients, sockets, appNonce, epochVars, paused,
                 notifications, solutions, mineSuccess, clientVars, taskVars>>

-----------------------------------------------------------------------------
(* client_contributions_processor.                                         *)

(* A wallet without a range makes the task return, and nothing is recorded  *)
(* ever after. A solution that is too easy, outside its wallet's range, from *)
(* a closed socket or for another challenge is dropped. The three reads are  *)
(* one step: nothing reads one of them to change another in between.         *)
ContribValidate ==
  /\ contrib.pc = "receive"
  /\ solutions # <<>>
  /\ solutions' = Tail(solutions)
  /\ LET sol == Head(solutions)
         assigned == nonceRanges[Wallet[sol.c]]
     IN contrib' = IF sol.diff < MinDifficulty THEN NoContrib
                   ELSE IF assigned = None THEN [pc |-> "returned", sol |-> None]
                   ELSE IF /\ assigned = sol.range
                           /\ sol.c \in sockets
                           /\ sol.ch = appProof.ch
                     THEN [pc |-> "record", sol |-> sol]
                   ELSE NoContrib
  /\ UNCHANGED <<chainVars, sharedVars, notifications, missions, mineSuccess, clientVars,
                 dist, sub>>

(* best_hash.difficulty and supplied_diff: 0 when there is none. *)
Difficulty(sol) == IF sol = None THEN 0 ELSE sol.diff

ContribRecordBug ==
  /\ contrib.pc = "record"
  /\ contrib' = NoContrib
  /\ contributions' = [contributions EXCEPT ![Wallet[contrib.sol.c]] = contrib.sol]
  /\ bestHash' = contrib.sol
  /\ UNCHANGED <<chainVars, appProof, readyClients, sockets, appNonce, nonceRanges,
                 paused, wireVars, clientVars, dist, sub>>

ContribRecord ==
  /\ contrib.pc = "record"
  /\ contrib' = NoContrib
  /\ LET sol == contrib.sol
         p == Wallet[sol.c]
     IN IF sol.diff > Difficulty(contributions[p])
          THEN /\ contributions' = [contributions EXCEPT ![p] = sol]
               /\ bestHash' = IF sol.diff > Difficulty(bestHash) THEN sol ELSE bestHash
          ELSE UNCHANGED epochVars
  /\ UNCHANGED <<chainVars, appProof, readyClients, sockets, appNonce, nonceRanges,
                 paused, wireVars, clientVars, dist, sub>>

-----------------------------------------------------------------------------
(* pool_submission_processor.                                              *)

Contributors == {p \in Pubkeys : contributions[p] # None}

SubStart ==
  /\ sub.pc = "start"
  /\ Cutoff(appProof) = 2
  /\ sub' = [sub EXCEPT !.pc = "collect", !.old = appProof]
  /\ UNCHANGED <<chainVars, sharedVars, wireVars, clientVars, dist, contrib>>

(* Without a solution, or with contributions still missing while there are *)
(* checkpoints left, the loop starts over.                                 *)
SubCollect ==
  /\ sub.pc = "collect"
  /\ sub' = IF bestHash = None
              THEN [NoSub EXCEPT !.waiting = sub.waiting]
            ELSE IF Cardinality(Contributors) # Cardinality(sockets)
                    /\ sub.waiting < WaitLimit
              THEN [NoSub EXCEPT !.waiting = sub.waiting + 1]
            ELSE [sub EXCEPT !.pc = "freeze", !.waiting = 0, !.best = bestHash]
  /\ UNCHANGED <<chainVars, sharedVars, wireVars, clientVars, dist, contrib>>

SubFreezeBug ==
  /\ sub.pc = "freeze"
  /\ sub' = [sub EXCEPT !.pc = "attempt", !.frozen = contributions]
  /\ UNCHANGED <<chainVars, sharedVars, wireVars, clientVars, dist, contrib>>

SubFreeze ==
  /\ sub.pc = "freeze"
  /\ sub' = [sub EXCEPT !.pc = "attempt", !.frozen = contributions]
  /\ paused' = TRUE
  /\ UNCHANGED <<chainVars, appProof, readyClients, sockets, appNonce, nonceRanges,
                 epochVars, wireVars, clientVars, dist, contrib>>

(* A proof that was fetched is stored when the lock of app_proof is had. *)
Fetch(next) == sub' = [sub EXCEPT !.pc = next, !.fetched = ChainProof]
Store(next) ==
  /\ appProof' = sub.fetched
  /\ sub' = [sub EXCEPT !.pc = next, !.fetched = NoProof]

(* An attempt first compares the solution with the proof on chain, if the RPC *)
(* answers. A transaction that solves another challenge than the running one  *)
(* can only fail, and is not kept.                                            *)
SendTx ==
  /\ sub' = [sub EXCEPT !.pc = "confirm"]
  /\ sent' = sent + 1
  /\ inflight' = IF sub.best.ch = Challenge
                   THEN inflight \cup {[sol |-> sub.best, id |-> sent + 1]}
                   ELSE inflight

SubAttempt ==
  /\ sub.pc = "attempt"
  /\ \/ /\ sub.best.ch = Challenge \/ "rpc" \in Faults
        /\ SendTx
     \/ /\ sub.best.ch # Challenge
        /\ Fetch("sync")
        /\ UNCHANGED <<inflight, sent>>
  /\ UNCHANGED <<landed, balance, age, claims, sharedVars, wireVars, clientVars, dist,
                 contrib>>

SubSync ==
  /\ sub.pc = "sync"
  /\ Store("discard")
  /\ UNCHANGED <<chainVars, readyClients, sockets, appNonce, nonceRanges, epochVars,
                 paused, wireVars, clientVars, dist, contrib>>

TxLanded == landed # <<>> /\ landed[Len(landed)].id = sent

(* send_and_confirm answers Ok only for a landed transaction. *)
SubConfirmed ==
  /\ sub.pc = "confirm"
  /\ TxLanded
  /\ sub' = [sub EXCEPT !.pc = "attend"]
  /\ UNCHANGED <<chainVars, sharedVars, wireVars, clientVars, dist, contrib>>

SubRetryBug ==
  /\ "confirmation" \in Faults
  /\ sub.pc = "confirm"
  /\ sub' = IF sub.attempt + 1 < SubmitLimit
              THEN [sub EXCEPT !.pc = "attempt", !.attempt = @ + 1]
              ELSE [sub EXCEPT !.pc = "attend"]
  /\ UNCHANGED <<chainVars, sharedVars, wireVars, clientVars, dist, contrib>>

(* An error says nothing: the transaction may have landed, or may land later. *)
SubRetry ==
  /\ "confirmation" \in Faults
  /\ sub.pc = "confirm"
  /\ sub' = IF sub.attempt + 1 < SubmitLimit
              THEN [sub EXCEPT !.pc = "attempt", !.attempt = @ + 1]
              ELSE [sub EXCEPT !.pc = "discard"]
  /\ UNCHANGED <<chainVars, sharedVars, wireVars, clientVars, dist, contrib>>

SubHashInvalid ==
  /\ sub.pc = "confirm"
  /\ sub.best.ch # Challenge
  /\ ~TxLanded
  /\ sub' = [sub EXCEPT !.pc = "discard"]
  /\ UNCHANGED <<chainVars, sharedVars, wireVars, clientVars, dist, contrib>>

AttendCheckBug ==
  /\ sub.pc = "attend"
  /\ sub' = [sub EXCEPT !.pc = "settle"]
  /\ UNCHANGED <<chainVars, sharedVars, wireVars, clientVars, dist, contrib>>

(* The attender waits for a challenge other than the one the loop iteration *)
(* began with: from the notifications, or from the RPC, up to CheckLimit.   *)
(* Giving up, it leaves everything as it is.                                *)
AttendCheck ==
  /\ sub.pc = "attend"
  /\ \/ /\ appProof.ch # sub.old.ch
        /\ sub' = [sub EXCEPT !.pc = "settle"]
     \/ /\ appProof.ch = sub.old.ch
        /\ sub.checking + 1 >= CheckLimit
        /\ sub' = NoSub
     \/ /\ appProof.ch = sub.old.ch
        /\ sub.checking + 1 < CheckLimit
        /\ "rpc" \in Faults \/ Challenge = sub.old.ch
        /\ sub' = [sub EXCEPT !.checking = @ + 1]
     \/ /\ appProof.ch = sub.old.ch
        /\ sub.checking + 1 < CheckLimit
        /\ Challenge # sub.old.ch
        /\ Fetch("hear")
  /\ UNCHANGED <<chainVars, sharedVars, wireVars, clientVars, dist, contrib>>

AttendHear ==
  /\ sub.pc = "hear"
  /\ Store("settle")
  /\ UNCHANGED <<chainVars, readyClients, sockets, appNonce, nonceRanges, epochVars,
                 paused, wireVars, clientVars, dist, contrib>>

ResetEpochPausedBug ==
  /\ appNonce' = 0 /\ bestHash' = None /\ contributions' = NoContributions
  /\ UNCHANGED paused
  /\ sub' = NoSub

ResetEpochBestBug ==
  /\ appNonce' = 0 /\ contributions' = NoContributions /\ UNCHANGED bestHash
  /\ paused' = FALSE
  /\ sub' = NoSub

ResetEpoch ==
  /\ appNonce' = 0
  /\ bestHash' = None
  /\ contributions' = NoContributions
  /\ paused' = FALSE
  /\ sub' = NoSub

(* The rewards are the difference of two balances. The database writes that *)
(* come before the message touch no state of this module.                   *)
AttendSettle ==
  /\ sub.pc = "settle"
  /\ mineSuccess' = Append(mineSuccess,
       [ch |-> sub.old.ch, rewards |-> appProof.bal - sub.old.bal, best |-> sub.best,
        contributions |-> sub.frozen])
  /\ ResetEpoch
  /\ UNCHANGED <<chainVars, appProof, readyClients, sockets, nonceRanges, notifications,
                 missions, solutions, clientVars, dist, contrib>>

(* No attempt succeeded: the proof is refreshed if the RPC answers, and what *)
(* was collected is discarded. What is stored is what the chain had when it  *)
(* was asked: a solution may have landed, and been notified, since.          *)
SubDiscard ==
  /\ sub.pc = "discard"
  /\ Fetch("refresh")
  /\ UNCHANGED <<chainVars, sharedVars, wireVars, clientVars, dist, contrib>>

SubRefresh ==
  /\ \/ sub.pc = "refresh" /\ appProof' = sub.fetched
     \/ sub.pc = "discard" /\ "rpc" \in Faults /\ UNCHANGED appProof
  /\ ResetEpoch
  /\ UNCHANGED <<chainVars, readyClients, sockets, nonceRanges, wireVars, clientVars,
                 dist, contrib>>

-----------------------------------------------------------------------------
Init ==
  /\ landed = <<>> /\ balance = MaxClaims /\ age = 0
  /\ inflight = {} /\ sent = 0 /\ claims = 0
  /\ appProof = ChainProof
  /\ readyClients = {} /\ sockets = {} /\ appNonce = 0
  /\ nonceRanges = [p \in Pubkeys |-> None]
  /\ bestHash = None /\ contributions = NoContributions /\ paused = FALSE
  /\ notifications = <<>> /\ missions = {} /\ solutions = <<>> /\ mineSuccess = <<>>
  /\ client = [c \in Clients |-> "new"] /\ job = [c \in Clients |-> NoJob] /\ readies = 0
  /\ dist = NoDist /\ contrib = NoContrib /\ sub = NoSub

Chain == Tick \/ (\E tx \in inflight : Land(tx)) \/ ClaimLands
Tracking == TrackProof \/ MissNotification
Miners == \E c \in Clients : \/ Connect(c) \/ Disconnect(c) \/ Ready(c)
                             \/ \E diff \in Diffs : SubmitSolution(c, diff)
Distribution == \/ DistSnapshot \/ DistCutoff \/ DistChallenge \/ DistRemove
                \/ \E c \in Clients : DistGrant(c)
MissionTasks == \E m \in missions : SendMission(m) \/ RecordRange(m)
Contributing == ContribValidate \/ ContribRecord
AttendWait == AttendCheck \/ AttendHear
Submitting == \/ SubStart \/ SubCollect \/ SubFreeze \/ SubAttempt \/ SubSync
              \/ SubConfirmed \/ SubRetry \/ SubHashInvalid \/ SubDiscard \/ SubRefresh

Next == \/ Chain \/ Tracking \/ Miners \/ Distribution \/ MissionTasks \/ Contributing
        \/ AttendWait \/ AttendSettle \/ Submitting

Spec == Init /\ [][Next]_vars

(* Time passes, and the tasks of the server are never stuck for good: every  *)
(* await of theirs ends, with an answer or an error. Nothing is assumed of   *)
(* the attender once it has heard of the new challenge: it repeats its calls *)
(* of the database without a limit.                                          *)
FairSpec ==
  /\ Spec
  /\ WF_vars(Tick) /\ WF_vars(TrackProof)
  /\ WF_vars(Distribution) /\ WF_vars(MissionTasks) /\ WF_vars(Contributing)
  /\ WF_vars(Submitting) /\ WF_vars(AttendWait)

-----------------------------------------------------------------------------
(* Properties.                                                             *)

Solver(sol) == Wallet[sol.c]

DistPcs == {"idle", "cutoff", "challenge", "grant", "remove"}
ContribPcs == {"receive", "record", "returned"}
SubmittingPcs == {"attempt", "sync", "confirm", "attend", "hear", "settle", "discard",
                  "refresh"}
SubPcs == {"start", "collect", "freeze"} \cup SubmittingPcs
Option(S) == S \cup {None}
Contributions == [Pubkeys -> Option(Solution)]

Transaction == [sol: Solution, id: Nat]
Mission == [c: Clients, ch: Nat, range: Nat, sent: BOOLEAN]
MineSuccess == [ch: Nat, rewards: Int, best: Option(Solution), contributions: Contributions]
Job == [ch: Nat, range: Nat, best: Nat]

ChainOK ==
  /\ landed \in Seq(Transaction) /\ balance \in Nat /\ age \in 0..2
  /\ inflight \subseteq Transaction /\ sent \in Nat /\ claims \in Nat
SharedOK ==
  /\ appProof \in Proof /\ readyClients \subseteq Clients /\ sockets \subseteq Clients
  /\ appNonce \in Nat /\ nonceRanges \in [Pubkeys -> Option(Nat)]
  /\ bestHash \in Option(Solution) /\ contributions \in Contributions
  /\ paused \in BOOLEAN
WireOK ==
  /\ notifications \in Seq(Proof) /\ missions \subseteq Mission
  /\ solutions \in Seq(Solution) /\ mineSuccess \in Seq(MineSuccess)
MinersOK ==
  /\ client \in [Clients -> {"new", "connected", "waiting", "mining", "gone"}]
  /\ job \in [Clients -> Job] /\ readies \in Nat
DistType == [pc: DistPcs, todo: SUBSET Clients, proof: Proof, ch: Nat,
             sockets: SUBSET Clients, granted: SUBSET Clients]
DistOK == dist \in DistType
ContribType == [pc: ContribPcs, sol: Option(Solution)]
ContribOK == contrib \in ContribType
SubType == [pc: SubPcs, old: Proof, best: Option(Solution), frozen: Contributions,
            attempt: Nat, checking: Nat, waiting: Nat, fetched: Proof]
SubOK == sub \in SubType

(* Every variable holds a value that the type of what it models admits. *)
TypeOK == ChainOK /\ SharedOK /\ WireOK /\ MinersOK /\ DistOK /\ ContribOK /\ SubOK

(* best_hash, updated apart from the contributions it is the best of, is as hard *)
(* as what its miner contributed, and no contribution beats it; without a best   *)
(* hash nobody has contributed.                                                  *)
BestOf(best, subs) ==
  /\ best = None => subs = NoContributions
  /\ best # None => /\ subs[Solver(best)] # None
                    /\ subs[Solver(best)].diff = best.diff
                    /\ \A p \in Pubkeys : Difficulty(subs[p]) <= Difficulty(best)

BestHashIsBest == BestOf(bestHash, contributions)

(* From the snapshot to the reset the submitted solution's miner is among the *)
(* frozen contributors, with a contribution no easier than the solution: the   *)
(* total hashpower that the settlement divides by is not zero.                 *)
BestIsFrozen ==
  sub.pc \in SubmittingPcs =>
    /\ sub.best # None
    /\ sub.frozen[Solver(sub.best)] # None
    /\ sub.frozen[Solver(sub.best)].diff >= sub.best.diff

(* Missions are paused for as long as a solution is being submitted or settled. *)
(* When they are paused outside a submission, which is what an attender that    *)
(* gave up leaves behind, the solution is still there, so that the next         *)
(* submission finds it and resumes.                                             *)
PauseIsHeld ==
  /\ sub.pc \in SubmittingPcs => paused
  /\ paused => bestHash # None

(* A settled round is one the pool solved: the chain accepted the very solution *)
(* for that challenge, and each challenge is settled once.                      *)
SettledIsLanded ==
  /\ \A i \in 1..Len(mineSuccess) :
       LET msg == mineSuccess[i]
       IN msg.ch < Challenge /\ landed[msg.ch + 1].sol = msg.best
  /\ \A i, j \in 1..Len(mineSuccess) : i < j => mineSuccess[i].ch < mineSuccess[j].ch

(* What is distributed for a challenge is what the chain paid for it. *)
RewardsAreExact ==
  \A i \in 1..Len(mineSuccess) : mineSuccess[i].rewards = Reward

(* The task that records contributions ends only when every sender is gone. *)
ContributionsAreProcessed == contrib.pc # "returned"

(* The attender comes to the end of every settlement it begins. *)
SettlementsEnd == []<>(sub.pc # "settle")

(* Pausing ends: whatever else fails, missions are handed out again, unless the *)
(* attender never comes to the end of its work on the database.                 *)
MiningResumes == SettlementsEnd => (paused ~> ~paused)

(* A ready miner gets a mission, unless it leaves, on the same condition. *)
MinersAreServed ==
  SettlementsEnd => \A c \in Clients : client[c] = "waiting" ~> client[c] # "waiting"

-----------------------------------------------------------------------------
(* What RoundLife sees. *)
Accepted == [i \in 1..Len(landed) |-> landed[i].sol]
Offered == {tx.sol : tx \in inflight}
BeingSubmitted ==
  IF sub.pc \in SubmittingPcs THEN {[best |-> sub.best, contributions |-> sub.frozen]} ELSE {}

Life == INSTANCE RoundLife
          WITH Solutions <- Solution, Contributions <- Contributions,
               accepted <- Accepted, offered <- Offered, submission <- BeingSubmitted,
               settled <- mineSuccess

(* Tasks, retries, miners and chain together keep what RoundLife promises: of all *)
(* that is tried, what is settled is one submission as it was when it was begun,  *)
(* its solution the one the chain accepted and its rewards what the chain paid,   *)
(* whatever is contributed or lands meanwhile.                                    *)
ImplementsRoundLife == Life!Spec
=============================================================================
