-------------------------- MODULE MiningRoundProofs --------------------------
(***************************************************************************)
(* Proofs about MiningRound, for every number of clients and wallets, every *)
(* difficulty, every limit and bound and every choice of faults.           *)
(***************************************************************************)
EXTENDS MiningRound, SequenceTheorems, TLAPS

-----------------------------------------------------------------------------
(* Type correctness.                                                       *)

LEMMA TypeInit == Init => TypeOK
  <1> SUFFICES ASSUME Init PROVE TypeOK
    OBVIOUS
  <1>1. ChainProof \in Proof
    BY BoundsAssumption DEF Init, ChainProof, Challenge, Proof
  <1>2. NoContributions \in Contributions
    BY DEF NoContributions, Contributions, Option
  <1>3. ChainOK /\ WireOK
    <2>1. \A S : <<>> \in Seq(S)
      OBVIOUS
    <2> QED
      BY <2>1, BoundsAssumption DEF Init, ChainOK, WireOK
  <1>4. SharedOK
    BY <1>1, <1>2 DEF Init, SharedOK, Option
  <1>5. MinersOK
    BY DEF Init, MinersOK, NoJob, Job
  <1>6. DistOK /\ ContribOK /\ SubOK
    BY <1>2
       DEF Init, DistOK, ContribOK, SubOK, DistType, ContribType, SubType, NoDist,
           NoContrib, NoSub, NoProof, Proof, DistPcs, ContribPcs, SubPcs, Option
  <1> QED
    BY <1>3, <1>4, <1>5, <1>6 DEF TypeOK

(* The type of the transactions under way depends on the submission having a *)
(* solution, once it has collected one.                                      *)
BestChosen == sub.pc \in SubmittingPcs \cup {"freeze"} => sub.best # None

LEMMA TypeNext == TypeOK /\ BestChosen /\ [Next]_vars => TypeOK'
  <1> SUFFICES ASSUME TypeOK, BestChosen, [Next]_vars PROVE TypeOK'
    OBVIOUS
  <1> USE DEF TypeOK, chainVars, sharedVars, epochVars, wireVars, clientVars, taskVars
  <1>a. Challenge \in Nat /\ ChainProof \in Proof
    BY DEF ChainOK, ChainProof, Challenge, Proof
  <1>b. /\ NoContributions \in Contributions
        /\ None \in Option(Solution) /\ Solution \subseteq Option(Solution)
    BY DEF NoContributions, Contributions, Option
  <1>c. NoSub \in SubType /\ NoDist \in DistType /\ NoContrib \in ContribType
    BY <1>b
       DEF NoSub, NoDist, NoContrib, SubType, DistType, ContribType, NoProof, Proof,
           SubPcs, DistPcs, ContribPcs
  <1>1. CASE Tick
    <2>1. SharedOK' /\ WireOK' /\ MinersOK' /\ DistOK' /\ ContribOK' /\ SubOK'
      BY <1>1 DEF Tick, SharedOK, WireOK, MinersOK, DistOK, ContribOK, SubOK
    <2>2. ChainOK'
      BY <1>1 DEF Tick, ChainOK, Transaction
    <2> QED
      BY <2>1, <2>2
  <1>2. ASSUME NEW tx \in inflight, Land(tx) PROVE TypeOK'
    <2>1. SharedOK' /\ MinersOK' /\ DistOK' /\ ContribOK' /\ SubOK'
      BY <1>2 DEF Land, SharedOK, MinersOK, DistOK, ContribOK, SubOK
    <2>2. ChainOK'
      <3>1. tx \in Transaction
        BY DEF ChainOK
      <3>2. landed' \in Seq(Transaction)
        BY <3>1, <1>2 DEF Land, ChainOK
      <3>3. balance' \in Nat
        BY RewardAssumption, <1>2 DEF Land, ChainOK
      <3> QED
        BY <3>2, <3>3, <1>2 DEF Land, ChainOK
    <2>3. WireOK'
      <3>1. [ch |-> Challenge + 1, bal |-> balance + Reward] \in Proof
        BY <1>a, RewardAssumption DEF ChainOK, Proof
      <3> QED
        BY <3>1, <1>2 DEF Land, WireOK
    <2> QED
      BY <2>1, <2>2, <2>3
  <1>3. CASE ClaimLands
    <2>1. SharedOK' /\ MinersOK' /\ DistOK' /\ ContribOK' /\ SubOK'
      BY <1>3 DEF ClaimLands, SharedOK, MinersOK, DistOK, ContribOK, SubOK
    <2>2. ChainOK'
      BY <1>3 DEF ClaimLands, ChainOK, Transaction
    <2>3. WireOK'
      <3>1. [ch |-> Challenge, bal |-> balance - 1] \in Proof
        BY <1>a, <1>3 DEF ClaimLands, ChainOK, Proof
      <3> QED
        BY <3>1, <1>3 DEF ClaimLands, WireOK
    <2> QED
      BY <2>1, <2>2, <2>3
  <1>4. CASE TrackProof
    <2>1. ChainOK' /\ MinersOK' /\ DistOK' /\ ContribOK' /\ SubOK'
      BY <1>4 DEF TrackProof, ChainOK, MinersOK, DistOK, ContribOK, SubOK
    <2>2. SharedOK'
      <3>1. Head(notifications) \in Proof
        BY <1>4 DEF TrackProof, WireOK
      <3> QED
        BY <3>1, <1>4 DEF TrackProof, SharedOK, epochVars
    <2>3. WireOK'
      BY <1>4 DEF TrackProof, WireOK, Mission, NewMission, Proof
    <2> QED
      BY <2>1, <2>2, <2>3
  <1>5. CASE MissNotification
    <2>1. ChainOK' /\ SharedOK' /\ MinersOK' /\ DistOK' /\ ContribOK' /\ SubOK'
      BY <1>5
         DEF MissNotification, ChainOK, SharedOK, MinersOK, DistOK, ContribOK, SubOK
    <2>2. WireOK'
      BY <1>5 DEF MissNotification, WireOK, Mission, NewMission, Proof
    <2> QED
      BY <2>1, <2>2
  <1>6. ASSUME NEW c \in Clients, Connect(c) PROVE TypeOK'
    <2>1. ChainOK' /\ WireOK' /\ DistOK' /\ ContribOK' /\ SubOK'
      BY <1>6 DEF Connect, ChainOK, WireOK, DistOK, ContribOK, SubOK
    <2>2. SharedOK'
      BY <1>6 DEF Connect, SharedOK, Option
    <2>3. MinersOK'
      BY <1>6 DEF Connect, MinersOK, Job, NoJob
    <2> QED
      BY <2>1, <2>2, <2>3
  <1>7. ASSUME NEW c \in Clients, Disconnect(c) PROVE TypeOK'
    <2>1. ChainOK' /\ WireOK' /\ DistOK' /\ ContribOK' /\ SubOK'
      BY <1>7 DEF Disconnect, ChainOK, WireOK, DistOK, ContribOK, SubOK
    <2>2. SharedOK'
      BY <1>7 DEF Disconnect, SharedOK, Option
    <2>3. MinersOK'
      BY <1>7 DEF Disconnect, MinersOK, Job, NoJob
    <2> QED
      BY <2>1, <2>2, <2>3
  <1>8. ASSUME NEW c \in Clients, Ready(c) PROVE TypeOK'
    <2>1. ChainOK' /\ WireOK' /\ DistOK' /\ ContribOK' /\ SubOK'
      BY <1>8 DEF Ready, ChainOK, WireOK, DistOK, ContribOK, SubOK
    <2>2. SharedOK'
      BY <1>8 DEF Ready, SharedOK, Option
    <2>3. MinersOK'
      BY <1>8 DEF Ready, MinersOK, Job, NoJob
    <2> QED
      BY <2>1, <2>2, <2>3
  <1>9. ASSUME NEW c \in Clients, NEW diff \in Diffs, SubmitSolution(c, diff) PROVE
     TypeOK'
    <2>1. ChainOK' /\ SharedOK' /\ DistOK' /\ ContribOK' /\ SubOK'
      BY <1>9 DEF SubmitSolution, ChainOK, SharedOK, DistOK, ContribOK, SubOK
    <2>2. WireOK'
      <3>1. [c |-> c, ch |-> job[c].ch, range |-> job[c].range, diff |-> diff] \in
         Solution
        BY DEF MinersOK, Job, Solution
      <3> QED
        BY <3>1, <1>9 DEF SubmitSolution, WireOK
    <2>3. MinersOK'
      <3>1. diff \in Nat
        BY DifficultyAssumption
      <3> QED
        BY <3>1, <1>9 DEF SubmitSolution, MinersOK, Job
    <2> QED
      BY <2>1, <2>2, <2>3
  <1>10. CASE DistSnapshot
    <2>1. ChainOK' /\ SharedOK' /\ WireOK' /\ MinersOK' /\ ContribOK' /\ SubOK'
      BY <1>10 DEF DistSnapshot, ChainOK, SharedOK, WireOK, MinersOK, ContribOK, SubOK
    <2>2. DistOK'
      BY <1>10 DEF DistSnapshot, SharedOK, DistOK, DistType, DistPcs
    <2> QED
      BY <2>1, <2>2
  <1>11. CASE DistCutoff
    <2>1. ChainOK' /\ SharedOK' /\ WireOK' /\ MinersOK' /\ ContribOK' /\ SubOK'
      BY <1>11 DEF DistCutoff, ChainOK, SharedOK, WireOK, MinersOK, ContribOK, SubOK
    <2>2. DistOK'
      BY <1>c, <1>11 DEF DistCutoff, DistOK, DistType, DistPcs, Proof, NoProof
    <2> QED
      BY <2>1, <2>2
  <1>12. CASE DistChallenge
    <2>1. ChainOK' /\ SharedOK' /\ WireOK' /\ MinersOK' /\ ContribOK' /\ SubOK'
      BY <1>12 DEF DistChallenge, ChainOK, SharedOK, WireOK, MinersOK, ContribOK, SubOK
    <2>2. DistOK'
      <3>1. appProof.ch \in Nat /\ sockets \subseteq Clients
        BY DEF SharedOK, Proof
      <3> QED
        BY <3>1, <1>12 DEF DistChallenge, DistOK, DistType, DistPcs
    <2> QED
      BY <2>1, <2>2
  <1>13. ASSUME NEW c \in Clients, DistGrant(c) PROVE TypeOK'
    <2>1. ChainOK' /\ MinersOK' /\ ContribOK' /\ SubOK'
      BY <1>13 DEF DistGrant, ChainOK, MinersOK, ContribOK, SubOK
    <2>2. SharedOK'
      BY <1>13 DEF DistGrant, SharedOK, Option
    <2>3. WireOK'
      <3>1. NewMission(c) \in Mission
        BY DEF NewMission, Mission, DistOK, DistType, SharedOK
      <3> QED
        BY <3>1, <1>13 DEF DistGrant, WireOK
    <2>4. DistOK'
      BY <1>13 DEF DistGrant, DistOK, DistType, DistPcs
    <2> QED
      BY <2>1, <2>2, <2>3, <2>4
  <1>29. CASE DistRemove
    <2>1. ChainOK' /\ WireOK' /\ MinersOK' /\ ContribOK' /\ SubOK'
      BY <1>29 DEF DistRemove, ChainOK, WireOK, MinersOK, ContribOK, SubOK
    <2>2. SharedOK'
      BY <1>29 DEF DistRemove, SharedOK, Option
    <2>3. DistOK'
      BY <1>c, <1>29 DEF DistRemove, DistOK, DistType, DistPcs
    <2> QED
      BY <2>1, <2>2, <2>3
  <1>14. ASSUME NEW m \in missions, SendMission(m) PROVE TypeOK'
    <2>1. ChainOK' /\ SharedOK' /\ DistOK' /\ ContribOK' /\ SubOK'
      BY <1>14 DEF SendMission, ChainOK, SharedOK, DistOK, ContribOK, SubOK
    <2>2. WireOK'
      BY <1>14 DEF SendMission, WireOK, Mission, NewMission, Proof
    <2>3. MinersOK'
      <3>1. m \in Mission
        BY DEF WireOK
      <3>2. [ch |-> m.ch, range |-> m.range, best |-> 0] \in Job
        BY <3>1 DEF Mission, Job
      <3> QED
        BY <3>1, <3>2, <1>14 DEF SendMission, MinersOK, Mission
    <2> QED
      BY <2>1, <2>2, <2>3
  <1>15. ASSUME NEW m \in missions, RecordRange(m) PROVE TypeOK'
    <2>1. ChainOK' /\ MinersOK' /\ DistOK' /\ ContribOK' /\ SubOK'
      BY <1>15 DEF RecordRange, ChainOK, MinersOK, DistOK, ContribOK, SubOK
    <2>2. SharedOK'
      <3>1. m.range \in Option(Nat)
        BY DEF WireOK, Mission, Option
      <3> QED
        BY <3>1, <1>15 DEF RecordRange, SharedOK, epochVars
    <2>3. WireOK'
      BY <1>15 DEF RecordRange, WireOK, Mission, NewMission, Proof
    <2> QED
      BY <2>1, <2>2, <2>3
  <1>16. CASE ContribValidate
    <2>1. ChainOK' /\ SharedOK' /\ MinersOK' /\ DistOK' /\ SubOK'
      BY <1>16 DEF ContribValidate, ChainOK, SharedOK, MinersOK, DistOK, SubOK
    <2>2. WireOK'
      BY <1>16 DEF ContribValidate, WireOK, Mission, NewMission, Proof
    <2>3. ContribOK'
      <3>1. Head(solutions) \in Solution
        BY <1>16 DEF ContribValidate, WireOK
      <3>2. contrib' \in {NoContrib, [pc |-> "returned", sol |-> None],
                          [pc |-> "record", sol |-> Head(solutions)]}
        BY <1>16 DEF ContribValidate
      <3> QED
        BY <1>b, <1>c, <3>1, <3>2 DEF ContribOK, ContribType, ContribPcs
    <2> QED
      BY <2>1, <2>2, <2>3
  <1>17. CASE ContribRecord
    <2>1. ChainOK' /\ WireOK' /\ MinersOK' /\ DistOK' /\ SubOK'
      BY <1>17 DEF ContribRecord, ChainOK, WireOK, MinersOK, DistOK, SubOK
    <2>2. SharedOK'
      <3>1. contrib.sol \in Option(Solution)
        BY DEF ContribOK, ContribType
      <3>2. contributions' \in Contributions
        BY <3>1, <1>17 DEF ContribRecord, SharedOK, Contributions, epochVars
      <3>3. bestHash' \in Option(Solution)
        BY <3>1, <1>17 DEF ContribRecord, SharedOK, epochVars
      <3> QED
        BY <3>2, <3>3, <1>17 DEF ContribRecord, SharedOK
    <2>3. ContribOK'
      BY <1>c, <1>17 DEF ContribRecord, ContribOK, ContribType, ContribPcs
    <2> QED
      BY <2>1, <2>2, <2>3
  <1>d. ASSUME NEW pc \in SubPcs, Fetch(pc) PROVE SubOK'
    BY <1>a, <1>d DEF Fetch, SubOK, SubType
  <1>e. ASSUME NEW pc \in SubPcs, Store(pc), UNCHANGED <<readyClients, sockets, appNonce,
                nonceRanges, epochVars, paused>>
        PROVE  SubOK' /\ SharedOK'
    <2>1. SubOK'
      BY <1>e DEF Store, SubOK, SubType, NoProof, Proof
    <2>2. appProof' \in Proof
      BY <1>e DEF Store, SubOK, SubType
    <2> QED
      BY <1>e, <2>1, <2>2 DEF SharedOK
  <1>18. CASE AttendCheck
    <2>1. ChainOK' /\ SharedOK' /\ WireOK' /\ MinersOK' /\ DistOK' /\ ContribOK'
      BY <1>18 DEF AttendCheck, ChainOK, SharedOK, WireOK, MinersOK, DistOK, ContribOK
    <2>2. SubOK'
      <3>1. CASE Fetch("hear")
        BY <1>d, <3>1 DEF SubPcs, SubmittingPcs
      <3>2. CASE ~Fetch("hear")
        BY <1>c, <1>18, <3>2 DEF AttendCheck, SubOK, SubType, SubPcs, SubmittingPcs
      <3> QED
        BY <3>1, <3>2
    <2> QED
      BY <2>1, <2>2
  <1>30. CASE SubSync \/ AttendHear
    <2>1. ChainOK' /\ WireOK' /\ MinersOK' /\ DistOK' /\ ContribOK'
      BY <1>30 DEF SubSync, AttendHear, ChainOK, WireOK, MinersOK, DistOK, ContribOK
    <2>2. SubOK' /\ SharedOK'
      BY <1>e, <1>30 DEF SubSync, AttendHear, SubPcs, SubmittingPcs
    <2> QED
      BY <2>1, <2>2
  <1>19. CASE AttendSettle
    <2>1. ChainOK' /\ MinersOK' /\ DistOK' /\ ContribOK'
      BY <1>19 DEF AttendSettle, ResetEpoch, ChainOK, MinersOK, DistOK, ContribOK
    <2>2. SharedOK'
      BY <1>b, <1>19 DEF AttendSettle, ResetEpoch, SharedOK, Option
    <2>3. WireOK'
      <3> DEFINE msg == [ch |-> sub.old.ch, rewards |-> appProof.bal - sub.old.bal,
                         best |-> sub.best, contributions |-> sub.frozen]
      <3>1. msg \in MineSuccess
        BY DEF SharedOK, SubOK, SubType, Proof, MineSuccess
      <3>2. mineSuccess' = Append(mineSuccess, msg)
        BY <1>19 DEF AttendSettle
      <3>3. mineSuccess' \in Seq(MineSuccess)
        BY <3>1, <3>2 DEF WireOK
      <3> QED
        BY <3>3, <1>19 DEF AttendSettle, WireOK
    <2>4. SubOK'
      BY <1>c, <1>19 DEF AttendSettle, ResetEpoch, SubOK, SubType, SubPcs, SubmittingPcs
    <2> QED
      BY <2>1, <2>2, <2>3, <2>4
  <1>20. CASE SubStart
    <2>1. ChainOK' /\ SharedOK' /\ WireOK' /\ MinersOK' /\ DistOK' /\ ContribOK'
      BY <1>20 DEF SubStart, ChainOK, SharedOK, WireOK, MinersOK, DistOK, ContribOK
    <2>2. SubOK'
      BY <1>20 DEF SubStart, SharedOK, SubOK, SubType, SubPcs
    <2> QED
      BY <2>1, <2>2
  <1>21. CASE SubCollect
    <2>1. ChainOK' /\ SharedOK' /\ WireOK' /\ MinersOK' /\ DistOK' /\ ContribOK'
      BY <1>21 DEF SubCollect, ChainOK, SharedOK, WireOK, MinersOK, DistOK, ContribOK
    <2>2. SubOK'
      <3>1. sub.waiting \in Nat /\ sub.waiting + 1 \in Nat
        BY DEF SubOK, SubType
      <3>2. sub' \in {[NoSub EXCEPT !.waiting = sub.waiting],
                      [NoSub EXCEPT !.waiting = sub.waiting + 1],
                      [sub EXCEPT !.pc = "freeze", !.waiting = 0, !.best = bestHash]}
        BY <1>21 DEF SubCollect
      <3>3. [sub EXCEPT !.pc = "freeze", !.waiting = 0, !.best = bestHash] \in SubType
        BY DEF SharedOK, SubOK, SubType, SubPcs
      <3>4. \A n \in Nat : [NoSub EXCEPT !.waiting = n] \in SubType
        BY <1>c DEF SubType
      <3> QED
        BY <3>1, <3>2, <3>3, <3>4 DEF SubOK
    <2> QED
      BY <2>1, <2>2
  <1>22. CASE SubFreeze
    <2>1. ChainOK' /\ WireOK' /\ MinersOK' /\ DistOK' /\ ContribOK'
      BY <1>22 DEF SubFreeze, ChainOK, WireOK, MinersOK, DistOK, ContribOK
    <2>2. SharedOK'
      BY <1>22 DEF SubFreeze, SharedOK, Option
    <2>3. SubOK'
      BY <1>22 DEF SubFreeze, SharedOK, SubOK, SubType, SubPcs, SubmittingPcs
    <2> QED
      BY <2>1, <2>2, <2>3
  <1>23. CASE SubAttempt
    <2>1. SharedOK' /\ WireOK' /\ MinersOK' /\ DistOK' /\ ContribOK'
      BY <1>23 DEF SubAttempt, SharedOK, WireOK, MinersOK, DistOK, ContribOK
    <2>2. ChainOK'
      <3>1. sub.best \in Solution
        BY <1>23 DEF SubAttempt, BestChosen, SubmittingPcs, SubOK, SubType, Option
      <3>2. sent + 1 \in Nat /\ [sol |-> sub.best, id |-> sent + 1] \in Transaction
        BY <3>1 DEF ChainOK, Transaction
      <3> QED
        BY <3>2, <1>23 DEF SubAttempt, SendTx, ChainOK
    <2>3. SubOK'
      <3>1. CASE Fetch("sync")
        BY <1>d, <3>1 DEF SubPcs, SubmittingPcs
      <3>2. CASE ~Fetch("sync")
        BY <1>23, <3>2 DEF SubAttempt, SendTx, SubOK, SubType, SubPcs, SubmittingPcs
      <3> QED
        BY <3>1, <3>2
    <2> QED
      BY <2>1, <2>2, <2>3
  <1>24. CASE SubConfirmed
    <2>1. ChainOK' /\ SharedOK' /\ WireOK' /\ MinersOK' /\ DistOK' /\ ContribOK'
      BY <1>24 DEF SubConfirmed, ChainOK, SharedOK, WireOK, MinersOK, DistOK, ContribOK
    <2>2. SubOK'
      BY <1>24 DEF SubConfirmed, SubOK, SubType, SubPcs, SubmittingPcs
    <2> QED
      BY <2>1, <2>2
  <1>25. CASE SubRetry
    <2>1. ChainOK' /\ SharedOK' /\ WireOK' /\ MinersOK' /\ DistOK' /\ ContribOK'
      BY <1>25 DEF SubRetry, ChainOK, SharedOK, WireOK, MinersOK, DistOK, ContribOK
    <2>2. SubOK'
      <3>1. sub.attempt + 1 \in Nat
        BY DEF SubOK, SubType
      <3>2. sub' \in {[sub EXCEPT !.pc = "attempt", !.attempt = sub.attempt + 1],
                      [sub EXCEPT !.pc = "discard"]}
        BY <1>25 DEF SubRetry
      <3> QED
        BY <3>1, <3>2 DEF SubOK, SubType, SubPcs, SubmittingPcs
    <2> QED
      BY <2>1, <2>2
  <1>26. CASE SubHashInvalid
    <2>1. ChainOK' /\ SharedOK' /\ WireOK' /\ MinersOK' /\ DistOK' /\ ContribOK'
      BY <1>26
         DEF SubHashInvalid, ChainOK, SharedOK, WireOK, MinersOK, DistOK, ContribOK
    <2>2. SubOK'
      BY <1>26 DEF SubHashInvalid, SubOK, SubType, SubPcs, SubmittingPcs
    <2> QED
      BY <2>1, <2>2
  <1>27. CASE SubDiscard
    <2>1. ChainOK' /\ SharedOK' /\ WireOK' /\ MinersOK' /\ DistOK' /\ ContribOK'
      BY <1>27 DEF SubDiscard, ChainOK, SharedOK, WireOK, MinersOK, DistOK, ContribOK
    <2>2. SubOK'
      BY <1>d, <1>27 DEF SubDiscard, SubPcs, SubmittingPcs
    <2> QED
      BY <2>1, <2>2
  <1>31. CASE SubRefresh
    <2>1. ChainOK' /\ WireOK' /\ MinersOK' /\ DistOK' /\ ContribOK'
      BY <1>31 DEF SubRefresh, ResetEpoch, ChainOK, WireOK, MinersOK, DistOK, ContribOK
    <2>2. SharedOK'
      <3>1. appProof' \in Proof
        BY <1>31 DEF SubRefresh, SharedOK, SubOK, SubType
      <3> QED
        BY <1>b, <1>31, <3>1 DEF SubRefresh, ResetEpoch, SharedOK, Option
    <2>3. SubOK'
      BY <1>c, <1>31 DEF SubRefresh, ResetEpoch, SubOK
    <2> QED
      BY <2>1, <2>2, <2>3
  <1>28. CASE UNCHANGED vars
    BY <1>28 DEF vars, ChainOK, SharedOK, WireOK, MinersOK, DistOK, ContribOK, SubOK
  <1> QED
    BY <1>1, <1>2, <1>3, <1>4, <1>5, <1>6, <1>7, <1>8, <1>9, <1>10, <1>11, <1>12, <1>13,
       <1>14, <1>15, <1>16, <1>17, <1>18, <1>19, <1>20, <1>21, <1>22, <1>23, <1>24,
       <1>25, <1>26, <1>27, <1>28, <1>29, <1>30, <1>31
       DEF Next, Chain, Tracking, Miners, Distribution, MissionTasks, Contributing,
           AttendWait, Submitting

-----------------------------------------------------------------------------
(* The round's inductive invariant: to BestHashIsBest, BestIsFrozen and       *)
(* PauseIsHeld it adds what holds at the awaits that lead up to them. The     *)
(* solution about to be recorded has passed the difficulty check, and the     *)
(* solution about to be frozen is still among the contributions.              *)

Submission == <<bestHash, contributions, paused, contrib, sub>>

QualifiedIsRecorded ==
  contrib.pc = "record" => contrib.sol # None /\ contrib.sol.diff >= MinDifficulty

BestIsContributed ==
  sub.pc = "freeze" => /\ contributions[Solver(sub.best)] # None
                       /\ contributions[Solver(sub.best)].diff >= sub.best.diff

RoundInv ==
  /\ TypeOK
  /\ BestChosen
  /\ QualifiedIsRecorded
  /\ BestHashIsBest
  /\ BestIsContributed
  /\ BestIsFrozen
  /\ PauseIsHeld

LEMMA RoundInit == Init => RoundInv
  <1> SUFFICES ASSUME Init PROVE RoundInv
    OBVIOUS
  <1>1. TypeOK
    BY TypeInit
  <1>2. BestHashIsBest
    BY DEF Init, BestHashIsBest, BestOf
  <1> QED
    BY <1>1, <1>2
       DEF Init, RoundInv, BestChosen, QualifiedIsRecorded, BestIsContributed,
                      BestIsFrozen, PauseIsHeld, NoSub, NoContrib, SubmittingPcs

(* What a transaction's end leaves behind satisfies the invariant. *)
LEMMA ResetRestores ==
  ASSUME ResetEpoch, UNCHANGED contrib, RoundInv, TypeOK'
  PROVE  RoundInv'
  <1>1. BestHashIsBest'
    BY DEF ResetEpoch, BestHashIsBest, BestOf
  <1>2. BestChosen' /\ BestIsContributed' /\ BestIsFrozen' /\ PauseIsHeld'
    BY DEF ResetEpoch, NoSub, BestChosen, BestIsContributed, BestIsFrozen, PauseIsHeld,
           SubmittingPcs
  <1>3. QualifiedIsRecorded'
    BY DEF RoundInv, QualifiedIsRecorded
  <1> QED
    BY <1>1, <1>2, <1>3 DEF RoundInv

LEMMA RecordPreserves ==
  ASSUME ContribRecord, RoundInv, TypeOK'
  PROVE  RoundInv'
  <1> DEFINE sol == contrib.sol
             p == Wallet[sol.c]
  <1>1. /\ sol \in Solution /\ sol # None /\ sol.diff \in Nat /\ sol.diff > 0
        /\ p \in Pubkeys
    <2>1. sol \in Option(Solution)
      BY DEF RoundInv, TypeOK, ContribOK, ContribType
    <2>2. sol # None /\ sol.diff >= MinDifficulty
      BY DEF ContribRecord, RoundInv, QualifiedIsRecorded
    <2>3. sol \in Solution
      BY <2>1, <2>2 DEF Option
    <2>4. sol.diff \in Nat /\ MinDifficulty \in Nat \ {0}
      BY <2>3, DifficultyAssumption DEF Solution
    <2>5. p \in Pubkeys
      BY <2>3, WalletAssumption DEF Solution
    <2> QED
      BY <2>2, <2>3, <2>4, <2>5
  <1>2. \A s \in Option(Solution) : Difficulty(s) \in Nat
    BY DifficultyAssumption DEF Difficulty, Option, Solution
  <1>3. /\ contributions \in [Pubkeys -> Option(Solution)]
        /\ bestHash \in Option(Solution)
        /\ sub.best \in Option(Solution)
    BY DEF RoundInv, TypeOK, SharedOK, SubOK, SubType, Contributions
  <1>4. CASE ~(sol.diff > Difficulty(contributions[p]))
    BY <1>4 DEF ContribRecord, NoContrib, epochVars, RoundInv, BestChosen,
                QualifiedIsRecorded, BestHashIsBest, BestIsContributed, BestIsFrozen,
                PauseIsHeld
  <1>5. CASE sol.diff > Difficulty(contributions[p])
    <2>1. /\ contributions' = [contributions EXCEPT ![p] = sol]
          /\ bestHash' = IF sol.diff > Difficulty(bestHash) THEN sol ELSE bestHash
          /\ sub' = sub /\ paused' = paused /\ contrib' = NoContrib
      BY <1>5 DEF ContribRecord
    <2>2. bestHash' # None
      BY <1>1, <2>1 DEF Difficulty
    <2>3. BestHashIsBest'
      <3>1. /\ contributions'[Solver(bestHash)'] # None
            /\ contributions'[Solver(bestHash)'].diff = bestHash'.diff
        <4>1. CASE sol.diff > Difficulty(bestHash)
          BY <1>1, <1>3, <2>1, <4>1 DEF Solver
        <4>2. CASE ~(sol.diff > Difficulty(bestHash))
          <5>1. bestHash' = bestHash /\ bestHash # None
            BY <2>1, <2>2, <4>2
          <5>2. /\ contributions[Solver(bestHash)] # None
                /\ contributions[Solver(bestHash)].diff = bestHash.diff
            BY <5>1 DEF RoundInv, BestHashIsBest, BestOf
          <5>3. bestHash \in Solution
            BY <1>3, <5>1 DEF Option
          <5>4. Solver(bestHash) # p
            BY <1>1, <1>3, <1>5, <4>2, <5>1, <5>2, <5>3, DifficultyAssumption
               DEF Difficulty, Solution
          <5> QED
            BY <1>3, <2>1, <5>1, <5>2, <5>4 DEF Solver
        <4> QED
          BY <4>1, <4>2
      <3>2. ASSUME NEW q \in Pubkeys
            PROVE  Difficulty(contributions[q])' <= Difficulty(bestHash)'
        <4>1. Difficulty(contributions[q]) <= Difficulty(bestHash)
          BY DEF RoundInv, BestHashIsBest, BestOf, NoContributions, Difficulty
        <4>2. Difficulty(contributions[q]) \in Nat /\ Difficulty(bestHash) \in Nat
          BY <1>2, <1>3
        <4> QED
          BY <1>1, <1>3, <2>1, <4>1, <4>2 DEF Difficulty
      <3> QED
        BY <2>2, <3>1, <3>2 DEF BestHashIsBest, BestOf
    <2>4. BestIsContributed'
      <3> SUFFICES ASSUME sub.pc = "freeze"
                   PROVE  /\ contributions'[Solver(sub.best)] # None
                          /\ contributions'[Solver(sub.best)].diff >= sub.best.diff
        BY <2>1 DEF BestIsContributed, Solver
      <3>1. sub.best \in Solution /\ Solver(sub.best) \in Pubkeys
        BY <1>3, WalletAssumption DEF RoundInv, BestChosen, Option, Solver, Solution
      <3>2. /\ contributions[Solver(sub.best)] # None
            /\ contributions[Solver(sub.best)].diff >= sub.best.diff
        BY DEF RoundInv, BestIsContributed
      <3>3. CASE Solver(sub.best) # p
        BY <1>3, <2>1, <3>1, <3>2, <3>3
      <3>4. CASE Solver(sub.best) = p
        <4>1. contributions[p] \in Solution /\ sol.diff > contributions[p].diff
          BY <1>1, <1>3, <1>5, <3>2, <3>4 DEF Option, Difficulty
        <4>2. contributions[p].diff \in Nat /\ sub.best.diff \in Nat
          BY <3>1, <4>1, DifficultyAssumption DEF Solution
        <4> QED
          BY <1>1, <1>3, <2>1, <3>2, <3>4, <4>1, <4>2
      <3> QED
        BY <3>3, <3>4
    <2> QED
      BY <2>1, <2>2, <2>3, <2>4
         DEF RoundInv, BestChosen, QualifiedIsRecorded, NoContrib,
                                    BestIsFrozen, PauseIsHeld
  <1> QED
    BY <1>4, <1>5

LEMMA RoundNext == RoundInv /\ [Next]_vars => RoundInv'
  <1> SUFFICES ASSUME RoundInv, [Next]_vars PROVE RoundInv'
    OBVIOUS
  <1>1. TypeOK'
    BY TypeNext DEF RoundInv
  <1>2. ASSUME UNCHANGED Submission PROVE RoundInv'
    BY <1>1, <1>2 DEF Submission, RoundInv, BestChosen, QualifiedIsRecorded,
                      BestHashIsBest, BestIsContributed, BestIsFrozen, PauseIsHeld
  <1> DEFINE Kept == UNCHANGED <<epochVars, paused, contrib>>
  <1>3. CASE ContribValidate
    <2>1. contrib'.pc = "record" => /\ contrib'.sol = Head(solutions)
                                    /\ ~(Head(solutions).diff < MinDifficulty)
      BY <1>3 DEF ContribValidate, NoContrib
    <2>2. ContribValidate => Head(solutions) \in Solution
      BY DEF ContribValidate, RoundInv, TypeOK, WireOK
    <2>3. Head(solutions).diff \in Nat /\ Head(solutions) # None /\ MinDifficulty \in
       Nat
      BY <1>3, <2>2, DifficultyAssumption, NoneAssumption DEF Solution
    <2>4. QualifiedIsRecorded'
      BY <2>1, <2>3 DEF QualifiedIsRecorded
    <2> QED
      BY <1>1, <1>3, <2>4
         DEF ContribValidate, sharedVars, epochVars, RoundInv, BestChosen,
             BestHashIsBest, BestIsContributed, BestIsFrozen, PauseIsHeld
  <1>4. CASE ContribRecord
    BY <1>1, <1>4, RecordPreserves
  <1>5. CASE SubStart
    BY <1>1, <1>5
       DEF SubStart, sharedVars, epochVars, SubmittingPcs, RoundInv, BestChosen,
           QualifiedIsRecorded, BestHashIsBest, BestIsContributed, BestIsFrozen,
              PauseIsHeld
  <1>6. CASE SubCollect
    <2>1. Kept
      BY <1>6 DEF SubCollect, sharedVars
    <2>2. \/ sub'.pc = "start"
          \/ sub'.pc = "freeze" /\ sub'.best = bestHash /\ bestHash # None
      BY <1>6 DEF SubCollect, NoSub, RoundInv, TypeOK, SubOK, SubType
    <2>3. BestIsContributed'
      <3> SUFFICES ASSUME sub'.pc = "freeze", sub'.best = bestHash, bestHash # None
                   PROVE  /\ contributions[Solver(bestHash)] # None
                          /\ contributions[Solver(bestHash)].diff >= bestHash.diff
        BY <2>1, <2>2 DEF BestIsContributed, Solver, epochVars
      <3>1. /\ contributions[Solver(bestHash)] # None
            /\ contributions[Solver(bestHash)].diff = bestHash.diff
        BY DEF RoundInv, BestHashIsBest, BestOf
      <3>2. bestHash.diff \in Nat
        BY DifficultyAssumption DEF RoundInv, TypeOK, SharedOK, Option, Solution
      <3> QED
        BY <3>1, <3>2
    <2> QED
      BY <1>1, <2>1, <2>2, <2>3
         DEF epochVars, SubmittingPcs, RoundInv, BestChosen, QualifiedIsRecorded,
             BestHashIsBest, BestIsFrozen, PauseIsHeld
  <1>7. CASE SubFreeze
    <2>1. /\ UNCHANGED <<epochVars, contrib>> /\ paused' = TRUE
          /\ sub'.pc = "attempt" /\ sub'.best = sub.best /\ sub'.frozen = contributions
      BY <1>7 DEF SubFreeze, RoundInv, TypeOK, SubOK, SubType
    <2>2. /\ sub.best # None /\ contributions[Solver(sub.best)] # None
          /\ contributions[Solver(sub.best)].diff >= sub.best.diff
      BY <1>7 DEF SubFreeze, RoundInv, BestChosen, BestIsContributed
    <2>3. bestHash # None
      <3>1. Solver(sub.best) \in Pubkeys
        BY <2>2, WalletAssumption
           DEF RoundInv, TypeOK, SubOK, SubType, Option, Solver, Solution
      <3> QED
        BY <2>2, <3>1 DEF RoundInv, BestHashIsBest, BestOf, NoContributions
    <2> QED
      BY <1>1, <2>1, <2>2, <2>3
         DEF epochVars, SubmittingPcs, RoundInv, BestChosen, QualifiedIsRecorded,
             BestHashIsBest, BestIsContributed, BestIsFrozen, PauseIsHeld, Solver
  <1>8. ASSUME Kept, sub'.pc \in SubmittingPcs, sub.pc \in SubmittingPcs,
               sub'.best = sub.best, sub'.frozen = sub.frozen
        PROVE  RoundInv'
    BY <1>1, <1>8
       DEF epochVars, SubmittingPcs, RoundInv, BestChosen, QualifiedIsRecorded,
           BestHashIsBest, BestIsContributed, BestIsFrozen, PauseIsHeld, Solver
  <1>9. CASE SubAttempt \/ SubSync \/ SubConfirmed \/ SubRetry \/ SubHashInvalid
             \/ SubDiscard \/ AttendHear
    BY <1>8, <1>9
       DEF SubAttempt, SendTx, SubSync, SubConfirmed, SubRetry, SubHashInvalid, SubDiscard,
           AttendHear, Fetch, Store, sharedVars, SubmittingPcs, RoundInv, TypeOK, SubOK,
           SubType
  <1>10. CASE AttendCheck
    <2>1. Kept /\ sub.pc \in SubmittingPcs
      BY <1>10 DEF AttendCheck, SubmittingPcs, sharedVars
    <2>2. CASE sub' = NoSub
      BY <1>1, <2>1, <2>2
         DEF NoSub, epochVars, SubmittingPcs, RoundInv, BestChosen, QualifiedIsRecorded,
             BestHashIsBest, BestIsContributed, BestIsFrozen, PauseIsHeld
    <2>3. CASE sub' # NoSub
      BY <1>8, <1>10, <2>1, <2>3
         DEF AttendCheck, Fetch, SubmittingPcs, RoundInv, TypeOK, SubOK, SubType
    <2> QED
      BY <2>2, <2>3
  <1>11. CASE AttendSettle
    BY <1>1, <1>11, ResetRestores DEF AttendSettle
  <1>12. CASE SubRefresh
    BY <1>1, <1>12, ResetRestores DEF SubRefresh
  <1>13. CASE Chain
    BY <1>2, <1>13
       DEF Chain, Tick, Land, ClaimLands, Submission, sharedVars, epochVars, taskVars
  <1>14. CASE Tracking
    BY <1>2, <1>14
       DEF Tracking, TrackProof, MissNotification, Submission, sharedVars, epochVars,
           taskVars
  <1>15. CASE Miners
    BY <1>2, <1>15
       DEF Miners, Connect, Disconnect, Ready, SubmitSolution, Submission, sharedVars,
           epochVars, taskVars
  <1>16. CASE Distribution \/ MissionTasks
    BY <1>2, <1>16
       DEF Distribution, DistSnapshot, DistCutoff, DistChallenge, DistGrant, DistRemove,
           MissionTasks, SendMission, RecordRange, Submission, sharedVars, epochVars, taskVars
  <1>17. CASE UNCHANGED vars
    BY <1>2, <1>17 DEF vars, Submission, sharedVars, epochVars, taskVars
  <1> QED
    BY <1>3, <1>4, <1>5, <1>6, <1>7, <1>9, <1>10, <1>11, <1>12, <1>13, <1>14, <1>15,
       <1>16, <1>17
       DEF Next, Contributing, AttendWait, Submitting

-----------------------------------------------------------------------------
(* The theorems.                                                           *)

LEMMA RoundInvariant == Spec => []RoundInv
  BY RoundInit, RoundNext, PTL DEF Spec

(* Every value the tasks share and keep stays in its type, whatever fails. *)
THEOREM TypeCorrect == Spec => []TypeOK
  <1>1. RoundInv => TypeOK
    BY DEF RoundInv
  <1> QED
    BY <1>1, RoundInvariant, PTL

(* At every interleaving of the recording task with the submission and its   *)
(* resets, the pool's best hash is the best of the recorded contributions.   *)
THEOREM BestHashCorrect == Spec => []BestHashIsBest
  <1>1. RoundInv => BestHashIsBest
    BY DEF RoundInv
  <1> QED
    BY <1>1, RoundInvariant, PTL

(* The round that is submitted has its solver among the frozen contributions, *)
(* though the solution and the contributions are read at different awaits.    *)
THEOREM FrozenCorrect == Spec => []BestIsFrozen
  <1>1. RoundInv => BestIsFrozen
    BY DEF RoundInv
  <1> QED
    BY <1>1, RoundInvariant, PTL

(* Missions stay paused while a solution is submitted, and a pause that is *)
(* left behind keeps the solution that the next submission needs.          *)
THEOREM PauseCorrect == Spec => []PauseIsHeld
  <1>1. RoundInv => PauseIsHeld
    BY DEF RoundInv
  <1> QED
    BY <1>1, RoundInvariant, PTL

-----------------------------------------------------------------------------
(* What a settled round stands for. That a round which is settled is one the  *)
(* chain paid for hangs on the order in which the chain, the notifications,   *)
(* the miners and the submission move on to the next challenge. Two things    *)
(* disturb it, and are excluded by name: an await or a notification that      *)
(* outlasts the rest of a round, and a claim whose notification comes while   *)
(* app_proof is behind the chain: after the cutoff, before the server has     *)
(* heard of the running challenge, or while a proof that was fetched before   *)
(* it is about to be stored.                                                  *)

Timely == "delay" \notin Faults
QuietClaims == claims' # claims => age < 2 /\ appProof.ch = Challenge /\ sub.pc # "refresh"

(* Nothing of these is ahead of ch: missions and what miners work on; the     *)
(* solutions on their way; the solution that is being recorded and the best.  *)
Issued(ch) ==
  /\ dist.pc \in {"grant", "remove"} => dist.ch <= ch
  /\ \A m \in missions : m.ch <= ch
  /\ \A c \in Clients : job[c].ch <= ch
Queued(ch) == \A i \in 1..Len(solutions) : solutions[i].ch <= ch
Recorded(ch) ==
  /\ contrib.pc = "record" => contrib.sol.ch <= ch
  /\ bestHash # None => bestHash.ch <= ch

(* Pending notifications are of the running challenge, and none is pending    *)
(* after the cutoff: app_proof is behind the chain or up to it.               *)
ProofsAreCurrent ==
  /\ \A i \in 1..Len(notifications) : notifications[i].ch = Challenge
  /\ age = 2 => notifications = <<>>
  /\ appProof.ch <= Challenge

(* Nothing is ahead of the chain. app_proof may be behind what its own        *)
(* missions were issued for, once it has gone back, but not while a           *)
(* notification is pending that would take it forward again.                  *)
NothingIsAhead ==
  /\ Issued(Challenge) /\ Queued(Challenge) /\ Recorded(appProof.ch)
  /\ notifications # <<>> => Issued(appProof.ch) /\ Queued(appProof.ch)

(* The proof that is about to be stored when a submission has failed may be   *)
(* old, but the solutions there are were not mined for a later one.           *)
RefreshIsOld ==
  sub.pc = "refresh" =>
    /\ sub.fetched.ch <= Challenge
    /\ Queued(sub.fetched.ch) /\ Recorded(sub.fetched.ch)
    /\ appProof.ch <= sub.fetched.ch => Issued(sub.fetched.ch)
    /\ sub.fetched.ch # Challenge /\ notifications # <<>> =>
         Len(notifications) = 1 /\ appProof.ch <= sub.fetched.ch

(* The submission has chosen a solution. *)
Chosen == SubmittingPcs \cup {"freeze"}

(* A submission begins with the proof that the solutions it collects were     *)
(* mined for, or with a later one.                                            *)
SolutionsAreOfRound ==
  /\ sub.pc # "start" => sub.old.ch <= appProof.ch
  /\ sub.pc = "collect" =>
       /\ Recorded(sub.old.ch)
       /\ notifications # <<>> \/ appProof.ch # sub.old.ch => Queued(sub.old.ch)
  /\ sub.pc \in Chosen => sub.best.ch <= sub.old.ch

(* What is recorded is never of an earlier round than what was before.        *)
BestIsLatest ==
  bestHash # None =>
    /\ contrib.pc = "record" => bestHash.ch <= contrib.sol.ch
    /\ sub.pc \in Chosen => sub.best.ch <= bestHash.ch

(* While a transaction may land, the whole server is at the running           *)
(* challenge: only what it sent for it can make it fall behind.               *)
OffersAreCurrent ==
  /\ inflight # {} =>
       /\ appProof.ch = Challenge
       /\ contrib.pc = "record" => contrib.sol.ch = Challenge
       /\ bestHash # None => bestHash.ch = Challenge
       /\ sub.pc # "start" => sub.old.ch = Challenge
       /\ sub.pc \in Chosen => sub.best.ch = Challenge
       /\ sub.pc = "refresh" => sub.fetched.ch = Challenge
  /\ sub.pc \in {"sync", "hear"} => inflight = {} /\ sub.fetched.ch = Challenge

(* From sending to settling, the transaction that a confirmation is about is  *)
(* the last one sent.                                                         *)
Attended == sub.pc \in {"attend", "hear", "settle"}
Sending == sub.pc = "confirm" \/ Attended

TransactionsAreSent ==
  /\ \A i \in 1..Len(landed) : landed[i].id <= sent
  /\ \A tx \in inflight : tx.id <= sent
  /\ sub.pc = "confirm" => \A tx \in inflight : tx.id = sent => tx.sol = sub.best

LandingIsOfRound ==
  /\ Sending /\ TxLanded => /\ landed[Challenge].sol = sub.best
                            /\ sub.old.ch = Challenge - 1
                            /\ inflight = {}
  /\ Attended => TxLanded

(* What is settled is behind the chain, and the round being settled is not    *)
(* settled yet.                                                               *)
SettledIsPast ==
  \A i \in 1..Len(mineSuccess) :
    /\ mineSuccess[i].ch < Challenge
    /\ Sending /\ TxLanded => mineSuccess[i].ch < Challenge - 1

(* What landed, and what was made of it. *)
LandInv == TransactionsAreSent /\ LandingIsOfRound /\ SettledIsPast /\ SettledIsLanded

(* Once the attender settles, app_proof is the proof of the transaction it    *)
(* settles: no other can land in between.                                     *)
SettlingIsHeard == sub.pc = "settle" => appProof.ch = Challenge

(* As long as no claim is confirmed, a proof's balance is what the solutions  *)
(* accepted before its challenge have paid.                                   *)
Worth(ch) == MaxClaims + Reward * ch

BalancesAreExact ==
  claims = 0 =>
    /\ balance = Worth(Challenge)
    /\ appProof.bal = Worth(appProof.ch)
    /\ \A i \in 1..Len(notifications) : notifications[i].bal = Worth(notifications[i].ch)
    /\ sub.pc # "start" => sub.old.bal = Worth(sub.old.ch)
    /\ sub.pc \in {"sync", "hear", "refresh"} => sub.fetched.bal = Worth(sub.fetched.ch)
    /\ RewardsAreExact

(* The inductive invariant. *)
OrderInv ==
  /\ RoundInv
  /\ ProofsAreCurrent
  /\ NothingIsAhead
  /\ RefreshIsOld
  /\ SolutionsAreOfRound
  /\ BestIsLatest
  /\ OffersAreCurrent
  /\ LandInv
  /\ SettlingIsHeard
  /\ BalancesAreExact

LEMMA OrderInit == Init => OrderInv
  <1> SUFFICES ASSUME Init PROVE OrderInv
    OBVIOUS
  <1>1. Challenge = 0 /\ RoundInv
    BY RoundInit DEF Init, Challenge
  <1>2. ProofsAreCurrent /\ NothingIsAhead
    BY <1>1
       DEF Init, ProofsAreCurrent, NothingIsAhead, Issued, Queued, Recorded, ChainProof,
           NoDist, NoJob, NoContrib
  <1>3. RefreshIsOld /\ SolutionsAreOfRound /\ BestIsLatest /\ OffersAreCurrent
    BY DEF Init, RefreshIsOld, SolutionsAreOfRound, BestIsLatest, OffersAreCurrent, Chosen,
           NoSub, SubmittingPcs
  <1>4. LandInv /\ SettlingIsHeard
    BY DEF Init, LandInv, TransactionsAreSent, LandingIsOfRound, SettledIsPast,
           SettledIsLanded, SettlingIsHeard, Sending, Attended, NoSub
  <1>5. BalancesAreExact
    <2>1. Worth(0) = MaxClaims
      BY RewardAssumption, BoundsAssumption DEF Worth
    <2> QED
      BY <1>1, <2>1 DEF Init, BalancesAreExact, RewardsAreExact, ChainProof, NoSub
  <1> QED
    BY <1>1, <1>2, <1>3, <1>4, <1>5 DEF OrderInv

(* The challenges that the invariant compares are numbers. *)
Numbers ==
  /\ appProof.ch \in Nat /\ Challenge \in Nat
  /\ sub.old.ch \in Nat /\ sub.fetched.ch \in Nat /\ dist.ch \in Nat
  /\ \A m \in missions : m.ch \in Nat
  /\ \A c \in Clients : job[c].ch \in Nat
  /\ \A i \in 1..Len(solutions) : solutions[i].ch \in Nat
  /\ contrib.pc = "record" => contrib.sol.ch \in Nat
  /\ bestHash # None => bestHash.ch \in Nat
  /\ sub.pc \in Chosen => sub.best.ch \in Nat

LEMMA NumbersNow == RoundInv => Numbers
  <1> SUFFICES ASSUME RoundInv PROVE Numbers
    OBVIOUS
  <1>1. appProof.ch \in Nat /\ Challenge \in Nat
    BY DEF RoundInv, TypeOK, SharedOK, ChainOK, Proof, Challenge
  <1>2. sub.old.ch \in Nat /\ sub.fetched.ch \in Nat /\ dist.ch \in Nat
    BY DEF RoundInv, TypeOK, SubOK, SubType, DistOK, DistType, Proof
  <1>3. \A m \in missions : m.ch \in Nat
    BY DEF RoundInv, TypeOK, WireOK, Mission
  <1>4. \A c \in Clients : job[c].ch \in Nat
    BY DEF RoundInv, TypeOK, MinersOK, Job
  <1>5. \A i \in 1..Len(solutions) : solutions[i].ch \in Nat
    <2>1. \A i \in 1..Len(solutions) : solutions[i] \in Solution
      BY DEF RoundInv, TypeOK, WireOK
    <2> QED
      BY <2>1 DEF Solution
  <1>6. contrib.pc = "record" => contrib.sol.ch \in Nat
    BY DEF RoundInv, QualifiedIsRecorded, TypeOK, ContribOK, ContribType, Option, Solution
  <1>7. bestHash # None => bestHash.ch \in Nat
    BY DEF RoundInv, TypeOK, SharedOK, Option, Solution
  <1>8. sub.pc \in Chosen => sub.best.ch \in Nat
    BY DEF RoundInv, BestChosen, Chosen, TypeOK, SubOK, SubType, Option, Solution
  <1> QED
    BY <1>1, <1>2, <1>3, <1>4, <1>5, <1>6, <1>7, <1>8 DEF Numbers

LEMMA NumbersThen == RoundInv' => Numbers'
  BY NumbersNow, PTL

(* Whatever is not ahead of one challenge is not ahead of a later one. *)
LEMMA AheadOfLater ==
  ASSUME Numbers'
  PROVE  \A m, n \in Nat : m <= n => /\ Issued(m)' => Issued(n)'
                                     /\ Queued(m)' => Queued(n)'
                                     /\ Recorded(m)' => Recorded(n)'
  <1> SUFFICES ASSUME NEW m \in Nat, NEW n \in Nat, m <= n
               PROVE  /\ Issued(m)' => Issued(n)'
                      /\ Queued(m)' => Queued(n)'
                      /\ Recorded(m)' => Recorded(n)'
    OBVIOUS
  <1>1. Issued(m)' => Issued(n)'
    BY DEF Issued, Numbers
  <1>2. Queued(m)' => Queued(n)'
    BY DEF Queued, Numbers
  <1>3. Recorded(m)' => Recorded(n)'
    BY DEF Recorded, Numbers
  <1> QED
    BY <1>1, <1>2, <1>3

(* Missions are issued for the challenge of app_proof. *)
LEMMA IssuedNext ==
  ASSUME TypeOK, Numbers, [Next]_vars
  PROVE  \A n \in Nat : Issued(n) /\ appProof.ch <= n => Issued(n)'
  <1> SUFFICES ASSUME NEW n \in Nat, Issued(n), appProof.ch <= n PROVE Issued(n)'
    OBVIOUS
  <1>a. job \in [Clients -> Job] /\ dist \in DistType /\ missions \subseteq Mission
    BY DEF TypeOK, MinersOK, DistOK, WireOK
  <1>1. ASSUME UNCHANGED <<dist, missions, job>> PROVE Issued(n)'
    BY <1>1 DEF Issued
  <1>2. CASE Miners
    <2> SUFFICES ASSUME NEW c \in Clients,
                        \/ Connect(c) \/ Disconnect(c) \/ Ready(c)
                        \/ \E diff \in Diffs : SubmitSolution(c, diff)
                 PROVE  Issued(n)'
      BY <1>2 DEF Miners
    <2>1. dist' = dist /\ missions' = missions
      BY DEF Connect, Disconnect, Ready, SubmitSolution, wireVars, taskVars
    <2>2. \/ job' = job
          \/ job' = [job EXCEPT ![c] = NoJob]
          \/ \E diff \in Diffs : job' = [job EXCEPT ![c].best = diff]
      BY DEF Connect, Disconnect, Ready, SubmitSolution
    <2>3. \A d \in Clients : job'[d].ch = job[d].ch \/ job'[d].ch = 0
      BY <1>a, <2>2 DEF NoJob, Job
    <2> QED
      BY <2>1, <2>3 DEF Issued
  <1>3. CASE DistSnapshot \/ DistCutoff \/ DistChallenge
    <2>1. UNCHANGED <<missions, job>>
      BY <1>3 DEF DistSnapshot, DistCutoff, DistChallenge, wireVars, clientVars
    <2>2. dist'.pc \in {"grant", "remove"} => dist'.ch = appProof.ch
      <3>1. CASE DistSnapshot
        BY <1>a, <3>1 DEF DistSnapshot, DistType
      <3>2. CASE DistCutoff
        <4>1. dist' = NoDist \/ dist' = [dist EXCEPT !.pc = "challenge", !.proof = NoProof]
          BY <3>2 DEF DistCutoff
        <4>2. /\ NoDist.pc = "idle"
              /\ [dist EXCEPT !.pc = "challenge", !.proof = NoProof].pc = "challenge"
          BY <1>a DEF NoDist, DistType
        <4> QED
          BY <4>1, <4>2
      <3>3. CASE DistChallenge
        BY <1>a, <3>3 DEF DistChallenge, DistType
      <3> QED
        BY <1>3, <3>1, <3>2, <3>3
    <2> QED
      BY <2>1, <2>2 DEF Issued
  <1>4. ASSUME NEW c \in Clients, DistGrant(c) PROVE Issued(n)'
    <2>1. /\ dist.pc = "grant" /\ job' = job
          /\ missions' \subseteq missions \cup {NewMission(c)}
          /\ dist'.ch = dist.ch
      BY <1>a, <1>4 DEF DistGrant, DistType, clientVars
    <2>2. NewMission(c).ch = dist.ch
      BY DEF NewMission
    <2> QED
      BY <2>1, <2>2 DEF Issued
  <1>5. CASE DistRemove
    <2>1. /\ dist.pc = "remove" /\ UNCHANGED <<missions, job>>
          /\ dist'.pc = "grant" => dist'.ch = dist.ch
          /\ dist'.pc # "remove"
      BY <1>a, <1>5 DEF DistRemove, NoDist, DistType, wireVars, clientVars
    <2> QED
      BY <2>1 DEF Issued
  <1>6. ASSUME NEW m \in missions, SendMission(m) PROVE Issued(n)'
    <2>1. /\ dist' = dist
          /\ missions' = (missions \ {m}) \cup {[m EXCEPT !.sent = TRUE]}
          /\ \/ job' = job
             \/ job' = [job EXCEPT ![m.c] = [ch |-> m.ch, range |-> m.range, best |-> 0]]
      BY <1>6 DEF SendMission, taskVars
    <2>2. [m EXCEPT !.sent = TRUE].ch = m.ch
      BY <1>a DEF Mission
    <2>3. \A c \in Clients : job'[c].ch = job[c].ch \/ job'[c].ch = m.ch
      BY <1>a, <2>1 DEF Job
    <2>4. \A k \in missions' : \E o \in missions : k.ch = o.ch
      BY <2>1, <2>2
    <2> QED
      BY <2>1, <2>3, <2>4 DEF Issued
  <1>7. ASSUME NEW m \in missions, RecordRange(m) PROVE Issued(n)'
    BY <1>7 DEF RecordRange, Issued, clientVars, taskVars
  <1>8. CASE Chain \/ Tracking \/ Contributing \/ UNCHANGED vars
    BY <1>1, <1>8
       DEF Chain, Tick, Land, ClaimLands, Tracking, TrackProof, MissNotification,
           Contributing, ContribValidate, ContribRecord, vars, wireVars, clientVars, taskVars
  <1>9. CASE AttendWait \/ AttendSettle \/ Submitting
    BY <1>1, <1>9
       DEF AttendWait, AttendCheck, AttendHear, AttendSettle, Submitting, SubStart,
           SubCollect, SubFreeze, SubAttempt, SubSync, SubConfirmed, SubRetry,
           SubHashInvalid, SubDiscard, SubRefresh, wireVars, clientVars
  <1> QED
    BY <1>2, <1>3, <1>4, <1>5, <1>6, <1>7, <1>8, <1>9
       DEF Next, Distribution, MissionTasks

(* Only a miner adds a solution, for what it works on. *)
LEMMA QueuedNext ==
  ASSUME TypeOK, [Next]_vars
  PROVE  \A n \in Nat :
           /\ Queued(n)
           /\ \A c \in Clients : (\E diff \in Diffs : SubmitSolution(c, diff)) => job[c].ch <= n
           => Queued(n)'
  <1> SUFFICES ASSUME NEW n \in Nat, Queued(n),
                      \A c \in Clients :
                        (\E diff \in Diffs : SubmitSolution(c, diff)) => job[c].ch <= n
               PROVE  Queued(n)'
    OBVIOUS
  <1>a. solutions \in Seq(Solution)
    BY DEF TypeOK, WireOK
  <1>1. ASSUME UNCHANGED solutions PROVE Queued(n)'
    BY <1>1 DEF Queued
  <1>2. ASSUME NEW c \in Clients, NEW diff \in Diffs, SubmitSolution(c, diff)
        PROVE  Queued(n)'
    <2> DEFINE sol == [c |-> c, ch |-> job[c].ch, range |-> job[c].range, diff |-> diff]
    <2>1. solutions' = Append(solutions, sol)
      BY <1>2 DEF SubmitSolution
    <2>2. job[c].ch <= n
      BY <1>2
    <2>3. sol \in Solution /\ sol.ch = job[c].ch
      BY DEF TypeOK, MinersOK, Job, Solution
    <2> HIDE DEF sol
    <2>4. /\ Len(solutions') = Len(solutions) + 1
          /\ \A i \in 1..Len(solutions) : solutions'[i] = solutions[i]
          /\ solutions'[Len(solutions) + 1] = sol
      BY <1>a, <2>1, <2>3
    <2> QED
      BY <1>a, <2>2, <2>3, <2>4 DEF Queued
  <1>3. CASE ContribValidate
    <2>1. solutions # <<>> /\ solutions' = Tail(solutions)
      BY <1>3 DEF ContribValidate
    <2>2. /\ Len(solutions') = Len(solutions) - 1
          /\ \A i \in 1..Len(solutions') : solutions'[i] = solutions[i + 1]
          /\ Len(solutions) \in Nat \ {0}
      BY <1>a, <2>1
    <2> QED
      BY <2>2 DEF Queued
  <1>4. CASE Chain \/ Tracking \/ ContribRecord \/ Distribution \/ MissionTasks
             \/ UNCHANGED vars
    BY <1>1, <1>4
       DEF Chain, Tick, Land, ClaimLands, Tracking, TrackProof, MissNotification,
           ContribRecord, Distribution, DistSnapshot, DistCutoff, DistChallenge, DistGrant,
           DistRemove, MissionTasks, SendMission, RecordRange, vars, wireVars
  <1>5. CASE AttendWait \/ AttendSettle \/ Submitting
    BY <1>1, <1>5
       DEF AttendWait, AttendCheck, AttendHear, AttendSettle, Submitting, SubStart,
           SubCollect, SubFreeze, SubAttempt, SubSync, SubConfirmed, SubRetry,
           SubHashInvalid, SubDiscard, SubRefresh, wireVars
  <1>6. ASSUME NEW c \in Clients, Connect(c) \/ Disconnect(c) \/ Ready(c)
        PROVE  Queued(n)'
    BY <1>1, <1>6 DEF Connect, Disconnect, Ready, wireVars
  <1> QED
    BY <1>2, <1>3, <1>4, <1>5, <1>6 DEF Next, Miners, Contributing

(* A solution is taken up when it is of the challenge of app_proof, and       *)
(* becomes the best, or the best is forgotten.                                *)
LEMMA RecordStep ==
  ASSUME TypeOK, [Next]_vars
  PROVE  \/ UNCHANGED <<contrib, bestHash>>
         \/ /\ ContribValidate /\ UNCHANGED bestHash /\ 1 \in 1..Len(solutions)
            /\ contrib'.pc = "record" => /\ contrib'.sol = solutions[1]
                                         /\ solutions[1].ch = appProof.ch
         \/ /\ ContribRecord /\ contrib.pc = "record" /\ contrib'.pc = "receive"
            /\ bestHash' \in {bestHash, contrib.sol}
         \/ (AttendSettle \/ SubRefresh) /\ contrib' = contrib /\ bestHash' = None
  <1>1. CASE ContribValidate
    <2>1. /\ solutions # <<>> /\ bestHash' = bestHash
          /\ contrib'.pc = "record" => /\ contrib'.sol = Head(solutions)
                                       /\ Head(solutions).ch = appProof.ch
      BY <1>1 DEF ContribValidate, NoContrib, sharedVars, epochVars
    <2>2. Head(solutions) = solutions[1] /\ 1 \in 1..Len(solutions)
      BY <2>1 DEF TypeOK, WireOK
    <2> QED
      BY <1>1, <2>1, <2>2
  <1>2. CASE ContribRecord
    BY <1>2 DEF ContribRecord, NoContrib, epochVars
  <1>3. CASE AttendSettle \/ SubRefresh
    BY <1>3 DEF AttendSettle, SubRefresh, ResetEpoch
  <1>4. CASE Chain \/ Tracking \/ Miners \/ UNCHANGED vars
    BY <1>4
       DEF Chain, Tick, Land, ClaimLands, Tracking, TrackProof, MissNotification, Miners,
           Connect, Disconnect, Ready, SubmitSolution, vars, sharedVars, epochVars, taskVars
  <1>5. CASE Distribution \/ MissionTasks
    BY <1>5
       DEF Distribution, DistSnapshot, DistCutoff, DistChallenge, DistGrant, DistRemove,
           MissionTasks, SendMission, RecordRange, sharedVars, epochVars, taskVars
  <1>6. CASE \/ AttendWait \/ SubStart \/ SubCollect \/ SubFreeze \/ SubAttempt \/ SubSync
             \/ SubConfirmed \/ SubRetry \/ SubHashInvalid \/ SubDiscard
    BY <1>6
       DEF AttendWait, AttendCheck, AttendHear, SubStart, SubCollect, SubFreeze, SubAttempt,
           SubSync, SubConfirmed, SubRetry, SubHashInvalid, SubDiscard, sharedVars, epochVars
  <1> QED
    BY <1>1, <1>2, <1>3, <1>4, <1>5, <1>6 DEF Next, Contributing, Submitting

LEMMA RecordedNext ==
  ASSUME TypeOK, [Next]_vars
  PROVE  \A n \in Nat : Recorded(n) /\ (appProof.ch <= n \/ Queued(n)) => Recorded(n)'
  BY RecordStep DEF Recorded, Queued

(* What a step may do to the chain and to its notifications. *)
LEMMA ChainStep ==
  ASSUME [Next]_vars
  PROVE  \/ UNCHANGED <<landed, age, notifications>>
         \/ Tick /\ age' = age + 1 /\ UNCHANGED <<landed, notifications>>
         \/ \E tx \in inflight : Land(tx)
         \/ ClaimLands
         \/ Tracking /\ UNCHANGED <<landed, age>>
  <1>1. CASE Chain \/ Tracking \/ Miners \/ Contributing \/ UNCHANGED vars
    BY <1>1
       DEF Chain, Tick, Tracking, TrackProof, MissNotification, Miners, Connect, Disconnect,
           Ready, SubmitSolution, Contributing, ContribValidate, ContribRecord, vars,
           chainVars, wireVars
  <1>2. CASE Distribution \/ MissionTasks
    BY <1>2
       DEF Distribution, DistSnapshot, DistCutoff, DistChallenge, DistGrant, DistRemove,
           MissionTasks, SendMission, RecordRange, chainVars, wireVars
  <1>3. CASE AttendWait \/ AttendSettle \/ Submitting
    BY <1>3
       DEF AttendWait, AttendCheck, AttendHear, AttendSettle, Submitting, SubStart,
           SubCollect, SubFreeze, SubAttempt, SubSync, SubConfirmed, SubRetry,
           SubHashInvalid, SubDiscard, SubRefresh, chainVars, wireVars
  <1> QED
    BY <1>1, <1>2, <1>3 DEF Next

(* The chain accepts a solution. *)
LEMMA LandStep ==
  ASSUME OrderInv, NEW tx \in inflight, Land(tx)
  PROVE  /\ landed' = Append(landed, tx) /\ Challenge' = Challenge + 1
         /\ age = 2 /\ age' = 0 /\ notifications = <<>> /\ Len(notifications') = 1
         /\ notifications'[1] = [ch |-> Challenge + 1, bal |-> balance + Reward]
         /\ UNCHANGED <<appProof, dist, missions, job, solutions, contrib, bestHash, sub>>
  <1>1. /\ landed' = Append(landed, tx) /\ age = 2 /\ age' = 0
        /\ notifications' = Append(notifications,
                                   [ch |-> Challenge + 1, bal |-> balance + Reward])
        /\ UNCHANGED <<appProof, dist, missions, job, solutions, contrib, bestHash, sub>>
    BY DEF Land, sharedVars, epochVars, clientVars, taskVars
  <1>2. notifications = <<>>
    BY <1>1 DEF OrderInv, ProofsAreCurrent
  <1>3. Challenge' = Challenge + 1
    BY <1>1 DEF Challenge, OrderInv, RoundInv, TypeOK, ChainOK
  <1> QED
    BY <1>1, <1>2, <1>3

(* Where app_proof goes: it stays, it is brought to the chain's proof, or a   *)
(* submission that failed stores what it had fetched.                         *)
LEMMA ProofStep ==
  ASSUME OrderInv, [Next]_vars
  PROVE  \/ appProof' = appProof
         \/ /\ appProof'.ch = Challenge /\ landed' = landed
            /\ Tracking \/ SubSync \/ AttendHear
         \/ SubRefresh /\ sub.pc = "refresh" /\ appProof' = sub.fetched /\ landed' = landed
  <1>1. CASE TrackProof
    <2>1. /\ notifications # <<>> /\ appProof' = Head(notifications) /\ landed' = landed
      BY <1>1 DEF TrackProof, chainVars
    <2>2. 1 \in 1..Len(notifications) /\ Head(notifications) = notifications[1]
      BY <2>1 DEF OrderInv, RoundInv, TypeOK, WireOK
    <2> QED
      BY <1>1, <2>1, <2>2 DEF OrderInv, ProofsAreCurrent, Tracking
  <1>2. CASE SubSync \/ AttendHear
    BY <1>2 DEF SubSync, AttendHear, Store, OrderInv, OffersAreCurrent, chainVars
  <1>3. CASE SubRefresh
    BY <1>3 DEF SubRefresh, chainVars
  <1>4. CASE Chain \/ MissNotification \/ Miners \/ Contributing \/ UNCHANGED vars
    BY <1>4
       DEF Chain, Tick, Land, ClaimLands, MissNotification, Miners, Connect, Disconnect,
           Ready, SubmitSolution, Contributing, ContribValidate, ContribRecord, vars,
           sharedVars
  <1>5. CASE Distribution \/ MissionTasks
    BY <1>5
       DEF Distribution, DistSnapshot, DistCutoff, DistChallenge, DistGrant, DistRemove,
           MissionTasks, SendMission, RecordRange, sharedVars
  <1>6. CASE \/ AttendCheck \/ AttendSettle \/ SubStart \/ SubCollect \/ SubFreeze
             \/ SubAttempt \/ SubConfirmed \/ SubRetry \/ SubHashInvalid \/ SubDiscard
    BY <1>6
       DEF AttendCheck, AttendSettle, SubStart, SubCollect, SubFreeze, SubAttempt,
           SubConfirmed, SubRetry, SubHashInvalid, SubDiscard, sharedVars
  <1> QED
    BY <1>1, <1>2, <1>3, <1>4, <1>5, <1>6
       DEF Next, Tracking, AttendWait, Submitting

(* What a step may do to the submission's locals. *)
LEMMA SubStep ==
  ASSUME TypeOK, [Next]_vars
  PROVE  \/ sub'.pc = "start"
         \/ SubStart /\ sub'.pc = "collect" /\ sub'.old = appProof
         \/ /\ SubCollect /\ sub'.pc = "freeze" /\ sub'.old = sub.old
            /\ sub'.best = bestHash /\ bestHash # None
         \/ /\ sub'.pc \in SubmittingPcs /\ sub.pc \in Chosen
            /\ sub'.old = sub.old /\ sub'.best = sub.best
         \/ sub' = sub
  <1>a. /\ sub \in SubType /\ NoSub.pc = "start"
        /\ \A n : [NoSub EXCEPT !.waiting = n].pc = "start"
    BY DEF TypeOK, SubOK, NoSub
  <1>b. ASSUME NEW pc \in SubmittingPcs, sub.pc \in Chosen,
               \/ sub' = [sub EXCEPT !.pc = pc]
               \/ sub' = [sub EXCEPT !.pc = pc, !.frozen = contributions]
               \/ sub' = [sub EXCEPT !.pc = pc, !.attempt = @ + 1]
               \/ Fetch(pc) \/ Store(pc)
        PROVE  sub'.pc \in SubmittingPcs /\ sub'.old = sub.old /\ sub'.best = sub.best
    BY <1>a, <1>b DEF SubType, Fetch, Store
  <1>1. CASE SubStart
    <2>1. sub' = [sub EXCEPT !.pc = "collect", !.old = appProof]
      BY <1>1 DEF SubStart
    <2>2. sub'.pc = "collect" /\ sub'.old = appProof
      BY <1>a, <2>1 DEF SubType
    <2> QED
      BY <1>1, <2>2
  <1>2. CASE SubCollect
    <2>1. \/ \E n : sub' = [NoSub EXCEPT !.waiting = n]
          \/ /\ sub' = [sub EXCEPT !.pc = "freeze", !.waiting = 0, !.best = bestHash]
             /\ bestHash # None
      BY <1>2 DEF SubCollect
    <2>2. CASE \E n : sub' = [NoSub EXCEPT !.waiting = n]
      BY <1>a, <2>2
    <2>3. CASE /\ sub' = [sub EXCEPT !.pc = "freeze", !.waiting = 0, !.best = bestHash]
               /\ bestHash # None
      <3>1. sub'.pc = "freeze" /\ sub'.old = sub.old /\ sub'.best = bestHash
        BY <1>a, <2>3 DEF SubType
      <3> QED
        BY <1>2, <2>3, <3>1
    <2> QED
      BY <2>1, <2>2, <2>3
  <1>3. CASE SubFreeze \/ SubRetry
    <2>1. /\ sub.pc \in Chosen
          /\ \/ sub' = [sub EXCEPT !.pc = "attempt", !.frozen = contributions]
             \/ sub' = [sub EXCEPT !.pc = "attempt", !.attempt = @ + 1]
             \/ sub' = [sub EXCEPT !.pc = "discard"]
      BY <1>3 DEF SubFreeze, SubRetry, Chosen, SubmittingPcs
    <2> QED
      BY <1>b, <2>1 DEF SubmittingPcs
  <1>4. CASE SubAttempt \/ SubSync \/ SubConfirmed \/ SubHashInvalid \/ SubDiscard \/ AttendHear
    <2>1. /\ sub.pc \in Chosen
          /\ \E pc \in SubmittingPcs : sub' = [sub EXCEPT !.pc = pc] \/ Fetch(pc) \/ Store(pc)
      BY <1>4 DEF SubAttempt, SendTx, SubSync, SubConfirmed, SubHashInvalid, SubDiscard,
                  AttendHear, Chosen, SubmittingPcs
    <2> QED
      BY <1>b, <2>1
  <1>5. CASE AttendCheck
    <2>1. sub.pc = "attend" /\ sub.pc \in Chosen
      BY <1>5 DEF AttendCheck, Chosen, SubmittingPcs
    <2>2. \/ sub' = NoSub
          \/ sub' = [sub EXCEPT !.pc = "settle"]
          \/ sub' = [sub EXCEPT !.checking = @ + 1]
          \/ Fetch("hear")
      BY <1>5 DEF AttendCheck
    <2>3. CASE sub' = [sub EXCEPT !.checking = @ + 1]
      <3>1. sub'.pc = "attend" /\ sub'.old = sub.old /\ sub'.best = sub.best
        BY <1>a, <2>1, <2>3 DEF SubType
      <3> QED
        BY <2>1, <3>1 DEF SubmittingPcs
    <2> QED
      BY <1>a, <1>b, <2>1, <2>2, <2>3 DEF SubmittingPcs
  <1>6. CASE AttendSettle \/ SubRefresh
    BY <1>a, <1>6 DEF AttendSettle, SubRefresh, ResetEpoch
  <1>7. CASE Chain \/ Tracking \/ Miners \/ Contributing \/ UNCHANGED vars
    BY <1>7
       DEF Chain, Tick, Land, ClaimLands, Tracking, TrackProof, MissNotification, Miners,
           Connect, Disconnect, Ready, SubmitSolution, Contributing, ContribValidate,
           ContribRecord, vars, taskVars
  <1>8. CASE Distribution \/ MissionTasks
    BY <1>8
       DEF Distribution, DistSnapshot, DistCutoff, DistChallenge, DistGrant, DistRemove,
           MissionTasks, SendMission, RecordRange, taskVars
  <1> QED
    BY <1>1, <1>2, <1>3, <1>4, <1>5, <1>6, <1>7, <1>8 DEF Next, AttendWait, Submitting

(* A proof is fetched for one of three reasons, and is the chain's. *)
LEMMA FetchStep ==
  ASSUME TypeOK, [Next]_vars, sub'.pc \in {"sync", "hear", "refresh"}
  PROVE  \/ sub' = sub
         \/ /\ sub'.fetched = ChainProof /\ UNCHANGED <<landed, inflight>>
            /\ \/ SubAttempt /\ sub.best.ch # Challenge /\ sub'.pc = "sync"
               \/ AttendCheck /\ sub.pc = "attend" /\ sub'.pc = "hear"
               \/ SubDiscard /\ sub.pc = "discard" /\ sub'.pc = "refresh"
  <1>a. /\ sub \in SubType /\ NoSub.pc = "start"
        /\ \A n : [NoSub EXCEPT !.waiting = n].pc = "start"
    BY DEF TypeOK, SubOK, NoSub
  <1>b. ASSUME NEW pc \in SubPcs, Fetch(pc)
        PROVE  sub'.pc = pc /\ sub'.fetched = ChainProof
    BY <1>a, <1>b DEF SubType, Fetch
  <1>1. CASE SubAttempt
    <2>1. CASE SendTx
      <3>1. sub'.pc = "confirm"
        BY <1>a, <2>1 DEF SendTx, SubType
      <3> QED
        BY <3>1
    <2>2. CASE ~SendTx
      <3>1. /\ Fetch("sync") /\ sub.best.ch # Challenge /\ UNCHANGED <<landed, inflight>>
        BY <1>1, <2>2 DEF SubAttempt
      <3> QED
        BY <1>1, <1>b, <3>1 DEF SubPcs, SubmittingPcs
    <2> QED
      BY <2>1, <2>2
  <1>2. CASE AttendCheck
    <2>1. /\ sub.pc = "attend" /\ UNCHANGED <<landed, inflight>>
          /\ \/ sub' = NoSub
             \/ sub' = [sub EXCEPT !.pc = "settle"]
             \/ sub' = [sub EXCEPT !.checking = @ + 1]
             \/ Fetch("hear")
      BY <1>2 DEF AttendCheck, chainVars
    <2>2. CASE ~Fetch("hear")
      <3>1. sub'.pc \in {"start", "settle", "attend"}
        BY <1>a, <2>1, <2>2 DEF SubType
      <3> QED
        BY <3>1
    <2> QED
      BY <1>2, <1>b, <2>1, <2>2 DEF SubPcs, SubmittingPcs
  <1>3. CASE SubDiscard
    BY <1>3, <1>b DEF SubDiscard, SubPcs, SubmittingPcs, chainVars
  <1>4. CASE \/ SubStart \/ SubCollect \/ SubFreeze \/ SubSync \/ SubConfirmed \/ SubRetry
             \/ SubHashInvalid \/ SubRefresh \/ AttendHear \/ AttendSettle
    <2>1. \/ sub' = NoSub
          \/ \E n : sub' = [NoSub EXCEPT !.waiting = n]
          \/ sub' = [sub EXCEPT !.pc = "collect", !.old = appProof]
          \/ sub' = [sub EXCEPT !.pc = "freeze", !.waiting = 0, !.best = bestHash]
          \/ sub' = [sub EXCEPT !.pc = "attempt", !.frozen = contributions]
          \/ sub' = [sub EXCEPT !.pc = "attempt", !.attempt = @ + 1]
          \/ \E pc \in {"attend", "discard", "settle"} :
               \/ sub' = [sub EXCEPT !.pc = pc]
               \/ sub' = [sub EXCEPT !.pc = pc, !.fetched = NoProof]
      BY <1>4 DEF SubStart, SubCollect, SubFreeze, SubSync, SubConfirmed, SubRetry,
                  SubHashInvalid, SubRefresh, AttendHear, AttendSettle, Store, ResetEpoch
    <2>2. sub'.pc \in {"start", "collect", "freeze", "attempt", "attend", "discard", "settle"}
      BY <1>a, <2>1 DEF SubType
    <2> QED
      BY <2>2
  <1>5. CASE Chain \/ Tracking \/ Miners \/ Contributing \/ UNCHANGED vars
    BY <1>5
       DEF Chain, Tick, Land, ClaimLands, Tracking, TrackProof, MissNotification, Miners,
           Connect, Disconnect, Ready, SubmitSolution, Contributing, ContribValidate,
           ContribRecord, vars, taskVars
  <1>6. CASE Distribution \/ MissionTasks
    BY <1>6
       DEF Distribution, DistSnapshot, DistCutoff, DistChallenge, DistGrant, DistRemove,
           MissionTasks, SendMission, RecordRange, taskVars
  <1> QED
    BY <1>1, <1>2, <1>3, <1>4, <1>5, <1>6 DEF Next, AttendWait, Submitting

(* While a solution can still land, there is one that the server waits for. *)
LEMMA ChosenHasBest == RoundInv /\ sub.pc \in Chosen => bestHash # None
  <1> SUFFICES ASSUME RoundInv, sub.pc \in Chosen PROVE bestHash # None
    OBVIOUS
  <1>1. CASE sub.pc \in SubmittingPcs
    BY <1>1 DEF RoundInv, PauseIsHeld
  <1>2. CASE sub.pc = "freeze"
    <2>1. /\ sub.best # None /\ contributions[Solver(sub.best)] # None
          /\ Solver(sub.best) \in Pubkeys
      BY <1>2, WalletAssumption
         DEF RoundInv, BestChosen, BestIsContributed, TypeOK, SubOK, SubType, Option, Solver,
             Solution
    <2> QED
      BY <2>1 DEF RoundInv, BestHashIsBest, BestOf, NoContributions
  <1> QED
    BY <1>1, <1>2 DEF Chosen

LEMMA CurrentNext ==
  ASSUME Timely, OrderInv, RoundInv', [Next]_vars, [QuietClaims]_vars
  PROVE  ProofsAreCurrent'
  <1>a. /\ notifications \in Seq(Proof) /\ landed \in Seq(Transaction) /\ age \in 0..2
        /\ Numbers /\ Numbers'
    BY NumbersNow, NumbersThen DEF OrderInv, RoundInv, TypeOK, ChainOK, WireOK
  <1>b. /\ Challenge \in Nat /\ appProof.ch \in Nat /\ appProof'.ch \in Nat
        /\ appProof.ch <= Challenge
    BY <1>a DEF Numbers, OrderInv, ProofsAreCurrent
  <1>1. CASE \E tx \in inflight : Land(tx)
    <2>1. /\ Challenge' = Challenge + 1 /\ age' = 0 /\ Len(notifications') = 1
          /\ notifications'[1] = [ch |-> Challenge + 1, bal |-> balance + Reward]
          /\ appProof' = appProof
      BY <1>1, LandStep
    <2> QED
      BY <1>b, <2>1 DEF ProofsAreCurrent
  <1>2. ASSUME landed' = landed PROVE appProof'.ch <= Challenge' /\ Challenge' = Challenge
    <2>1. Challenge' = Challenge
      BY <1>2 DEF Challenge
    <2>2. sub.pc = "refresh" => sub.fetched.ch <= Challenge
      BY DEF OrderInv, RefreshIsOld
    <2> QED
      BY <1>b, <2>1, <2>2, ProofStep
  <1>3. CASE UNCHANGED <<landed, age, notifications>>
    BY <1>2, <1>3 DEF OrderInv, ProofsAreCurrent
  <1>4. CASE Tick /\ age' = age + 1 /\ UNCHANGED <<landed, notifications>>
    <2>1. age = 1 => notifications = <<>>
      BY <1>4 DEF Tick, OnTime, Delayed, Timely
    <2> QED
      BY <1>a, <1>2, <1>4, <2>1 DEF OrderInv, ProofsAreCurrent
  <1>5. CASE ClaimLands
    <2> DEFINE claimed == [ch |-> Challenge, bal |-> balance - 1]
    <2>1. /\ notifications' = Append(notifications, claimed)
          /\ UNCHANGED <<landed, age>> /\ claims' = claims + 1
      BY <1>5 DEF ClaimLands
    <2>2. age < 2
      BY <2>1 DEF QuietClaims, vars, chainVars, OrderInv, RoundInv, TypeOK, ChainOK
    <2>3. claimed.ch = Challenge /\ claimed \in Proof
      BY <1>b, <1>5 DEF ClaimLands, OrderInv, RoundInv, TypeOK, ChainOK, Proof
    <2> HIDE DEF claimed
    <2>4. /\ Len(notifications') = Len(notifications) + 1
          /\ \A i \in 1..Len(notifications) : notifications'[i] = notifications[i]
          /\ notifications'[Len(notifications) + 1] = claimed
      BY <1>a, <2>1, <2>3
    <2>5. \A i \in 1..Len(notifications') : notifications'[i].ch = Challenge
      BY <1>a, <2>3, <2>4 DEF OrderInv, ProofsAreCurrent
    <2> QED
      BY <1>2, <2>1, <2>2, <2>5 DEF ProofsAreCurrent
  <1>6. CASE Tracking /\ UNCHANGED <<landed, age>>
    <2>1. notifications # <<>> /\ notifications' = Tail(notifications)
      BY <1>6 DEF Tracking, TrackProof, MissNotification
    <2>2. /\ Len(notifications') = Len(notifications) - 1
          /\ \A i \in 1..Len(notifications') : notifications'[i] = notifications[i + 1]
          /\ Len(notifications) \in Nat \ {0}
      BY <1>a, <2>1
    <2>3. \A i \in 1..Len(notifications') : notifications'[i].ch = Challenge
      BY <2>2 DEF OrderInv, ProofsAreCurrent
    <2> QED
      BY <1>2, <1>6, <2>1, <2>3 DEF OrderInv, ProofsAreCurrent
  <1> QED
    BY <1>1, <1>3, <1>4, <1>5, <1>6, ChainStep

(* The challenge of the chain does not go back. *)
LEMMA ChallengeStep ==
  ASSUME OrderInv, [Next]_vars
  PROVE  \/ Challenge' = Challenge
         \/ Challenge' = Challenge + 1 /\ \E tx \in inflight : Land(tx)
  <1>1. CASE landed' = landed
    BY <1>1 DEF Challenge
  <1>2. CASE \E tx \in inflight : Land(tx)
    BY <1>2, LandStep
  <1> QED
    BY <1>1, <1>2, ChainStep DEF ClaimLands

LEMMA AheadNext ==
  ASSUME Timely, OrderInv, RoundInv', ProofsAreCurrent', [Next]_vars, [QuietClaims]_vars
  PROVE  NothingIsAhead'
  <1>a. TypeOK /\ Numbers /\ Numbers'
    BY NumbersNow, NumbersThen DEF OrderInv, RoundInv
  <1>b. /\ appProof.ch \in Nat /\ appProof'.ch \in Nat /\ Challenge \in Nat
        /\ Challenge' \in Nat /\ appProof.ch <= Challenge /\ Challenge <= Challenge'
        /\ sub.fetched.ch \in Nat
    <2>1. /\ appProof.ch \in Nat /\ appProof'.ch \in Nat /\ Challenge \in Nat
          /\ Challenge' \in Nat /\ sub.fetched.ch \in Nat
      BY <1>a DEF Numbers
    <2> QED
      BY <2>1, ChallengeStep DEF OrderInv, ProofsAreCurrent
  <1>c. \A n \in Nat : /\ Issued(n) /\ appProof.ch <= n => Issued(n)'
                       /\ Issued(n) /\ Queued(n) => Queued(n)'
                       /\ Recorded(n) /\ (appProof.ch <= n \/ Queued(n)) => Recorded(n)'
    BY <1>a, IssuedNext, QueuedNext, RecordedNext DEF Issued
  <1>1. Issued(Challenge)' /\ Queued(Challenge)'
    <2>1. \A n \in Nat : n = Challenge => Issued(n)' /\ Queued(n)'
      BY <1>b, <1>c DEF OrderInv, NothingIsAhead
    <2> QED
      BY <1>a, <1>b, <2>1, AheadOfLater
  <1>2. Recorded(appProof.ch)'
    <2>1. \A n \in Nat : n = appProof.ch => Recorded(n)'
      BY <1>b, <1>c DEF OrderInv, NothingIsAhead
    <2>2. CASE appProof.ch <= appProof'.ch
      BY <1>a, <1>b, <2>1, <2>2, AheadOfLater
    <2>3. CASE SubRefresh /\ sub.pc = "refresh" /\ appProof' = sub.fetched
      <3>1. \A n \in Nat : n = sub.fetched.ch => Recorded(n)'
        BY <1>b, <1>c, <2>3 DEF OrderInv, RefreshIsOld
      <3> QED
        BY <1>b, <2>3, <3>1
    <2> QED
      BY <1>b, <2>2, <2>3, ProofStep
  <1>3. notifications' # <<>> => Issued(appProof.ch)' /\ Queued(appProof.ch)'
    <2> SUFFICES ASSUME notifications' # <<>>
                 PROVE  Issued(appProof.ch)' /\ Queued(appProof.ch)'
      OBVIOUS
    <2>1. CASE appProof'.ch = Challenge'
      BY <1>1, <2>1
    <2>2. CASE SubRefresh /\ sub.pc = "refresh" /\ appProof' = sub.fetched
      <3>1. /\ notifications # <<>> /\ Challenge' = Challenge
        BY <2>2 DEF SubRefresh, wireVars, chainVars, Challenge
      <3>2. CASE sub.fetched.ch = Challenge
        BY <2>1, <2>2, <3>1, <3>2
      <3>3. CASE sub.fetched.ch # Challenge
        <4>1. \A n \in Nat : n = sub.fetched.ch => Issued(n)' /\ Queued(n)'
          BY <1>b, <1>c, <2>2, <3>1, <3>3 DEF OrderInv, RefreshIsOld
        <4> QED
          BY <1>b, <2>2, <4>1
      <3> QED
        BY <3>2, <3>3
    <2>3. CASE appProof' = appProof /\ appProof'.ch # Challenge'
      <3>1. Issued(appProof.ch) /\ Queued(appProof.ch)
        <4>1. CASE notifications # <<>>
          BY <4>1 DEF OrderInv, NothingIsAhead
        <4>2. CASE \E tx \in inflight : Land(tx)
          BY <4>2 DEF OrderInv, OffersAreCurrent, NothingIsAhead
        <4>3. CASE ClaimLands
          <5>1. claims' # claims /\ landed' = landed
            BY <4>3 DEF ClaimLands, OrderInv, RoundInv, TypeOK, ChainOK
          <5>2. appProof.ch = Challenge
            BY <5>1 DEF QuietClaims, vars, chainVars
          <5> QED
            BY <2>3, <5>1, <5>2 DEF Challenge
        <4> QED
          BY <4>1, <4>2, <4>3, ChainStep DEF Tracking, TrackProof, MissNotification
      <3>2. \A n \in Nat : n = appProof.ch => Issued(n)' /\ Queued(n)'
        BY <1>b, <1>c, <3>1
      <3> QED
        BY <1>b, <2>3, <3>2
    <2>4. appProof'.ch = Challenge /\ landed' = landed => appProof'.ch = Challenge'
      BY DEF Challenge
    <2> QED
      BY <2>1, <2>2, <2>3, <2>4, ProofStep
  <1> QED
    BY <1>1, <1>2, <1>3 DEF NothingIsAhead

(* What a miner may send while the submission collects, or is about to store  *)
(* what it has fetched.                                                       *)
LEMMA SubmitGuard ==
  ASSUME Timely, NEW c \in Clients, NEW diff \in Diffs, SubmitSolution(c, diff)
  PROVE  /\ sub.pc = "collect" => appProof.ch = sub.old.ch \/ ~(job[c].ch > sub.old.ch)
         /\ sub.pc = "refresh" =>
              appProof.ch = sub.fetched.ch \/ ~(job[c].ch > sub.fetched.ch)
  BY DEF SubmitSolution, IssuedSince, Delayed, Timely

LEMMA RefreshNext ==
  ASSUME Timely, OrderInv, RoundInv', ProofsAreCurrent', NothingIsAhead', [Next]_vars,
         [QuietClaims]_vars
  PROVE  RefreshIsOld'
  <1> SUFFICES ASSUME sub'.pc = "refresh"
               PROVE  /\ sub'.fetched.ch <= Challenge'
                      /\ Queued(sub.fetched.ch)' /\ Recorded(sub.fetched.ch)'
                      /\ appProof'.ch <= sub'.fetched.ch => Issued(sub.fetched.ch)'
                      /\ sub'.fetched.ch # Challenge' /\ notifications' # <<>> =>
                           Len(notifications') = 1 /\ appProof'.ch <= sub'.fetched.ch
    BY DEF RefreshIsOld
  <1>a. TypeOK /\ Numbers /\ Numbers'
    BY NumbersNow, NumbersThen DEF OrderInv, RoundInv
  <1>b. /\ appProof.ch \in Nat /\ appProof'.ch \in Nat /\ Challenge \in Nat
        /\ Challenge' \in Nat /\ appProof.ch <= Challenge /\ Challenge <= Challenge'
        /\ appProof'.ch <= Challenge'
        /\ sub.fetched.ch \in Nat /\ sub'.fetched.ch \in Nat
        /\ \A c \in Clients : job[c].ch \in Nat
    <2>1. /\ appProof.ch \in Nat /\ appProof'.ch \in Nat /\ Challenge \in Nat
          /\ Challenge' \in Nat /\ sub.fetched.ch \in Nat /\ sub'.fetched.ch \in Nat
          /\ \A c \in Clients : job[c].ch \in Nat
      BY <1>a DEF Numbers
    <2> QED
      BY <2>1, ChallengeStep DEF OrderInv, ProofsAreCurrent
  <1>c. Issued(Challenge)' /\ Queued(Challenge)' /\ Recorded(Challenge)'
    BY <1>a, <1>b, AheadOfLater DEF NothingIsAhead
  <1>1. CASE sub'.fetched = ChainProof /\ UNCHANGED landed
    <2>1. sub'.fetched.ch = Challenge' /\ Challenge' = Challenge
      BY <1>1 DEF ChainProof, Challenge
    <2> QED
      BY <1>b, <1>c, <2>1
  <1>2. CASE sub' = sub
    <2> DEFINE f == sub.fetched.ch
    <2>1. /\ f <= Challenge /\ Queued(f) /\ Recorded(f)
          /\ appProof.ch <= f => Issued(f)
          /\ f # Challenge /\ notifications # <<>> =>
               Len(notifications) = 1 /\ appProof.ch <= f
      BY <1>2 DEF OrderInv, RefreshIsOld
    <2>2. \A c \in Clients : (\E diff \in Diffs : SubmitSolution(c, diff)) => job[c].ch <= f
      <3> SUFFICES ASSUME NEW c \in Clients, NEW diff \in Diffs, SubmitSolution(c, diff)
                   PROVE  job[c].ch <= f
        OBVIOUS
      <3>1. appProof.ch = f \/ ~(job[c].ch > f)
        BY <1>2, SubmitGuard
      <3>2. appProof.ch = f => job[c].ch <= f
        BY <1>b, <2>1 DEF Issued
      <3> QED
        BY <1>b, <3>1, <3>2
    <2>3. \A n \in Nat : n = f => Queued(n)' /\ Recorded(n)'
      BY <1>a, <2>1, <2>2, QueuedNext, RecordedNext
    <2>4. \/ appProof' = appProof
          \/ appProof'.ch = Challenge /\ landed' = landed /\ (Tracking \/ SubSync \/ AttendHear)
      <3>1. ~SubRefresh
        <4>1. NoSub.pc # "refresh"
          BY DEF NoSub
        <4> QED
          BY <4>1 DEF SubRefresh, ResetEpoch
      <3> QED
        BY <3>1, ProofStep
    <2>5. appProof'.ch <= f => \A n \in Nat : n = f => Issued(n)'
      <3>1. CASE appProof' = appProof /\ appProof.ch <= f
        BY <1>a, <2>1, <3>1, IssuedNext
      <3>2. CASE appProof'.ch = Challenge /\ landed' = landed /\ appProof'.ch <= f
        <4>1. f = Challenge'
          BY <1>b, <2>1, <3>2 DEF Challenge
        <4> QED
          BY <1>c, <4>1
      <3> QED
        BY <2>4, <3>1, <3>2
    <2>6. f # Challenge' /\ notifications' # <<>> =>
             Len(notifications') = 1 /\ appProof'.ch <= f
      <3>1. CASE \E tx \in inflight : Land(tx)
        BY <1>2, <1>b, <3>1, LandStep DEF OrderInv, OffersAreCurrent
      <3>2. ~ClaimLands
        <4>1. ClaimLands => claims' # claims
          BY DEF ClaimLands, OrderInv, RoundInv, TypeOK, ChainOK
        <4> QED
          BY <1>2, <4>1 DEF QuietClaims, vars, chainVars
      <3>3. CASE Tracking /\ UNCHANGED landed
        <4>1. notifications # <<>> /\ notifications' = Tail(notifications)
          BY <3>3 DEF Tracking, TrackProof, MissNotification
        <4>2. f # Challenge => notifications' = <<>>
          <5>1. ASSUME Len(notifications) = 1 PROVE Tail(notifications) = <<>>
            <6>1. Tail(notifications) \in Seq(Proof) /\ Len(Tail(notifications)) = 0
              BY <4>1, <5>1 DEF OrderInv, RoundInv, TypeOK, WireOK
            <6> QED
              BY <6>1, EmptySeq
          <5> QED
            BY <2>1, <4>1, <5>1
        <4> QED
          BY <3>3, <4>2 DEF Challenge
      <3>4. CASE UNCHANGED <<landed, notifications>>
        <4>1. ~(SubSync \/ AttendHear)
          BY <1>2 DEF SubSync, AttendHear
        <4>2. Tracking => notifications' # notifications
          <5>1. ASSUME notifications # <<>> PROVE Tail(notifications) # notifications
            <6>1. Len(Tail(notifications)) = Len(notifications) - 1 /\ Len(notifications) \in Nat
              BY <5>1 DEF OrderInv, RoundInv, TypeOK, WireOK
            <6> QED
              BY <6>1
          <5> QED
            BY <5>1 DEF Tracking, TrackProof, MissNotification
        <4>3. appProof' = appProof
          BY <2>4, <3>4, <4>1, <4>2
        <4> QED
          BY <2>1, <3>4, <4>3 DEF Challenge
      <3> QED
        BY <3>1, <3>2, <3>3, <3>4, ChainStep
    <2> HIDE DEF f
    <2>7. f \in Nat /\ f = sub.fetched.ch
      BY <1>b DEF f
    <2> QED
      BY <1>2, <1>b, <2>1, <2>3, <2>5, <2>6, <2>7
  <1> QED
    BY <1>1, <1>2, <1>a, FetchStep

LEMMA SolutionsNext ==
  ASSUME Timely, OrderInv, RoundInv', NothingIsAhead', [Next]_vars, [QuietClaims]_vars
  PROVE  SolutionsAreOfRound'
  <1>a. TypeOK /\ Numbers /\ Numbers'
    BY NumbersNow, NumbersThen DEF OrderInv, RoundInv
  <1>b. /\ appProof.ch \in Nat /\ appProof'.ch \in Nat /\ Challenge \in Nat
        /\ appProof.ch <= Challenge
        /\ sub.old.ch \in Nat /\ sub'.old.ch \in Nat
        /\ \A c \in Clients : job[c].ch \in Nat
    BY <1>a DEF Numbers, OrderInv, ProofsAreCurrent
  <1>1. sub'.pc # "start" => sub'.old.ch <= appProof'.ch
    <2>1. SubRefresh => sub'.pc = "start"
      BY DEF SubRefresh, ResetEpoch, NoSub
    <2>2. sub'.pc # "start" => appProof.ch <= appProof'.ch
      BY <1>b, <2>1, ProofStep
    <2> QED
      BY <1>a, <1>b, <2>2, SubStep
         DEF OrderInv, SolutionsAreOfRound, SubCollect, Chosen, SubmittingPcs
  <1>2. sub'.pc = "collect" =>
          /\ Recorded(sub.old.ch)'
          /\ notifications' # <<>> \/ appProof'.ch # sub'.old.ch => Queued(sub.old.ch)'
    <2> SUFFICES ASSUME sub'.pc = "collect"
                 PROVE  /\ Recorded(sub.old.ch)'
                        /\ notifications' # <<>> \/ appProof'.ch # sub'.old.ch =>
                             Queued(sub.old.ch)'
      OBVIOUS
    <2>1. CASE SubStart /\ sub'.old = appProof
      <3>1. appProof' = appProof
        BY <2>1 DEF SubStart, sharedVars
      <3> QED
        BY <2>1, <3>1 DEF NothingIsAhead
    <2>2. CASE sub' = sub
      <3> DEFINE o == sub.old.ch
      <3>1. /\ Recorded(o) /\ o <= appProof.ch
            /\ notifications # <<>> \/ appProof.ch # o => Queued(o)
        BY <2>2 DEF OrderInv, SolutionsAreOfRound
      <3>2. \A n \in Nat : n = o => Recorded(n)'
        BY <1>a, <1>b, <3>1, RecordedNext
      <3>3. ASSUME Queued(o), notifications # <<>> \/ appProof.ch # o
            PROVE  \A n \in Nat : n = o => Queued(n)'
        <4>1. \A c \in Clients :
                (\E diff \in Diffs : SubmitSolution(c, diff)) => job[c].ch <= o
          <5> SUFFICES ASSUME NEW c \in Clients, NEW diff \in Diffs, SubmitSolution(c, diff)
                       PROVE  job[c].ch <= o
            OBVIOUS
          <5>1. appProof.ch = o \/ ~(job[c].ch > o)
            BY <2>2, SubmitGuard
          <5>2. appProof.ch = o => job[c].ch <= o
            BY <3>3 DEF OrderInv, NothingIsAhead, Issued
          <5> QED
            BY <1>b, <5>1, <5>2
        <4> QED
          BY <1>a, <3>3, <4>1, QueuedNext
      <3>4. ASSUME notifications = <<>>, appProof.ch = o,
                   notifications' # <<>> \/ appProof'.ch # o
            PROVE  \A n \in Nat : n = o => Queued(n)'
        <4>1. ~SubRefresh /\ ~SubSync /\ ~AttendHear /\ ~Tracking
          BY <2>2, <3>4
             DEF SubRefresh, SubSync, AttendHear, Tracking, TrackProof, MissNotification
        <4>2. notifications' # <<>>
          BY <3>4, <4>1, ProofStep
        <4>3. o = Challenge /\ UNCHANGED solutions
          <5>1. CASE \E tx \in inflight : Land(tx)
            BY <3>4, <5>1, LandStep DEF OrderInv, OffersAreCurrent
          <5>2. CASE ClaimLands
            <6>1. claims' # claims
              BY <5>2 DEF ClaimLands, OrderInv, RoundInv, TypeOK, ChainOK
            <6> QED
              BY <3>4, <5>2, <6>1 DEF QuietClaims, ClaimLands, vars, chainVars
          <5> QED
            BY <3>4, <4>1, <4>2, <5>1, <5>2, ChainStep
        <4> QED
          BY <4>3 DEF OrderInv, NothingIsAhead, Queued
      <3> HIDE DEF o
      <3>5. o \in Nat /\ o = sub.old.ch
        BY <1>b DEF o
      <3> QED
        BY <2>2, <3>1, <3>2, <3>3, <3>4, <3>5
    <2> QED
      BY <1>a, <2>1, <2>2, SubStep DEF SubmittingPcs
  <1>3. sub'.pc \in Chosen => sub'.best.ch <= sub'.old.ch
    <2>1. CASE /\ SubCollect /\ sub'.pc = "freeze" /\ sub'.old = sub.old
               /\ sub'.best = bestHash /\ bestHash # None
      BY <2>1 DEF SubCollect, OrderInv, SolutionsAreOfRound, Recorded
    <2> QED
      BY <1>a, <2>1, SubStep DEF Chosen, SubmittingPcs, OrderInv, SolutionsAreOfRound
  <1> QED
    BY <1>1, <1>2, <1>3 DEF SolutionsAreOfRound

LEMMA LatestNext ==
  ASSUME OrderInv, RoundInv', [Next]_vars
  PROVE  BestIsLatest'
  <1>a. TypeOK /\ Numbers /\ Numbers'
    BY NumbersNow, NumbersThen DEF OrderInv, RoundInv
  <1>1. bestHash' # None /\ contrib'.pc = "record" => bestHash'.ch <= contrib'.sol.ch
    BY <1>a, RecordStep DEF OrderInv, BestIsLatest, NothingIsAhead, Recorded
  <1>2. ASSUME bestHash' # None, sub'.pc \in Chosen PROVE sub'.best.ch <= bestHash'.ch
    <2>1. CASE SubCollect /\ sub'.best = bestHash /\ bestHash # None
      <3>1. bestHash' = bestHash
        BY <2>1 DEF SubCollect, sharedVars, epochVars
      <3> QED
        BY <1>a, <2>1, <3>1 DEF Numbers
    <2>2. CASE sub.pc \in Chosen /\ sub'.best = sub.best
      <3>1. bestHash # None
        BY <2>2, ChosenHasBest DEF OrderInv
      <3>2. sub.best.ch <= bestHash.ch /\ (contrib.pc = "record" => bestHash.ch <= contrib.sol.ch)
        BY <2>2, <3>1 DEF OrderInv, BestIsLatest
      <3>3. bestHash' \in {bestHash, None} \/ (contrib.pc = "record" /\ bestHash' = contrib.sol)
        BY <1>a, RecordStep
      <3> QED
        BY <1>2, <1>a, <2>2, <3>1, <3>2, <3>3 DEF Numbers
    <2> QED
      BY <1>2, <1>a, <2>1, <2>2, SubStep DEF Chosen, SubmittingPcs
  <1> QED
    BY <1>1, <1>2 DEF BestIsLatest

LEMMA OffersNext ==
  ASSUME OrderInv, RoundInv', [Next]_vars
  PROVE  OffersAreCurrent'
  <1>a. TypeOK /\ Numbers /\ Numbers'
    BY NumbersNow, NumbersThen DEF OrderInv, RoundInv
  <1> DEFINE Now == /\ appProof.ch = Challenge
                    /\ contrib.pc = "record" => contrib.sol.ch = Challenge
                    /\ bestHash # None => bestHash.ch = Challenge
                    /\ sub.pc # "start" => sub.old.ch = Challenge
                    /\ sub.pc \in Chosen => sub.best.ch = Challenge
                    /\ sub.pc = "refresh" => sub.fetched.ch = Challenge
  <1>1. CASE SubAttempt /\ SendTx
    <2>1. /\ sub.pc = "attempt" /\ sub'.pc = "confirm"
          /\ sub'.old = sub.old /\ sub'.best = sub.best
          /\ UNCHANGED <<landed, appProof, contrib, bestHash>>
          /\ inflight' = inflight \/ sub.best.ch = Challenge
      BY <1>1 DEF SubAttempt, SendTx, TypeOK, SubOK, SubType, sharedVars, epochVars
    <2>2. Challenge' = Challenge
      BY <2>1 DEF Challenge
    <2>3. CASE inflight # {}
      BY <2>1, <2>2, <2>3 DEF OrderInv, OffersAreCurrent, Chosen, SubmittingPcs
    <2>4. CASE inflight = {} /\ inflight' # {}
      <3>1. sub.best.ch = Challenge /\ sub.pc \in Chosen
        BY <2>1, <2>4 DEF Chosen, SubmittingPcs
      <3>2. /\ sub.best.ch <= sub.old.ch /\ sub.old.ch <= appProof.ch
            /\ appProof.ch <= Challenge
        BY <2>1, <3>1 DEF OrderInv, SolutionsAreOfRound, ProofsAreCurrent
      <3>3. bestHash # None /\ sub.best.ch <= bestHash.ch /\ bestHash.ch <= appProof.ch
        BY <3>1, ChosenHasBest DEF OrderInv, BestIsLatest, NothingIsAhead, Recorded
      <3>4. contrib.pc = "record" => /\ bestHash.ch <= contrib.sol.ch
                                     /\ contrib.sol.ch <= appProof.ch
        BY <3>3 DEF OrderInv, BestIsLatest, NothingIsAhead, Recorded
      <3>5. /\ appProof.ch = Challenge /\ sub.old.ch = Challenge /\ bestHash.ch = Challenge
            /\ contrib.pc = "record" => contrib.sol.ch = Challenge
        BY <1>a, <3>1, <3>2, <3>3, <3>4 DEF Numbers
      <3> QED
        BY <2>1, <2>2, <3>1, <3>5 DEF OffersAreCurrent
    <2> QED
      BY <2>1, <2>3, <2>4 DEF OffersAreCurrent
  <1>2. CASE \E tx \in inflight : Land(tx)
    <2>1. inflight # {} /\ inflight' = {} /\ sub' = sub
      BY <1>2 DEF Land, taskVars
    <2> QED
      BY <2>1 DEF OrderInv, OffersAreCurrent
  <1>3. CASE ~SendTx /\ ~(\E tx \in inflight : Land(tx))
    <2>1. inflight' = inflight
      <3>1. CASE Tick \/ ClaimLands \/ Tracking \/ Miners \/ Contributing \/ UNCHANGED vars
        BY <3>1
           DEF Tick, ClaimLands, Tracking, TrackProof, MissNotification, Miners, Connect,
               Disconnect, Ready, SubmitSolution, Contributing, ContribValidate,
               ContribRecord, vars, chainVars
      <3>2. CASE Distribution \/ MissionTasks
        BY <3>2
           DEF Distribution, DistSnapshot, DistCutoff, DistChallenge, DistGrant, DistRemove,
               MissionTasks, SendMission, RecordRange, chainVars
      <3>3. CASE AttendWait \/ AttendSettle \/ Submitting
        BY <1>3, <3>3
           DEF AttendWait, AttendCheck, AttendHear, AttendSettle, Submitting, SubStart,
               SubCollect, SubFreeze, SubAttempt, SubSync, SubConfirmed, SubRetry,
               SubHashInvalid, SubDiscard, SubRefresh, chainVars
      <3> QED
        BY <1>3, <3>1, <3>2, <3>3 DEF Next, Chain
    <2>2. Challenge' = Challenge
      BY <1>3, ChallengeStep
    <2>3. ASSUME inflight # {} PROVE Now'
      <3>1. Now
        BY <2>3 DEF OrderInv, OffersAreCurrent
      <3>2. appProof'.ch = Challenge'
        BY <2>2, <3>1, ProofStep
      <3>3. /\ contrib'.pc = "record" => contrib'.sol.ch = Challenge'
            /\ bestHash' # None => bestHash'.ch = Challenge'
        BY <1>a, <2>2, <3>1, RecordStep
      <3>4. sub'.pc # "start" => sub'.old.ch = Challenge'
        BY <1>a, <2>2, <3>1, SubStep DEF SubCollect, Chosen, SubmittingPcs
      <3>5. sub'.pc \in Chosen => sub'.best.ch = Challenge'
        BY <1>a, <2>2, <3>1, SubStep DEF Chosen, SubmittingPcs
      <3>6. sub'.pc = "refresh" => sub'.fetched.ch = Challenge'
        BY <1>a, <2>2, <3>1, FetchStep DEF ChainProof
      <3> QED
        BY <3>2, <3>3, <3>4, <3>5, <3>6
    <2>4. sub'.pc \in {"sync", "hear"} => inflight' = {} /\ sub'.fetched.ch = Challenge'
      <3> SUFFICES ASSUME sub'.pc \in {"sync", "hear"}
                   PROVE  inflight = {} /\ sub'.fetched.ch = Challenge
        BY <2>1, <2>2
      <3>1. CASE sub' = sub
        BY <3>1 DEF OrderInv, OffersAreCurrent
      <3>2. CASE sub'.fetched = ChainProof /\ SubAttempt /\ sub.best.ch # Challenge
        BY <3>2 DEF ChainProof, SubAttempt, OrderInv, OffersAreCurrent, Chosen, SubmittingPcs
      <3>3. CASE sub'.fetched = ChainProof /\ sub.pc = "attend"
        BY <3>3 DEF ChainProof, OrderInv, LandInv, LandingIsOfRound, Sending, Attended
      <3> QED
        BY <1>a, <3>1, <3>2, <3>3, FetchStep
    <2> QED
      BY <2>1, <2>3, <2>4 DEF OffersAreCurrent
  <1>4. SendTx => SubAttempt
    <2>1. ASSUME SendTx PROVE sent' # sent
      BY <2>1 DEF SendTx, TypeOK, ChainOK, OrderInv, RoundInv
    <2>2. ~SubAttempt => sent' = sent
      <3>1. CASE Chain \/ Tracking \/ Miners \/ Contributing \/ UNCHANGED vars
        BY <3>1
           DEF Chain, Tick, Land, ClaimLands, Tracking, TrackProof, MissNotification, Miners,
               Connect, Disconnect, Ready, SubmitSolution, Contributing, ContribValidate,
               ContribRecord, vars, chainVars
      <3>2. CASE Distribution \/ MissionTasks
        BY <3>2
           DEF Distribution, DistSnapshot, DistCutoff, DistChallenge, DistGrant, DistRemove,
               MissionTasks, SendMission, RecordRange, chainVars
      <3>3. CASE AttendWait \/ AttendSettle \/ Submitting
        BY <3>3
           DEF AttendWait, AttendCheck, AttendHear, AttendSettle, Submitting, SubStart,
               SubCollect, SubFreeze, SubSync, SubConfirmed, SubRetry,
               SubHashInvalid, SubDiscard, SubRefresh, chainVars
      <3> QED
        BY <3>1, <3>2, <3>3 DEF Next
    <2> QED
      BY <2>1, <2>2
  <1> QED
    BY <1>1, <1>2, <1>3, <1>4

LEMMA LandNext ==
  ASSUME OrderInv, [Next]_vars
  PROVE  LandInv'
  <1> USE DEF OrderInv
  <1>a. /\ landed \in Seq(Transaction) /\ inflight \subseteq Transaction /\ sent \in Nat
        /\ Challenge = Len(landed) /\ Challenge \in Nat
        /\ mineSuccess \in Seq(MineSuccess)
        /\ sub \in SubType /\ sub.old.ch \in Nat /\ appProof.ch \in Nat
    BY DEF RoundInv, TypeOK, ChainOK, SharedOK, WireOK, SubOK, SubType, Proof, Challenge
  <1>b. /\ \A i \in 1..Len(landed) : landed[i] \in Transaction
        /\ \A i \in 1..Len(mineSuccess) : mineSuccess[i] \in MineSuccess
    BY <1>a
  <1>c. /\ \A tx \in Transaction : tx.id \in Nat
        /\ \A i \in 1..Len(mineSuccess) : mineSuccess[i].ch \in Nat
    BY <1>b DEF Transaction, MineSuccess
  <1>1. ASSUME UNCHANGED <<landed, inflight, sent, mineSuccess>>,
               \/ sub' = sub
               \/ sub'.pc \notin {"confirm", "attend", "hear", "settle"}
               \/ /\ Sending /\ TxLanded /\ sub'.pc \in {"attend", "hear", "settle"}
                  /\ sub'.best = sub.best /\ sub'.old = sub.old
        PROVE  LandInv'
    <2>1. TransactionsAreSent'
      BY <1>1 DEF LandInv, TransactionsAreSent
    <2>2. LandingIsOfRound'
      BY <1>1 DEF LandInv, LandingIsOfRound, Sending, Attended, TxLanded, Challenge
    <2>3. SettledIsPast' /\ SettledIsLanded'
      BY <1>1
         DEF LandInv, LandingIsOfRound, SettledIsPast, SettledIsLanded, Sending, Attended,
             TxLanded, Challenge
    <2> QED
      BY <2>1, <2>2, <2>3 DEF LandInv
  <1>2. ASSUME NEW tx \in inflight, Land(tx) PROVE LandInv'
    <2>1. /\ landed' = Append(landed, tx) /\ inflight' = {} /\ tx.sol.ch = Challenge
          /\ UNCHANGED <<sent, mineSuccess, sub>>
      BY <1>2 DEF Land, taskVars
    <2>2. tx \in Transaction
      BY <1>a
    <2>3. /\ Len(landed') = Len(landed) + 1 /\ landed'[Len(landed) + 1] = tx
          /\ \A i \in 1..Len(landed) : landed'[i] = landed[i]
      BY <1>a, <2>1, <2>2
    <2>4. Challenge' = Challenge + 1
      BY <1>a, <2>3 DEF Challenge
    <2>5. TxLanded' <=> tx.id = sent
      <3>1. landed' # <<>>
        BY <1>a, <2>3
      <3> QED
        BY <2>1, <2>3, <3>1 DEF TxLanded
    <2>6. ~Attended
      BY DEF LandInv, LandingIsOfRound, Sending
    <2>7. TransactionsAreSent'
      BY <1>a, <2>1, <2>3 DEF LandInv, TransactionsAreSent
    <2>8. LandingIsOfRound'
      <3>1. ASSUME Sending, tx.id = sent
            PROVE  tx.sol = sub.best /\ sub.old.ch = Challenge
        <4>1. sub.pc = "confirm"
          BY <2>6, <3>1 DEF Sending
        <4>2. tx.sol = sub.best
          BY <3>1, <4>1 DEF LandInv, TransactionsAreSent
        <4> QED
          BY <4>1, <4>2 DEF OffersAreCurrent
      <3>2. /\ (Sending /\ TxLanded)' => Sending /\ tx.id = sent
            /\ ~Attended'
        BY <2>1, <2>5, <2>6 DEF Sending, Attended
      <3>3. landed'[Challenge'] = tx
        BY <1>a, <2>3, <2>4
      <3> QED
        BY <1>a, <2>1, <2>4, <2>6, <3>1, <3>2, <3>3 DEF LandingIsOfRound
    <2>9. SettledIsPast'
      BY <1>a, <1>c, <2>1, <2>4 DEF LandInv, SettledIsPast, Sending, Attended
    <2>10. SettledIsLanded'
      <3>1. \A i \in 1..Len(mineSuccess) :
               /\ mineSuccess[i].ch < Challenge'
               /\ landed'[mineSuccess[i].ch + 1] = landed[mineSuccess[i].ch + 1]
        BY <1>a, <1>c, <2>3, <2>4 DEF LandInv, SettledIsLanded
      <3> QED
        BY <2>1, <3>1 DEF LandInv, SettledIsLanded
    <2> QED
      BY <2>7, <2>8, <2>9, <2>10 DEF LandInv
  <1>3. CASE SubAttempt
    <2>1. /\ sub.pc = "attempt" /\ UNCHANGED <<landed, mineSuccess>>
          /\ \/ SendTx
             \/ Fetch("sync") /\ UNCHANGED <<inflight, sent>>
      BY <1>3 DEF SubAttempt, wireVars
    <2>2. CASE Fetch("sync") /\ UNCHANGED <<inflight, sent>>
      <3>1. sub'.pc = "sync"
        BY <1>a, <2>2 DEF Fetch, SubType
      <3> QED
        BY <1>1, <2>1, <2>2, <3>1
    <2>3. CASE SendTx
      <3> DEFINE new == [sol |-> sub.best, id |-> sent + 1]
      <3>1. sub'.pc = "confirm" /\ sub'.best = sub.best
        BY <1>a, <2>3 DEF SendTx, SubType
      <3>2. sent' = sent + 1 /\ inflight' \subseteq inflight \cup {new}
        BY <2>3 DEF SendTx
      <3>3. TransactionsAreSent'
        <4>1. \A i \in 1..Len(landed) : landed[i].id \in Nat /\ landed[i].id <= sent
          BY <1>b, <1>c DEF LandInv, TransactionsAreSent
        <4>2. \A tx \in inflight : tx.id \in Nat /\ tx.id <= sent
          BY <1>a, <1>c DEF LandInv, TransactionsAreSent
        <4> QED
          BY <1>a, <2>1, <3>1, <3>2, <4>1, <4>2 DEF TransactionsAreSent
      <3>4. ~TxLanded'
        <4>1. \A i \in 1..Len(landed) : landed[i].id \in Nat /\ landed[i].id <= sent
          BY <1>b, <1>c DEF LandInv, TransactionsAreSent
        <4>2. landed # <<>> => Len(landed) \in 1..Len(landed)
          BY <1>a
        <4> QED
          BY <1>a, <2>1, <3>2, <4>1, <4>2 DEF TxLanded
      <3>5. LandingIsOfRound' /\ SettledIsPast' /\ SettledIsLanded'
        BY <2>1, <3>1, <3>4
           DEF LandInv, LandingIsOfRound, SettledIsPast, SettledIsLanded, Attended, Challenge
      <3> QED
        BY <3>3, <3>5 DEF LandInv
    <2> QED
      BY <2>1, <2>2, <2>3
  <1>4. CASE AttendSettle
    <2> DEFINE msg == [ch |-> sub.old.ch, rewards |-> appProof.bal - sub.old.bal,
                       best |-> sub.best, contributions |-> sub.frozen]
    <2>1. /\ sub.pc = "settle" /\ sub'.pc = "start"
          /\ mineSuccess' = Append(mineSuccess, msg)
          /\ UNCHANGED <<landed, inflight, sent>>
      BY <1>4 DEF AttendSettle, ResetEpoch, NoSub, chainVars
    <2>2. /\ TxLanded /\ Sending
          /\ landed[Challenge].sol = sub.best /\ sub.old.ch = Challenge - 1
      BY <2>1 DEF LandInv, LandingIsOfRound, Sending, Attended
    <2>3. /\ Len(mineSuccess') = Len(mineSuccess) + 1
          /\ mineSuccess'[Len(mineSuccess) + 1] = msg
          /\ \A i \in 1..Len(mineSuccess) : mineSuccess'[i] = mineSuccess[i]
      BY <1>a, <2>1
    <2>4. TransactionsAreSent' /\ LandingIsOfRound'
      BY <2>1 DEF LandInv, TransactionsAreSent, LandingIsOfRound, Sending, Attended
    <2>5. /\ \A i \in 1..Len(mineSuccess) : mineSuccess[i].ch < sub.old.ch
          /\ msg.ch = sub.old.ch /\ msg.best = sub.best /\ sub.old.ch + 1 = Challenge
      BY <1>a, <2>2 DEF LandInv, SettledIsPast
    <2>6. Challenge' = Challenge
      BY <2>1 DEF Challenge
    <2>7. SettledIsPast'
      <3>1. \A i \in 1..Len(mineSuccess') : mineSuccess'[i].ch < Challenge
        <4> HIDE DEF msg
        <4>1. \A i \in 1..Len(mineSuccess') :
                \/ i \in 1..Len(mineSuccess) /\ mineSuccess'[i] = mineSuccess[i]
                \/ mineSuccess'[i] = msg
          BY <1>a, <2>3
        <4>2. Challenge \in Nat /\ sub.old.ch \in Nat
          BY <1>a DEF SubType, Proof
        <4>3. \A i \in 1..Len(mineSuccess) : mineSuccess[i].ch \in Nat
          BY <1>a, <1>c
        <4>4. msg.ch < Challenge
          BY <2>5, <4>2
        <4>5. \A i \in 1..Len(mineSuccess) : mineSuccess[i].ch < Challenge
          BY <2>5, <4>2, <4>3
        <4> QED
          BY <4>1, <4>4, <4>5
      <3> QED
        BY <2>1, <2>6, <3>1 DEF SettledIsPast, Sending, Attended
    <2>8. SettledIsLanded'
      <3> HIDE DEF msg
      <3>1. \A i \in 1..Len(mineSuccess') :
              /\ mineSuccess'[i].ch < Challenge
              /\ landed[mineSuccess'[i].ch + 1].sol = mineSuccess'[i].best
        <4>1. ASSUME NEW i \in 1..Len(mineSuccess)
              PROVE  /\ mineSuccess[i].ch < Challenge
                     /\ landed[mineSuccess[i].ch + 1].sol = mineSuccess[i].best
          BY DEF LandInv, SettledIsLanded
        <4>2. msg.ch < Challenge /\ landed[msg.ch + 1].sol = msg.best
          BY <1>a, <2>2, <2>5
        <4>3. \A i \in 1..Len(mineSuccess') :
                \/ i \in 1..Len(mineSuccess) /\ mineSuccess'[i] = mineSuccess[i]
                \/ mineSuccess'[i] = msg
          BY <1>a, <2>3
        <4> QED
          BY <4>1, <4>2, <4>3
      <3>2. \A i, j \in 1..Len(mineSuccess') : i < j => mineSuccess'[i].ch < mineSuccess'[j].ch
        <4>1. \A i, j \in 1..Len(mineSuccess) : i < j => mineSuccess[i].ch < mineSuccess[j].ch
          BY DEF LandInv, SettledIsLanded
        <4> SUFFICES ASSUME NEW i \in 1..Len(mineSuccess'), NEW j \in 1..Len(mineSuccess'),
                            i < j
                     PROVE  mineSuccess'[i].ch < mineSuccess'[j].ch
          OBVIOUS
        <4>2. i \in 1..Len(mineSuccess) /\ mineSuccess'[i] = mineSuccess[i]
          BY <1>a, <2>3
        <4>3. CASE j \in 1..Len(mineSuccess)
          BY <2>3, <4>1, <4>2, <4>3
        <4>4. CASE j = Len(mineSuccess) + 1
          BY <2>3, <2>5, <4>2, <4>4
        <4> QED
          BY <1>a, <2>3, <4>3, <4>4
      <3> QED
        BY <2>1, <2>6, <3>1, <3>2 DEF SettledIsLanded
    <2> QED
      BY <2>4, <2>7, <2>8 DEF LandInv
  <1>5. CASE SubConfirmed
    <2>1. /\ UNCHANGED <<landed, inflight, sent, mineSuccess>> /\ TxLanded
          /\ sub.pc = "confirm" /\ sub' = [sub EXCEPT !.pc = "attend"]
      BY <1>5 DEF SubConfirmed, chainVars, wireVars
    <2>2. sub'.pc = "attend" /\ sub'.best = sub.best /\ sub'.old = sub.old
      BY <1>a, <2>1 DEF SubType
    <2> QED
      BY <1>1, <2>1, <2>2 DEF Sending
  <1>6. CASE AttendCheck \/ AttendHear
    <2>1. /\ UNCHANGED <<landed, inflight, sent, mineSuccess>> /\ Attended
          /\ \/ sub' = NoSub
             \/ sub' = [sub EXCEPT !.pc = "settle"]
             \/ sub' = [sub EXCEPT !.checking = @ + 1]
             \/ Fetch("hear") \/ Store("settle")
      BY <1>6 DEF AttendCheck, AttendHear, Attended, chainVars, wireVars
    <2>2. \/ sub'.pc = "start"
          \/ /\ sub'.pc \in {"attend", "hear", "settle"}
             /\ sub'.best = sub.best /\ sub'.old = sub.old
      <3>1. CASE sub' = [sub EXCEPT !.checking = @ + 1]
        BY <1>a, <2>1, <3>1 DEF SubType, Attended
      <3>2. CASE sub' = NoSub
        BY <3>2 DEF NoSub
      <3>3. CASE sub' = [sub EXCEPT !.pc = "settle"]
        BY <1>a, <3>3 DEF SubType
      <3>4. CASE Fetch("hear")
        BY <1>a, <3>4 DEF SubType, Fetch
      <3>5. CASE Store("settle")
        BY <1>a, <3>5 DEF SubType, Store
      <3> QED
        BY <2>1, <3>1, <3>2, <3>3, <3>4, <3>5
    <2>3. Sending /\ TxLanded
      BY <2>1 DEF LandInv, LandingIsOfRound, Sending
    <2> QED
      BY <1>1, <2>1, <2>2, <2>3
  <1>7. CASE SubStart \/ SubCollect \/ SubFreeze \/ SubSync \/ SubRetry \/ SubHashInvalid
             \/ SubDiscard \/ SubRefresh
    <2>1. UNCHANGED <<landed, inflight, sent, mineSuccess>>
      BY <1>7 DEF SubStart, SubCollect, SubFreeze, SubSync, SubRetry, SubHashInvalid,
                  SubDiscard, SubRefresh, chainVars, wireVars
    <2>2. \/ sub' = [sub EXCEPT !.pc = "collect", !.old = appProof]
          \/ \E n : sub' = [NoSub EXCEPT !.waiting = n]
          \/ sub' = [sub EXCEPT !.pc = "freeze", !.waiting = 0, !.best = bestHash]
          \/ sub' = [sub EXCEPT !.pc = "attempt", !.frozen = contributions]
          \/ sub' = [sub EXCEPT !.pc = "attempt", !.attempt = @ + 1]
          \/ sub' = [sub EXCEPT !.pc = "discard"]
          \/ Store("discard") \/ Fetch("refresh")
          \/ sub' = NoSub
      BY <1>7 DEF SubStart, SubCollect, SubFreeze, SubSync, SubRetry, SubHashInvalid,
                  SubDiscard, SubRefresh, ResetEpoch
    <2>3. NoSub.pc = "start" /\ \A n : [NoSub EXCEPT !.waiting = n].pc = "start"
      BY DEF NoSub
    <2>4. sub'.pc \in {"start", "collect", "freeze", "attempt", "discard", "refresh"}
      BY <1>a, <2>2, <2>3 DEF SubType, Store, Fetch
    <2> QED
      BY <1>1, <2>1, <2>4
  <1>8. CASE Tick \/ ClaimLands \/ Tracking \/ Miners \/ Distribution \/ MissionTasks
             \/ Contributing \/ UNCHANGED vars
    <2>1. CASE Tick \/ ClaimLands \/ Tracking \/ UNCHANGED vars
      BY <1>1, <2>1 DEF Tick, ClaimLands, Tracking, TrackProof, MissNotification, vars,
                        chainVars, wireVars, taskVars
    <2>2. CASE Miners \/ Contributing
      BY <1>1, <2>2 DEF Miners, Connect, Disconnect, Ready, SubmitSolution, Contributing,
                        ContribValidate, ContribRecord, chainVars, wireVars, taskVars
    <2>3. CASE Distribution \/ MissionTasks
      BY <1>1, <2>3 DEF Distribution, DistSnapshot, DistCutoff, DistChallenge, DistGrant,
                        DistRemove, MissionTasks, SendMission, RecordRange, chainVars, wireVars, taskVars
    <2> QED
      BY <1>8, <2>1, <2>2, <2>3
  <1> QED
    BY <1>2, <1>3, <1>4, <1>5, <1>6, <1>7, <1>8
       DEF Next, Chain, AttendWait, Submitting

LEMMA HeardNext ==
  ASSUME OrderInv, [Next]_vars
  PROVE  SettlingIsHeard'
  <1> USE DEF OrderInv
  <1>a. /\ appProof.ch \in Nat /\ sub.old.ch \in Nat /\ Challenge \in Nat
        /\ sub \in SubType
    BY DEF RoundInv, TypeOK, ChainOK, SharedOK, SubOK, SubType, Proof, Challenge
  <1>1. ASSUME UNCHANGED <<landed, sub>> PROVE SettlingIsHeard'
    <2>1. Challenge' = Challenge
      BY <1>1 DEF Challenge
    <2>2. sub.pc # "refresh" => appProof' = appProof \/ appProof'.ch = Challenge
      BY ProofStep
    <2> QED
      BY <1>1, <2>1, <2>2 DEF SettlingIsHeard
  <1>3. ASSUME NEW tx \in inflight, Land(tx) PROVE SettlingIsHeard'
    BY <1>3
       DEF Land, LandInv, LandingIsOfRound, Sending, Attended, SettlingIsHeard, taskVars
  <1>4. CASE AttendCheck
    <2>1. /\ Challenge' = Challenge /\ sub.pc = "attend" /\ sub.old.ch = Challenge - 1
          /\ sub.old.ch <= appProof.ch /\ appProof.ch <= Challenge
      BY <1>4 DEF AttendCheck, chainVars, LandInv, LandingIsOfRound, Sending, Attended,
                  Challenge, SolutionsAreOfRound, ProofsAreCurrent
    <2>2. \/ sub' = NoSub
          \/ sub' = [sub EXCEPT !.checking = @ + 1]
          \/ Fetch("hear")
          \/ appProof.ch # sub.old.ch /\ appProof' = appProof
      BY <1>4 DEF AttendCheck, sharedVars
    <2>3. NoSub.pc # "settle" /\ [sub EXCEPT !.checking = @ + 1].pc = "attend"
      BY <1>a, <2>1 DEF NoSub, SubType
    <2>4. CASE sub' = NoSub \/ sub' = [sub EXCEPT !.checking = @ + 1]
      BY <2>3, <2>4 DEF SettlingIsHeard
    <2>5. CASE appProof.ch # sub.old.ch /\ appProof' = appProof
      BY <1>a, <2>1, <2>5 DEF SettlingIsHeard
    <2>6. CASE Fetch("hear")
      <3>1. sub'.pc = "hear"
        BY <1>a, <2>6 DEF Fetch, SubType
      <3> QED
        BY <3>1 DEF SettlingIsHeard
    <2> QED
      BY <2>2, <2>4, <2>5, <2>6
  <1>7. CASE AttendHear
    <2>1. appProof'.ch = Challenge /\ Challenge' = Challenge
      BY <1>7 DEF AttendHear, Store, OffersAreCurrent, Challenge, chainVars
    <2> QED
      BY <2>1 DEF SettlingIsHeard
  <1>5. CASE AttendSettle \/ Submitting
    <2>1. \/ sub' = [sub EXCEPT !.pc = "collect", !.old = appProof]
          \/ \E n : sub' = [NoSub EXCEPT !.waiting = n]
          \/ sub' = [sub EXCEPT !.pc = "freeze", !.waiting = 0, !.best = bestHash]
          \/ sub' = [sub EXCEPT !.pc = "attempt", !.frozen = contributions]
          \/ sub' = [sub EXCEPT !.pc = "attempt", !.attempt = @ + 1]
          \/ \E pc \in {"confirm", "attend", "discard"} : sub' = [sub EXCEPT !.pc = pc]
          \/ \E pc \in {"sync", "discard", "refresh"} : Fetch(pc) \/ Store(pc)
          \/ sub' = NoSub
      BY <1>5 DEF AttendSettle, Submitting, SubStart, SubCollect, SubFreeze, SubAttempt,
                  SendTx, SubSync, SubConfirmed, SubRetry, SubHashInvalid, SubDiscard,
                  SubRefresh, ResetEpoch
    <2>2. NoSub.pc = "start" /\ \A n : [NoSub EXCEPT !.waiting = n].pc = "start"
      BY DEF NoSub
    <2>3. sub'.pc # "settle"
      BY <1>a, <2>1, <2>2 DEF SubType, Fetch, Store
    <2> QED
      BY <2>3 DEF SettlingIsHeard
  <1>6. CASE Tick \/ ClaimLands \/ Tracking \/ Miners \/ Distribution \/ MissionTasks
             \/ Contributing \/ UNCHANGED vars
    BY <1>1, <1>6
       DEF Tick, ClaimLands, Tracking, TrackProof, MissNotification, Miners, Connect,
           Disconnect, Ready, SubmitSolution, Distribution, DistSnapshot, DistCutoff,
           DistChallenge, DistGrant, DistRemove, MissionTasks, SendMission, RecordRange, Contributing,
           ContribValidate, ContribRecord, vars, chainVars, taskVars
  <1> QED
    BY <1>3, <1>4, <1>5, <1>6, <1>7 DEF Next, Chain, AttendWait

LEMMA WorthStep ==
  \A n \in Nat : Worth(n) \in Nat /\ Worth(n + 1) = Worth(n) + Reward
  <1>1. Reward \in Nat /\ MaxClaims \in Nat
    BY RewardAssumption, BoundsAssumption
  <1>2. \A r, n \in Nat : r * n \in Nat /\ r * (n + 1) = r * n + r
    OBVIOUS
  <1> QED
    BY <1>1, <1>2 DEF Worth

LEMMA ExactNext ==
  ASSUME OrderInv, [Next]_vars
  PROVE  BalancesAreExact'
  <1> USE DEF OrderInv
  <1>a. /\ notifications \in Seq(Proof) /\ landed \in Seq(Transaction)
        /\ mineSuccess \in Seq(MineSuccess)
        /\ Challenge = Len(landed) /\ Challenge \in Nat
        /\ claims \in Nat /\ balance \in Nat
        /\ Reward \in Nat
    BY RewardAssumption
       DEF RoundInv, TypeOK, ChainOK, SharedOK, WireOK, Challenge
  <1>b. sub'.pc # "start" => \/ sub'.old = appProof
                             \/ sub.pc # "start" /\ sub'.old = sub.old
    BY SubStep DEF RoundInv, SubCollect, Chosen, SubmittingPcs
  <1>c. sub'.pc # "start" /\ claims = 0 => sub'.old.bal = Worth(sub'.old.ch)
    BY <1>b DEF BalancesAreExact
  <1>d. claims = 0 /\ sub'.pc \in {"sync", "hear", "refresh"} =>
          sub'.fetched.bal = Worth(sub'.fetched.ch)
    <2>1. claims = 0 /\ sub'.fetched = ChainProof => sub'.fetched.bal = Worth(sub'.fetched.ch)
      BY DEF ChainProof, BalancesAreExact
    <2> QED
      BY <2>1, FetchStep DEF BalancesAreExact, RoundInv
  <1>1. ASSUME UNCHANGED <<landed, balance, claims, notifications, mineSuccess>>,
               \/ appProof' = appProof
               \/ sub.pc \in {"sync", "hear", "refresh"} /\ appProof' = sub.fetched
        PROVE  BalancesAreExact'
    <2>1. Challenge' = Challenge
      BY <1>1 DEF Challenge
    <2>2. claims = 0 => appProof'.bal = Worth(appProof'.ch)
      BY <1>1 DEF BalancesAreExact
    <2> QED
      BY <1>c, <1>d, <1>1, <2>1, <2>2 DEF BalancesAreExact, RewardsAreExact, Worth
  <1>2. ASSUME NEW tx \in inflight, Land(tx) PROVE BalancesAreExact'
    <2> DEFINE paid == [ch |-> Challenge + 1, bal |-> balance + Reward]
    <2>1. /\ landed' = Append(landed, tx) /\ balance' = balance + Reward
          /\ notifications' = Append(notifications, paid)
          /\ UNCHANGED <<claims, appProof, mineSuccess>>
      BY <1>2 DEF Land, sharedVars
    <2>2. Challenge' = Challenge + 1
      BY <1>a, <2>1 DEF Challenge, RoundInv, TypeOK, ChainOK
    <2>3. claims = 0 => /\ balance' = Worth(Challenge + 1)
                        /\ paid.bal = Worth(paid.ch)
      BY <1>a, <2>1, WorthStep DEF BalancesAreExact
    <2>4. \A i \in 1..Len(notifications') :
            \/ i \in 1..Len(notifications) /\ notifications'[i] = notifications[i]
            \/ notifications'[i] = paid
      <3>1. paid \in Proof
        BY <1>a DEF Proof
      <3> HIDE DEF paid
      <3> QED
        BY <1>a, <2>1, <3>1
    <2>5. claims = 0 =>
            \A i \in 1..Len(notifications') : notifications'[i].bal = Worth(notifications'[i].ch)
      <3> HIDE DEF paid
      <3> QED
        BY <2>3, <2>4 DEF BalancesAreExact
    <2> QED
      BY <1>c, <1>d, <2>1, <2>2, <2>3, <2>5 DEF BalancesAreExact, RewardsAreExact, Worth
  <1>3. CASE ClaimLands
    <2>1. claims' = claims + 1
      BY <1>3 DEF ClaimLands
    <2>2. claims' # 0
      BY <1>a, <2>1
    <2> QED
      BY <2>2 DEF BalancesAreExact
  <1>4. CASE Tracking
    <2>1. /\ notifications # <<>> /\ notifications' = Tail(notifications)
          /\ UNCHANGED <<landed, balance, claims, mineSuccess>>
          /\ appProof' \in {appProof, Head(notifications)}
      BY <1>4 DEF Tracking, TrackProof, MissNotification, chainVars, sharedVars
    <2>2. /\ Len(notifications') = Len(notifications) - 1
          /\ \A i \in 1..Len(notifications') : notifications'[i] = notifications[i + 1]
          /\ Len(notifications) \in Nat \ {0}
          /\ Head(notifications) = notifications[1]
      BY <1>a, <2>1
    <2>3. claims = 0 =>
            /\ \A i \in 1..Len(notifications') :
                 notifications'[i].bal = Worth(notifications'[i].ch)
            /\ appProof'.bal = Worth(appProof'.ch)
      BY <2>1, <2>2 DEF BalancesAreExact
    <2> QED
      BY <1>c, <1>d, <2>1, <2>3 DEF BalancesAreExact, RewardsAreExact, Worth, Challenge
  <1>5. CASE AttendSettle
    <2> DEFINE msg == [ch |-> sub.old.ch, rewards |-> appProof.bal - sub.old.bal,
                       best |-> sub.best, contributions |-> sub.frozen]
    <2>1. /\ sub.pc = "settle"
          /\ mineSuccess' = Append(mineSuccess, msg)
          /\ UNCHANGED <<landed, balance, claims, notifications, appProof>>
      BY <1>5 DEF AttendSettle, chainVars
    <2>2. appProof.ch = sub.old.ch + 1 /\ sub.old.ch \in Nat
      <3>1. appProof.ch = Challenge /\ sub.old.ch = Challenge - 1
        BY <2>1 DEF LandInv, LandingIsOfRound, Sending, Attended, SettlingIsHeard
      <3> QED
        BY <1>a, <3>1 DEF RoundInv, TypeOK, SubOK, SubType, Proof
    <2>3. claims = 0 => msg.rewards = Reward
      <3> SUFFICES ASSUME claims = 0 PROVE appProof.bal - sub.old.bal = Reward
        OBVIOUS
      <3>1. appProof.bal = Worth(sub.old.ch + 1) /\ sub.old.bal = Worth(sub.old.ch)
        BY <2>1, <2>2 DEF BalancesAreExact
      <3> QED
        BY <1>a, <2>2, <3>1, WorthStep
    <2>4. \A i \in 1..Len(mineSuccess') :
            \/ i \in 1..Len(mineSuccess) /\ mineSuccess'[i] = mineSuccess[i]
            \/ mineSuccess'[i] = msg
      <3> HIDE DEF msg
      <3> QED
        BY <1>a, <2>1
    <2>5. claims = 0 => RewardsAreExact'
      <3> HIDE DEF msg
      <3> QED
        BY <2>3, <2>4 DEF BalancesAreExact, RewardsAreExact
    <2> QED
      BY <1>c, <1>d, <2>1, <2>5 DEF BalancesAreExact, Worth, Challenge
  <1>6. CASE Tick \/ Miners \/ Distribution \/ MissionTasks \/ Contributing
             \/ AttendWait \/ Submitting \/ UNCHANGED vars
    <2>1. CASE Tick \/ Miners \/ Contributing \/ UNCHANGED vars
      BY <1>1, <2>1 DEF Tick, Miners, Connect, Disconnect, Ready, SubmitSolution, Contributing,
                        ContribValidate, ContribRecord, vars, chainVars, sharedVars, wireVars
    <2>2. CASE Distribution \/ MissionTasks
      BY <1>1, <2>2 DEF Distribution, DistSnapshot, DistCutoff, DistChallenge, DistGrant,
                        DistRemove, MissionTasks, SendMission, RecordRange, chainVars,
                        sharedVars, wireVars
    <2>3. CASE AttendWait \/ Submitting
      BY <1>1, <2>3 DEF AttendWait, AttendCheck, AttendHear, Submitting, SubStart, SubCollect,
                        SubFreeze, SubAttempt, SendTx, SubSync, SubConfirmed, SubRetry,
                        SubHashInvalid, SubDiscard, SubRefresh, Store, chainVars, sharedVars,
                        wireVars
    <2> QED
      BY <1>6, <2>1, <2>2, <2>3
  <1> QED
    BY <1>2, <1>3, <1>4, <1>5, <1>6 DEF Next, Chain

LEMMA OrderNext ==
  ASSUME Timely, OrderInv, [Next]_vars, [QuietClaims]_vars
  PROVE  OrderInv'
  <1>1. RoundInv'
    BY RoundNext DEF OrderInv
  <1>2. ProofsAreCurrent'
    BY <1>1, CurrentNext
  <1>3. NothingIsAhead'
    BY <1>1, <1>2, AheadNext
  <1>4. RefreshIsOld'
    BY <1>1, <1>2, <1>3, RefreshNext
  <1>5. SolutionsAreOfRound'
    BY <1>1, <1>3, SolutionsNext
  <1>6. BestIsLatest' /\ OffersAreCurrent'
    BY <1>1, LatestNext, OffersNext
  <1>7. LandInv' /\ SettlingIsHeard' /\ BalancesAreExact'
    BY LandNext, HeardNext, ExactNext
  <1> QED
    BY <1>1, <1>2, <1>3, <1>4, <1>5, <1>6, <1>7 DEF OrderInv

LEMMA OrderInvariant ==
  ASSUME Timely
  PROVE  Spec /\ [][QuietClaims]_vars => []OrderInv
  <1>1. OrderInv /\ [Next]_vars /\ [QuietClaims]_vars => OrderInv'
    BY OrderNext
  <1> QED
    BY <1>1, OrderInit, PTL DEF Spec

(* A round is settled only for a solution that the chain accepted, for the    *)
(* very challenge it solved, and once: whatever errors the sender got and     *)
(* whichever attempt of whichever submission landed, for any number of miners *)
(* and retries.                                                               *)
THEOREM SettledCorrect ==
  ASSUME Timely
  PROVE  Spec /\ [][QuietClaims]_vars => []SettledIsLanded
  <1>1. OrderInv => SettledIsLanded
    BY DEF OrderInv, LandInv
  <1> QED
    BY <1>1, OrderInvariant, PTL

(* Until a claim is confirmed, the difference of the two balances the         *)
(* attender reads, at different times and from different sources, is what the *)
(* chain paid for that one solution.                                          *)
THEOREM RewardsCorrect ==
  ASSUME Timely
  PROVE  Spec /\ [][QuietClaims]_vars => [](claims = 0 => RewardsAreExact)
  <1>1. OrderInv => (claims = 0 => RewardsAreExact)
    BY DEF OrderInv, BalancesAreExact
  <1> QED
    BY <1>1, OrderInvariant, PTL

-----------------------------------------------------------------------------
(* MiningRound implements RoundLife: from the invariants of above, each step  *)
(* of a task, a miner or the chain is a step of RoundLife or leaves what      *)
(* RoundLife sees as it is.                                                   *)

LandedAreOfChallenge == \A i \in 1..Len(landed) : landed[i].sol.ch = i - 1
OfferedAreOfChallenge == \A tx \in inflight : tx.sol.ch = Challenge

OfferInv == OrderInv /\ LandedAreOfChallenge /\ OfferedAreOfChallenge /\ claims = 0

(* What RoundLife sees is in these variables. *)
Seen == <<landed, inflight, sub, mineSuccess>>

(* A step of these tasks changes nothing that RoundLife sees. *)
Unseen ==
  \/ Tick \/ ClaimLands \/ Tracking \/ Miners \/ Distribution \/ MissionTasks \/ Contributing
  \/ UNCHANGED vars

LEMMA UnseenSteps == Unseen => UNCHANGED Seen
  <1>1. CASE Tick \/ ClaimLands \/ Tracking \/ UNCHANGED vars
    BY <1>1 DEF Tick, ClaimLands, Tracking, TrackProof, MissNotification, Seen, vars, chainVars,
                wireVars, taskVars
  <1>2. CASE Miners \/ Contributing
    BY <1>2 DEF Miners, Connect, Disconnect, Ready, SubmitSolution, Contributing,
                ContribValidate, ContribRecord, Seen, chainVars, wireVars, taskVars
  <1>3. CASE Distribution \/ MissionTasks
    BY <1>3 DEF Distribution, DistSnapshot, DistCutoff, DistChallenge, DistGrant, DistRemove,
                MissionTasks, SendMission, RecordRange, Seen, chainVars, wireVars, taskVars
  <1> QED
    BY <1>1, <1>2, <1>3 DEF Unseen

LEMMA LandedNext ==
  ASSUME TypeOK, LandedAreOfChallenge, OfferedAreOfChallenge, [Next]_vars
  PROVE  LandedAreOfChallenge' /\ OfferedAreOfChallenge'
  <1>a. landed \in Seq(Transaction) /\ Len(landed) \in Nat
    BY DEF TypeOK, ChainOK
  <1>1. ASSUME UNCHANGED <<landed, inflight>>
        PROVE  LandedAreOfChallenge' /\ OfferedAreOfChallenge'
    BY <1>1 DEF LandedAreOfChallenge, OfferedAreOfChallenge, Challenge
  <1>2. ASSUME NEW tx \in inflight, Land(tx)
        PROVE  LandedAreOfChallenge' /\ OfferedAreOfChallenge'
    <2>1. landed' = Append(landed, tx) /\ inflight' = {} /\ tx.sol.ch = Len(landed)
      BY <1>2 DEF Land, Challenge
    <2>2. /\ Len(landed') = Len(landed) + 1 /\ landed'[Len(landed) + 1] = tx
          /\ \A i \in 1..Len(landed) : landed'[i] = landed[i]
      BY <1>a, <2>1
    <2>3. ASSUME NEW i \in 1..(Len(landed) + 1) PROVE landed'[i].sol.ch = i - 1
      BY <1>a, <2>1, <2>2 DEF LandedAreOfChallenge
    <2> QED
      BY <2>1, <2>2, <2>3 DEF LandedAreOfChallenge, OfferedAreOfChallenge
  <1>3. CASE SubAttempt
    <2>1. /\ landed' = landed
          /\ \/ inflight' = inflight
             \/ /\ sub.best.ch = Challenge
                /\ inflight' = inflight \cup {[sol |-> sub.best, id |-> sent + 1]}
      BY <1>3 DEF SubAttempt, SendTx
    <2> QED
      BY <2>1 DEF LandedAreOfChallenge, OfferedAreOfChallenge, Challenge
  <1>4. CASE \/ AttendWait \/ AttendSettle \/ SubStart \/ SubCollect \/ SubFreeze \/ SubSync
             \/ SubConfirmed \/ SubRetry \/ SubHashInvalid \/ SubDiscard \/ SubRefresh
    BY <1>1, <1>4 DEF AttendWait, AttendCheck, AttendHear, AttendSettle, SubStart, SubCollect,
                      SubFreeze, SubSync, SubConfirmed, SubRetry, SubHashInvalid, SubDiscard,
                      SubRefresh, chainVars
  <1>5. CASE Unseen
    BY <1>1, <1>5, UnseenSteps DEF Seen
  <1> QED
    BY <1>2, <1>3, <1>4, <1>5 DEF Next, Chain, Submitting, Unseen

LEMMA OfferInit == Init => OfferInv /\ Life!Init
  <1> SUFFICES ASSUME Init PROVE OfferInv /\ Life!Init
    OBVIOUS
  <1>1. OfferInv
    BY OrderInit DEF Init, OfferInv, LandedAreOfChallenge, OfferedAreOfChallenge
  <1>2. Accepted = <<>> /\ Offered = {} /\ mineSuccess = <<>>
    BY DEF Init, Accepted, Offered
  <1>3. BeingSubmitted = {}
    BY DEF Init, NoSub, BeingSubmitted, SubmittingPcs
  <1> QED
    BY <1>1, <1>2, <1>3 DEF Life!Init

(* A step that RoundLife does not see. *)
LEMMA LifeStays ==
  ASSUME UNCHANGED <<landed, inflight, mineSuccess>>, BeingSubmitted' = BeingSubmitted
  PROVE  UNCHANGED Life!vars
  BY DEF Life!vars, Accepted, Offered

(* The submission of a task that is at pc, and how it is kept. *)
LEMMA SubmissionKept ==
  ASSUME TypeOK, sub.pc \in SubmittingPcs,
         \/ \E pc \in SubmittingPcs : sub' = [sub EXCEPT !.pc = pc]
         \/ sub' = [sub EXCEPT !.pc = "attempt", !.attempt = @ + 1]
         \/ sub' = [sub EXCEPT !.checking = @ + 1]
         \/ \E pc \in SubmittingPcs : Fetch(pc) \/ Store(pc)
  PROVE  BeingSubmitted' = BeingSubmitted
  <1>1. sub \in SubType
    BY DEF TypeOK, SubOK
  <1>2. sub'.pc \in SubmittingPcs /\ sub'.best = sub.best /\ sub'.frozen = sub.frozen
    <2>1. CASE \E pc \in SubmittingPcs : sub' = [sub EXCEPT !.pc = pc]
      BY <1>1, <2>1 DEF SubType
    <2>2. CASE sub' = [sub EXCEPT !.pc = "attempt", !.attempt = @ + 1]
      BY <1>1, <2>2 DEF SubType, SubmittingPcs
    <2>3. CASE sub' = [sub EXCEPT !.checking = @ + 1]
      BY <1>1, <2>3 DEF SubType
    <2>4. CASE \E pc \in SubmittingPcs : Fetch(pc) \/ Store(pc)
      BY <1>1, <2>4 DEF SubType, Fetch, Store
    <2> QED
      BY <2>1, <2>2, <2>3, <2>4
  <1> QED
    BY <1>2 DEF BeingSubmitted

LEMMA NoSubmission == NoSub.pc = "start" /\ NoSub.pc \notin SubmittingPcs
  BY DEF NoSub, SubmittingPcs

(* The chain accepts a solution. *)
LEMMA LifeAccept ==
  ASSUME OfferInv, NEW tx \in inflight, Land(tx)
  PROVE  Life!Next
  <1>1. /\ landed' = Append(landed, tx) /\ inflight' = {}
        /\ mineSuccess' = mineSuccess /\ sub' = sub
    BY DEF Land, taskVars
  <1>2. landed \in Seq(Transaction) /\ Len(landed) \in Nat
    BY DEF OfferInv, OrderInv, RoundInv, TypeOK, ChainOK
  <1>3. /\ Len(landed') = Len(landed) + 1 /\ landed'[Len(landed) + 1] = tx
        /\ \A i \in 1..Len(landed) : landed'[i] = landed[i]
    BY <1>1, <1>2
  <1>4. Accepted' = Append(Accepted, tx.sol)
    <2>1. Accepted' = [i \in 1..(Len(landed) + 1) |-> landed'[i].sol]
      BY <1>3 DEF Accepted
    <2>2. Accepted = [i \in 1..Len(landed) |-> landed[i].sol]
      BY DEF Accepted
    <2> QED
      BY <1>2, <1>3, <2>1, <2>2
  <1>5. tx.sol \in Offered /\ Offered' = {} /\ BeingSubmitted' = BeingSubmitted
    BY <1>1 DEF Offered, BeingSubmitted
  <1> QED
    BY <1>1, <1>4, <1>5 DEF Life!Next, Life!Accept

(* The contributions are frozen: the submission begins. *)
LEMMA LifeBegin ==
  ASSUME OfferInv, SubFreeze
  PROVE  Life!Next
  <1> DEFINE s == [best |-> sub.best, contributions |-> contributions]
  <1>1. /\ sub.pc = "freeze" /\ sub' = [sub EXCEPT !.pc = "attempt", !.frozen = contributions]
        /\ UNCHANGED <<landed, inflight, mineSuccess>>
    BY DEF SubFreeze, chainVars, wireVars
  <1>2. /\ sub \in SubType /\ contributions \in Contributions /\ sub.best # None
        /\ contributions[Solver(sub.best)] # None
        /\ contributions[Solver(sub.best)].diff >= sub.best.diff
    BY <1>1 DEF OfferInv, OrderInv, RoundInv, TypeOK, SubOK, SharedOK, BestChosen,
                BestIsContributed
  <1>3. s.best = sub.best /\ s.contributions = contributions
    OBVIOUS
  <1>4. BeingSubmitted = {} /\ BeingSubmitted' = {s}
    <2>1. sub'.pc = "attempt" /\ sub'.best = sub.best /\ sub'.frozen = contributions
      BY <1>1, <1>2 DEF SubType
    <2> QED
      BY <1>1, <2>1 DEF BeingSubmitted, SubmittingPcs
  <1>5. s.best \in Solution /\ s.contributions \in Contributions
    BY <1>2, <1>3 DEF SubType, Option
  <1>6. Life!SharesIn(s)
    BY <1>2, <1>3 DEF Life!SharesIn, Solver
  <1>7. UNCHANGED <<Accepted, Offered, mineSuccess>>
    BY <1>1 DEF Accepted, Offered
  <1> HIDE DEF s
  <1> QED
    BY <1>4, <1>5, <1>6, <1>7 DEF Life!Next, Life!Begin

(* An attempt offers the solution, or is of a challenge that is past. *)
LEMMA LifeOffer ==
  ASSUME OfferInv, SubAttempt
  PROVE  Life!Next \/ UNCHANGED Life!vars
  <1>1. /\ sub.pc = "attempt" /\ TypeOK /\ UNCHANGED <<landed, mineSuccess>>
        /\ \/ sub' = [sub EXCEPT !.pc = "confirm"]
           \/ Fetch("sync")
        /\ \/ inflight' = inflight
           \/ /\ sub.best.ch = Challenge
              /\ inflight' = inflight \cup {[sol |-> sub.best, id |-> sent + 1]}
    BY DEF SubAttempt, SendTx, wireVars, OfferInv, OrderInv, RoundInv
  <1>2. BeingSubmitted' = BeingSubmitted
    <2>1. "confirm" \in SubmittingPcs /\ "sync" \in SubmittingPcs /\ sub.pc \in SubmittingPcs
      BY <1>1 DEF SubmittingPcs
    <2> QED
      BY <1>1, <2>1, SubmissionKept
  <1>3. CASE inflight' = inflight
    BY <1>1, <1>2, <1>3, LifeStays
  <1>4. CASE /\ sub.best.ch = Challenge
             /\ inflight' = inflight \cup {[sol |-> sub.best, id |-> sent + 1]}
    <2> DEFINE s == [best |-> sub.best, contributions |-> sub.frozen]
    <2>1. s \in BeingSubmitted /\ s.best = sub.best
      BY <1>1 DEF BeingSubmitted, SubmittingPcs
    <2>2. Accepted' = Accepted /\ Len(Accepted) = Challenge
      <3>1. landed \in Seq(Transaction) /\ Len(landed) \in Nat
        BY <1>1 DEF TypeOK, ChainOK
      <3>2. Len(Accepted) = Len(landed)
        BY <3>1 DEF Accepted
      <3> QED
        BY <1>1, <3>2 DEF Accepted, Challenge
    <2>3. Offered' = Offered \cup {s.best}
      <3> DEFINE tx == [sol |-> sub.best, id |-> sent + 1]
      <3>1. tx.sol = s.best /\ inflight' = inflight \cup {tx}
        BY <1>4, <2>1
      <3> HIDE DEF s, tx
      <3> QED
        BY <3>1 DEF Offered
    <2> HIDE DEF s
    <2>4. Life!Offer
      BY <1>1, <1>2, <1>4, <2>1, <2>2, <2>3 DEF Life!Offer
    <2> QED
      BY <2>4 DEF Life!Next
  <1> QED
    BY <1>1, <1>3, <1>4

(* The submission is over, and nothing is being submitted. *)
LEMMA SubmissionEnds ==
  ASSUME sub' = NoSub
  PROVE  BeingSubmitted' = {}
  BY NoSubmission DEF BeingSubmitted

LEMMA LifeGiveUp ==
  ASSUME sub.pc \in SubmittingPcs, sub' = NoSub, UNCHANGED <<landed, inflight, mineSuccess>>
  PROVE  Life!Next
  <1>1. BeingSubmitted # {} /\ BeingSubmitted' = {}
    BY SubmissionEnds DEF BeingSubmitted
  <1>2. UNCHANGED <<Accepted, Offered, mineSuccess>>
    BY DEF Accepted, Offered
  <1> QED
    BY <1>1, <1>2 DEF Life!Next, Life!GiveUp

(* The attender settles: that the solution is the one the chain accepted, and *)
(* that the two balances differ by what it was paid, is what the invariant is *)
(* for.                                                                       *)
LEMMA LifeSettle ==
  ASSUME OfferInv, OfferInv', AttendSettle
  PROVE  Life!Next
  <1> DEFINE s == [best |-> sub.best, contributions |-> sub.frozen]
             msg == [ch |-> sub.old.ch, rewards |-> appProof.bal - sub.old.bal,
                     best |-> sub.best, contributions |-> sub.frozen]
  <1>1. /\ sub.pc = "settle" /\ sub' = NoSub /\ mineSuccess' = Append(mineSuccess, msg)
        /\ UNCHANGED <<landed, inflight>>
    BY DEF AttendSettle, ResetEpoch, chainVars
  <1>2. /\ landed \in Seq(Transaction) /\ Challenge \in Nat /\ Challenge = Len(landed)
        /\ mineSuccess \in Seq(MineSuccess) /\ sub.old.ch \in Nat
    <2>1. ChainOK /\ WireOK /\ sub \in SubType
      BY DEF OfferInv, OrderInv, RoundInv, TypeOK, SubOK
    <2>2. sub.old.ch \in Nat
      BY <2>1 DEF SubType, Proof
    <2> QED
      BY <2>1, <2>2 DEF ChainOK, WireOK, Challenge
  <1>3. /\ landed[Challenge].sol = sub.best /\ sub.old.ch = Challenge - 1
        /\ \A i \in DOMAIN mineSuccess : mineSuccess[i].ch < Challenge - 1
    BY <1>1, <1>2 DEF OfferInv, OrderInv, LandInv, LandingIsOfRound, SettledIsPast, Sending,
                        Attended
  <1>4. sub.best.ch = Challenge - 1 /\ Challenge \in 1..Len(landed)
    <2>1. Challenge \in 1..Len(landed)
      BY <1>2, <1>3
    <2>2. landed[Challenge].sol.ch = Challenge - 1
      BY <2>1 DEF OfferInv, LandedAreOfChallenge
    <2> QED
      BY <1>3, <2>1, <2>2
  <1>5. Len(Accepted) = Challenge /\ Accepted[Challenge] = sub.best
    <2>1. Accepted[Challenge] = landed[Challenge].sol
      BY <1>4 DEF Accepted
    <2>2. Len(Accepted) = Len(landed)
      BY <1>2 DEF Accepted
    <2> QED
      BY <1>2, <1>3, <2>1, <2>2
  <1>6. msg.rewards = Reward
    <2>1. /\ Len(mineSuccess') = Len(mineSuccess) + 1 /\ Len(mineSuccess) \in Nat
          /\ mineSuccess'[Len(mineSuccess) + 1] = msg
      BY <1>1, <1>2
    <2>2. RewardsAreExact'
      BY DEF OfferInv, OrderInv, BalancesAreExact
    <2> HIDE DEF msg
    <2>3. Len(mineSuccess) + 1 \in 1..Len(mineSuccess')
      BY <2>1
    <2>4. mineSuccess'[Len(mineSuccess) + 1].rewards = Reward
      BY <2>2, <2>3 DEF RewardsAreExact
    <2> QED
      BY <2>1, <2>4
  <1>7. s \in BeingSubmitted /\ s.best = sub.best /\ s.contributions = sub.frozen
    BY <1>1 DEF BeingSubmitted, SubmittingPcs
  <1>8. msg = [ch |-> s.best.ch, rewards |-> Reward, best |-> s.best,
               contributions |-> s.contributions]
    BY <1>3, <1>4, <1>6, <1>7
  <1>9. s.best.ch < Len(Accepted) /\ Accepted[s.best.ch + 1] = s.best
    <2>1. s.best.ch + 1 = Challenge /\ s.best.ch < Challenge
      BY <1>2, <1>4, <1>7
    <2> QED
      BY <1>5, <1>7, <2>1
  <1>10. \A i \in DOMAIN mineSuccess : mineSuccess[i].ch < s.best.ch
    BY <1>3, <1>4, <1>7
  <1>11. BeingSubmitted' = {} /\ UNCHANGED <<Accepted, Offered>>
    BY <1>1, SubmissionEnds DEF Accepted, Offered
  <1> HIDE DEF s, msg
  <1>12. Life!Settle
    BY <1>1, <1>7, <1>8, <1>9, <1>10, <1>11 DEF Life!Settle
  <1> QED
    BY <1>12 DEF Life!Next

LEMMA LifeNext ==
  ASSUME OfferInv, OfferInv', [Next]_vars
  PROVE  [Life!Next]_(Life!vars)
  <1>a. TypeOK
    BY DEF OfferInv, OrderInv, RoundInv
  <1>1. CASE Unseen
    <2>1. UNCHANGED Seen
      BY <1>1, UnseenSteps
    <2> QED
      BY <2>1, LifeStays DEF Seen, BeingSubmitted
  <1>2. CASE \E tx \in inflight : Land(tx)
    BY <1>2, LifeAccept
  <1>3. CASE SubStart \/ SubCollect
    <2>1. sub.pc \notin SubmittingPcs /\ UNCHANGED <<landed, inflight, mineSuccess>>
      BY <1>3 DEF SubStart, SubCollect, SubmittingPcs, chainVars, wireVars
    <2>2. sub'.pc \in {"start", "collect", "freeze"}
      <3>1. sub \in SubType
        BY <1>a DEF TypeOK, SubOK
      <3>2. CASE SubStart
        BY <3>1, <3>2 DEF SubStart, SubType
      <3>3. CASE SubCollect
        BY <3>1, <3>3 DEF SubCollect, SubType, NoSub
      <3> QED
        BY <1>3, <3>2, <3>3
    <2>3. BeingSubmitted = {} /\ BeingSubmitted' = {}
      BY <2>1, <2>2 DEF BeingSubmitted, SubmittingPcs
    <2> QED
      BY <2>1, <2>3, LifeStays
  <1>4. CASE SubFreeze
    BY <1>4, LifeBegin
  <1>5. CASE SubAttempt
    BY <1>5, LifeOffer
  <1>6. CASE SubConfirmed \/ SubRetry \/ SubHashInvalid
    <2>1. sub.pc = "confirm" /\ UNCHANGED <<landed, inflight, mineSuccess>>
      BY <1>6 DEF SubConfirmed, SubRetry, SubHashInvalid, chainVars, wireVars
    <2>2. \/ \E pc \in SubmittingPcs : sub' = [sub EXCEPT !.pc = pc]
          \/ sub' = [sub EXCEPT !.pc = "attempt", !.attempt = @ + 1]
      BY <1>6 DEF SubConfirmed, SubRetry, SubHashInvalid, SubmittingPcs
    <2> QED
      BY <1>a, <2>1, <2>2, SubmissionKept, LifeStays DEF SubmittingPcs
  <1>7. CASE SubRefresh
    BY <1>7, LifeGiveUp DEF SubRefresh, ResetEpoch, SubmittingPcs, chainVars, wireVars
  <1>8. CASE AttendCheck
    <2>1. sub.pc = "attend" /\ UNCHANGED <<landed, inflight, mineSuccess>>
      BY <1>8 DEF AttendCheck, chainVars, wireVars
    <2>2. CASE sub' = NoSub
      BY <2>1, <2>2, LifeGiveUp DEF SubmittingPcs
    <2>3. CASE \/ \E pc \in SubmittingPcs : sub' = [sub EXCEPT !.pc = pc]
               \/ sub' = [sub EXCEPT !.checking = @ + 1]
               \/ \E pc \in SubmittingPcs : Fetch(pc)
      BY <1>a, <2>1, <2>3, SubmissionKept, LifeStays DEF SubmittingPcs
    <2>4. "settle" \in SubmittingPcs /\ "hear" \in SubmittingPcs
      BY DEF SubmittingPcs
    <2> QED
      BY <1>8, <2>2, <2>3, <2>4 DEF AttendCheck
  <1>9. CASE SubDiscard \/ SubSync \/ AttendHear
    <2>1. sub.pc \in SubmittingPcs /\ UNCHANGED <<landed, inflight, mineSuccess>>
      BY <1>9 DEF SubDiscard, SubSync, AttendHear, SubmittingPcs, chainVars, wireVars
    <2>2. \E pc \in SubmittingPcs : Fetch(pc) \/ Store(pc)
      BY <1>9 DEF SubDiscard, SubSync, AttendHear, SubmittingPcs
    <2> QED
      BY <1>a, <2>1, <2>2, SubmissionKept, LifeStays
  <1>10. CASE AttendSettle
    BY <1>10, LifeSettle
  <1> QED
    BY <1>1, <1>2, <1>3, <1>4, <1>5, <1>6, <1>7, <1>8, <1>9, <1>10
       DEF Next, Chain, AttendWait, Submitting, Unseen

(* As long as no claim is confirmed, which lowers the balance that rewards    *)
(* are read from, the tasks of the pool implement RoundLife: what is settled  *)
(* is one submission, as it was begun, that the chain accepted, and what it   *)
(* paid; whatever errors the sender gets, whichever notification is missed    *)
(* and whichever miner leaves.                                                *)
THEOREM RoundLifeCorrect ==
  ASSUME Timely
  PROVE  Spec /\ [](claims = 0) => ImplementsRoundLife
  <1>1. Init => OfferInv /\ Life!Init
    BY OfferInit
  <1>2. OfferInv /\ (claims = 0)' /\ [Next]_vars => OfferInv'
    <2> SUFFICES ASSUME OfferInv, claims' = 0, [Next]_vars PROVE OfferInv'
      OBVIOUS
    <2>1. [QuietClaims]_vars
      BY DEF OfferInv, QuietClaims
    <2>2. OrderInv'
      BY <2>1, OrderNext DEF OfferInv
    <2>3. LandedAreOfChallenge' /\ OfferedAreOfChallenge'
      BY LandedNext DEF OfferInv, OrderInv, RoundInv
    <2> QED
      BY <2>2, <2>3 DEF OfferInv
  <1>3. OfferInv /\ OfferInv' /\ [Next]_vars => [Life!Next]_(Life!vars)
    BY LifeNext
  <1> QED
    BY <1>1, <1>2, <1>3, PTL DEF Spec, ImplementsRoundLife, Life!Spec

=============================================================================
