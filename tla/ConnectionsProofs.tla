-------------------------- MODULE ConnectionsProofs --------------------------
(***************************************************************************)
(* Proofs about Connections, for any number of connections and addresses:  *)
(* the types, that app_state has no socket that nobody reads, that a client *)
(* that answers keeps its own, hears the server in time, and that a silent  *)
(* one is removed. The last three depend on how the periods of the tasks go *)
(* together, and on a step of time that does not blur them.                 *)
(***************************************************************************)
EXTENDS Connections, SequenceTheorems, TLAPS

-----------------------------------------------------------------------------
(* Types                                                                   *)

ConnectionRecord ==
  [addr: Addrs, task: {"none", "accepted", "pinged", "reading", "ending", "closed"},
   client: {"none", "up", "silent", "gone"}, pong: BOOLEAN, heard: Times, silent: Times]

PingerRecord == [pc: {"sleep", "join"}, wait: Nat, pings: SUBSET Conns, failed: SUBSET Addrs]

TrackerRecord ==
  [pc: {"sleep", "loop"}, wait: Times, expired: SUBSET Addrs, socket: SUBSET Addrs]

ConnOK == conn \in [Conns -> ConnectionRecord]
SocketsOK == sockets \in [Addrs -> 0..MaxConns]
PongsOK == pongs \in [Addrs -> Times \cup {Never}]
ChannelOK == channel \in Seq(Addrs)
PingerOK == pinger \in PingerRecord
TrackerOK == tracker \in TrackerRecord

PartsOK == ConnOK /\ SocketsOK /\ PongsOK /\ ChannelOK /\ PingerOK /\ TrackerOK

LEMMA TypeParts == TypeOK <=> PartsOK
  BY DEF TypeOK, PartsOK, ConnOK, SocketsOK, PongsOK, ChannelOK, PingerOK, TrackerOK,
         ConnectionRecord, PingerRecord, TrackerRecord

LEMMA TimesType ==
  /\ 0 \in Times /\ PingPeriod \in Nat /\ SlowPing \in Nat /\ TrackPeriod \in Times
  /\ \A s \in Times : Later(s) \in Times /\ Sooner(s) \in Times
  /\ \A s \in Nat : Sooner(s) \in Nat
  BY StepAssumption, SlowPingAssumption
     DEF Times, Horizon, PingPeriod, TrackPeriod, PongLimit, Later, Sooner

LEMMA NoConnectionType == NoConnection \in ConnectionRecord
<1>1. (CHOOSE a \in Addrs : TRUE) \in Addrs
  BY AddrsAssumption
<1> QED
  BY <1>1, TimesType DEF NoConnection, ConnectionRecord

LEMMA TypeInit == Init => PartsOK
<1> SUFFICES ASSUME Init PROVE PartsOK
  OBVIOUS
<1>1. ConnOK
  BY NoConnectionType DEF Init, ConnOK
<1>2. SocketsOK /\ PongsOK /\ ChannelOK
  BY MaxConnsAssumption DEF Init, SocketsOK, PongsOK, ChannelOK
<1>3. PingerOK /\ TrackerOK
  BY TimesType DEF Init, PingerOK, TrackerOK, PingerRecord, TrackerRecord
<1> QED
  BY <1>1, <1>2, <1>3 DEF PartsOK

LEMMA TypeNext == PartsOK /\ [Next]_vars => PartsOK'
<1> SUFFICES ASSUME PartsOK, [Next]_vars PROVE PartsOK'
  OBVIOUS
<1> USE DEF PartsOK
<1>a. /\ \A k \in Conns : conn[k].addr \in Addrs /\ k \in 0..MaxConns
      /\ 0 \in 0..MaxConns
  BY MaxConnsAssumption DEF ConnOK, ConnectionRecord, Conns
<1>b. conn \in [Conns -> ConnectionRecord]
  BY DEF ConnOK
<1>1. ASSUME NEW k \in Conns, NEW a \in Addrs, Accept(k, a) PROVE PartsOK'
  <2>1. SocketsOK' /\ PongsOK' /\ ChannelOK' /\ PingerOK' /\ TrackerOK'
    BY <1>1 DEF Accept, SocketsOK, PongsOK, ChannelOK, PingerOK, TrackerOK
  <2>2. [NoConnection EXCEPT !.addr = a, !.task = "accepted", !.client = "up"] \in ConnectionRecord
    BY NoConnectionType DEF ConnectionRecord
  <2>3. ConnOK'
    BY <1>1, <2>2 DEF Accept, ConnOK
  <2> QED
    BY <2>1, <2>2, <2>3
<1>2. ASSUME NEW k \in Conns, Leave(k) \/ GiveUp(k) PROVE PartsOK'
  <2>1. SocketsOK' /\ PongsOK' /\ ChannelOK' /\ PingerOK' /\ TrackerOK'
    BY <1>2 DEF Leave, GiveUp, SocketsOK, PongsOK, ChannelOK, PingerOK, TrackerOK
  <2>2. ConnOK'
    BY <1>a, <1>2, TimesType DEF Leave, GiveUp, ConnOK, ConnectionRecord
  <2> QED
    BY <2>1, <2>2
<1>3. ASSUME NEW k \in Conns, FallSilent(k) PROVE PartsOK'
  <2>1. SocketsOK' /\ PongsOK' /\ ChannelOK' /\ PingerOK' /\ TrackerOK'
    BY <1>3 DEF FallSilent, SocketsOK, PongsOK, ChannelOK, PingerOK, TrackerOK
  <2>2. ConnOK'
    <3>1. [conn[k] EXCEPT !.client = "silent", !.heard = 0, !.pong = FALSE] \in ConnectionRecord
      BY TimesType DEF ConnOK, ConnectionRecord
    <3>2. conn' = [conn EXCEPT ![k] = [conn[k] EXCEPT !.client = "silent", !.heard = 0, !.pong = FALSE]]
      BY <1>3 DEF FallSilent, ConnOK
    <3> QED
      BY <3>1, <3>2 DEF ConnOK
  <2> QED
    BY <2>1, <2>2
<1>4. ASSUME NEW k \in Conns, FirstPing(k) PROVE PartsOK'
  <2>1. SocketsOK' /\ PongsOK' /\ ChannelOK' /\ PingerOK' /\ TrackerOK'
    BY <1>4 DEF FirstPing, SocketsOK, PongsOK, ChannelOK, PingerOK, TrackerOK
  <2>2. ConnOK'
    BY <1>a, <1>4, TimesType DEF FirstPing, ConnOK, ConnectionRecord
  <2> QED
    BY <2>1, <2>2
<1>5. ASSUME NEW k \in Conns, Register(k) PROVE PartsOK'
  <2>1. PongsOK' /\ ChannelOK' /\ PingerOK' /\ TrackerOK'
    BY <1>5 DEF Register, PongsOK, ChannelOK, PingerOK, TrackerOK
  <2>2. ConnOK'
    <3>1. /\ [conn[k] EXCEPT !.task = "reading"] \in ConnectionRecord
          /\ [conn[k] EXCEPT !.task = "closed", !.client = "gone"] \in ConnectionRecord
      BY TimesType DEF ConnOK, ConnectionRecord
    <3>2. \/ conn' = [conn EXCEPT ![k] = [conn[k] EXCEPT !.task = "reading"]]
          \/ conn' = [conn EXCEPT ![k] = [conn[k] EXCEPT !.task = "closed", !.client = "gone"]]
      BY <1>5 DEF Register, ConnOK
    <3> QED
      BY <3>1, <3>2 DEF ConnOK
  <2>3. SocketsOK'
    BY <1>a, <1>5 DEF Register, SocketsOK
  <2> QED
    BY <2>1, <2>2, <2>3
<1>6. ASSUME NEW k \in Conns, ReadPong(k) PROVE PartsOK'
  <2>1. SocketsOK' /\ PongsOK' /\ PingerOK' /\ TrackerOK'
    BY <1>6 DEF ReadPong, SocketsOK, PongsOK, PingerOK, TrackerOK
  <2>2. ConnOK'
    <3>1. [conn[k] EXCEPT !.pong = FALSE] \in ConnectionRecord
      BY TimesType DEF ConnOK, ConnectionRecord
    <3>2. conn' = [conn EXCEPT ![k] = [conn[k] EXCEPT !.pong = FALSE]]
      BY <1>6 DEF ReadPong, ConnOK
    <3> QED
      BY <3>1, <3>2 DEF ConnOK
  <2>3. ChannelOK'
    BY <1>a, <1>6 DEF ReadPong, ChannelOK
  <2> QED
    BY <2>1, <2>2, <2>3
<1>7. ASSUME NEW k \in Conns, ReadEnd(k) PROVE PartsOK'
  <2>1. SocketsOK' /\ PongsOK' /\ ChannelOK' /\ PingerOK' /\ TrackerOK'
    BY <1>7 DEF ReadEnd, SocketsOK, PongsOK, ChannelOK, PingerOK, TrackerOK
  <2>2. ConnOK'
    <3>1. [conn[k] EXCEPT !.task = "ending", !.pong = FALSE] \in ConnectionRecord
      BY <1>b DEF ConnectionRecord
    <3>2. conn' = [conn EXCEPT ![k] = [conn[k] EXCEPT !.task = "ending", !.pong = FALSE]]
      BY <1>b, <1>7 DEF ReadEnd
    <3> QED
      BY <1>b, <3>1, <3>2 DEF ConnOK
  <2> QED
    BY <2>1, <2>2
<1>8. ASSUME NEW k \in Conns, Unregister(k) PROVE PartsOK'
  <2>1. PongsOK' /\ ChannelOK' /\ PingerOK' /\ TrackerOK'
    BY <1>8 DEF Unregister, PongsOK, ChannelOK, PingerOK, TrackerOK
  <2>2. ConnOK'
    BY <1>a, <1>8, TimesType DEF Unregister, ConnOK, ConnectionRecord
  <2>3. SocketsOK'
    BY <1>a, <1>8 DEF Unregister, SocketsOK
  <2> QED
    BY <2>1, <2>2, <2>3
<1>9. ASSUME NEW k \in Conns, Ping(k) PROVE PartsOK'
  <2>1. SocketsOK' /\ PongsOK' /\ ChannelOK' /\ TrackerOK'
    BY <1>9 DEF Ping, SocketsOK, PongsOK, ChannelOK, TrackerOK
  <2>2. ConnOK'
    <3>1. [conn[k] EXCEPT !.heard = 0, !.pong = TRUE] \in ConnectionRecord
      BY <1>b, TimesType DEF ConnectionRecord
    <3>2. PICK c \in ConnectionRecord : conn' = [conn EXCEPT ![k] = c]
      BY <1>b, <1>9, <3>1 DEF Ping, Pinged
    <3> QED
      BY <1>b, <3>2 DEF ConnOK
  <2>3. {a \in {conn[k].addr} : conn[k].client = "gone"} \in SUBSET Addrs
    BY <1>a, <1>9
  <2>4. PingerOK'
    BY <1>9, <2>3, TimesType DEF Ping, PingerOK, PingerRecord
  <2> QED
    BY <2>1, <2>2, <2>3, <2>4
<1>10. ASSUME NEW a \in Addrs, PingFailed(a) PROVE PartsOK'
  <2>1. ConnOK' /\ PongsOK' /\ ChannelOK' /\ TrackerOK'
    BY <1>10 DEF PingFailed, ConnOK, PongsOK, ChannelOK, TrackerOK
  <2>2. SocketsOK'
    BY <1>a, <1>10 DEF PingFailed, SocketsOK
  <2>3. PingerOK'
    BY <1>10, TimesType DEF PingFailed, PingerOK, PingerRecord
  <2> QED
    BY <2>1, <2>2, <2>3
<1>11. ASSUME NEW a \in Addrs, RemoveSocket(a) PROVE PartsOK'
  <2>1. ConnOK' /\ PongsOK' /\ ChannelOK' /\ PingerOK'
    BY <1>11 DEF RemoveSocket, ConnOK, PongsOK, ChannelOK, PingerOK
  <2>2. SocketsOK'
    BY <1>a, <1>11 DEF RemoveSocket, SocketsOK
  <2>3. TrackerOK'
    BY <1>11, TimesType DEF RemoveSocket, TrackerOK, TrackerRecord
  <2> QED
    BY <2>1, <2>2, <2>3
<1>12. ASSUME NEW a \in Addrs, RemovePong(a) PROVE PartsOK'
  <2>1. ConnOK' /\ SocketsOK' /\ ChannelOK' /\ PingerOK'
    BY <1>12 DEF RemovePong, ConnOK, SocketsOK, ChannelOK, PingerOK
  <2>2. PongsOK'
    BY <1>12, TimesType DEF RemovePong, PongsOK
  <2>3. TrackerOK'
    BY <1>12, TimesType DEF RemovePong, TrackerOK, TrackerRecord
  <2> QED
    BY <2>1, <2>2, <2>3
<1>13. ASSUME HandlePong PROVE PartsOK'
  <2>1. ConnOK' /\ SocketsOK' /\ PingerOK' /\ TrackerOK'
    BY <1>13 DEF HandlePong, ConnOK, SocketsOK, PingerOK, TrackerOK
  <2>2. PongsOK'
    BY <1>13, TimesType DEF HandlePong, PongsOK
  <2>3. ChannelOK'
    BY <1>a, <1>13 DEF HandlePong, ChannelOK
  <2> QED
    BY <2>1, <2>2, <2>3
<1>14. ASSUME PingRound PROVE PartsOK'
  <2>1. ConnOK' /\ SocketsOK' /\ PongsOK' /\ ChannelOK' /\ TrackerOK'
    BY <1>14 DEF PingRound, ConnOK, SocketsOK, PongsOK, ChannelOK, TrackerOK
  <2>2. PingerOK'
    BY <1>14, TimesType DEF PingRound, PingerOK, PingerRecord
  <2> QED
    BY <2>1, <2>2
<1>15. ASSUME PingsJoined PROVE PartsOK'
  <2>1. ConnOK' /\ SocketsOK' /\ PongsOK' /\ ChannelOK' /\ TrackerOK'
    BY <1>15 DEF PingsJoined, ConnOK, SocketsOK, PongsOK, ChannelOK, TrackerOK
  <2>2. PingerOK'
    BY <1>15, TimesType DEF PingsJoined, PingerOK, PingerRecord
  <2> QED
    BY <2>1, <2>2
<1>16. ASSUME TrackRound PROVE PartsOK'
  <2>1. ConnOK' /\ SocketsOK' /\ PongsOK' /\ ChannelOK' /\ PingerOK'
    BY <1>16 DEF TrackRound, ConnOK, SocketsOK, PongsOK, ChannelOK, PingerOK
  <2>2. Expired \in SUBSET Addrs
    BY DEF Expired
  <2>3. TrackerOK'
    BY <1>16, <2>2, TimesType DEF TrackRound, TrackerOK, TrackerRecord
  <2> QED
    BY <2>1, <2>2, <2>3
<1>17. ASSUME TrackEnd PROVE PartsOK'
  <2>1. ConnOK' /\ SocketsOK' /\ PongsOK' /\ ChannelOK' /\ PingerOK'
    BY <1>17 DEF TrackEnd, ConnOK, SocketsOK, PongsOK, ChannelOK, PingerOK
  <2>2. TrackerOK'
    BY <1>17, TimesType DEF TrackEnd, TrackerOK, TrackerRecord
  <2> QED
    BY <2>1, <2>2
<1>18. ASSUME Tick PROVE PartsOK'
  <2>1. SocketsOK' /\ ChannelOK'
    BY <1>18 DEF Tick, SocketsOK, ChannelOK
  <2>2. ConnOK'
    <3> DEFINE c(k) == [conn[k] EXCEPT !.heard = IF conn[k].client = "up" THEN Later(@) ELSE 0,
                                      !.silent = IF conn[k].client = "silent" THEN Later(@) ELSE 0]
    <3>1. ASSUME NEW k \in Conns PROVE c(k) \in ConnectionRecord
      <4>1. conn[k] \in ConnectionRecord
        BY DEF ConnOK
      <4>2. /\ (IF conn[k].client = "up" THEN Later(conn[k].heard) ELSE 0) \in Times
            /\ (IF conn[k].client = "silent" THEN Later(conn[k].silent) ELSE 0) \in Times
        BY <4>1, TimesType DEF ConnectionRecord
      <4> QED
        BY <4>1, <4>2 DEF ConnectionRecord
    <3>2. conn' = [k \in Conns |-> c(k)]
      BY <1>18 DEF Tick
    <3> HIDE DEF c
    <3> QED
      BY <3>1, <3>2 DEF ConnOK
  <2>3. PongsOK'
    BY <1>18, TimesType DEF Tick, PongsOK
  <2>4. PingerOK'
    BY <1>18, TimesType DEF Tick, PingerOK, PingerRecord
  <2>5. TrackerOK'
    BY <1>18, TimesType DEF Tick, TrackerOK, TrackerRecord
  <2> QED
    BY <2>1, <2>2, <2>3, <2>4, <2>5
<1>19. ASSUME UNCHANGED vars PROVE PartsOK'
  <2>1. ConnOK' /\ SocketsOK' /\ PongsOK' /\ ChannelOK' /\ PingerOK' /\ TrackerOK'
    BY <1>19 DEF vars, ConnOK, SocketsOK, PongsOK, ChannelOK, PingerOK, TrackerOK
  <2> QED
    BY <2>1
<1> QED
  BY <1>1, <1>2, <1>3, <1>4, <1>5, <1>6, <1>7, <1>8, <1>9, <1>10,
     <1>11, <1>12, <1>13, <1>14, <1>15, <1>16, <1>17, <1>18, <1>19 DEF Next

LEMMA PartsInvariant == Spec => []PartsOK
  BY TypeInit, TypeNext, PTL DEF Spec

(* Every variable has its type; a time is within what anything looks at. *)
THEOREM TypeCorrect == Spec => []TypeOK
<1>1. PartsOK => TypeOK
  BY TypeParts
<1> QED
  BY <1>1, PartsInvariant, PTL

-----------------------------------------------------------------------------
(* Sockets are read                                                        *)

(* The connections in app_state. *)
LEMMA SocketConns ==
  ASSUME PartsOK, NEW a \in Addrs
  PROVE  sockets[a] = 0 \/ sockets[a] \in Conns
  BY MaxConnsAssumption DEF PartsOK, SocketsOK, Conns

(* Steps that put no socket into app_state, and whose connections keep their *)
(* address and go on reading if they did.                                    *)
LEMMA ReadersKept ==
  ASSUME PartsOK, SocketsAreRead,
         \A a \in Addrs : sockets'[a] = 0 \/ sockets'[a] = sockets[a],
         \A k \in Conns : conn[k].task \in {"reading", "ending"} =>
           conn'[k].addr = conn[k].addr /\ conn'[k].task \in {"reading", "ending"}
  PROVE  SocketsAreRead'
  BY SocketConns DEF SocketsAreRead

LEMMA ReadNext == PartsOK /\ SocketsAreRead /\ [Next]_vars => SocketsAreRead'
<1> SUFFICES ASSUME PartsOK, SocketsAreRead, [Next]_vars PROVE SocketsAreRead'
  OBVIOUS
<1> DEFINE NoneAdded == \A a \in Addrs : sockets'[a] = 0 \/ sockets'[a] = sockets[a]
           Reading == \A k \in Conns : conn[k].task \in {"reading", "ending"} =>
             conn'[k].addr = conn[k].addr /\ conn'[k].task \in {"reading", "ending"}
<1>a. /\ conn \in [Conns -> ConnectionRecord] /\ sockets \in [Addrs -> 0..MaxConns]
      /\ \A k \in Conns : k # 0
  BY MaxConnsAssumption DEF PartsOK, ConnOK, SocketsOK, Conns
<1>1. ASSUME NEW k \in Conns, NEW a \in Addrs, Accept(k, a) PROVE SocketsAreRead'
  <2>1. NoneAdded
    BY <1>1 DEF Accept
  <2>2. Reading
    BY <1>a, <1>1 DEF Accept
  <2> QED
    BY <2>1, <2>2, ReadersKept
<1>2. ASSUME NEW k \in Conns, Leave(k) \/ GiveUp(k) \/ FallSilent(k) PROVE SocketsAreRead'
  <2>1. NoneAdded
    BY <1>2 DEF Leave, GiveUp, FallSilent
  <2>2. Reading
    <3>1. CASE Leave(k) \/ GiveUp(k)
      BY <1>a, <3>1 DEF Leave, GiveUp, ConnectionRecord
    <3>2. CASE FallSilent(k)
      <4>1. PICK c : /\ conn' = [conn EXCEPT ![k] = c]
                     /\ c.addr = conn[k].addr /\ c.task = conn[k].task
        <5>1. conn' = [conn EXCEPT ![k] = [conn[k] EXCEPT !.client = "silent", !.heard = 0, !.pong = FALSE]]
          BY <1>a, <3>2 DEF FallSilent
        <5>2. [conn[k] EXCEPT !.client = "silent", !.heard = 0, !.pong = FALSE].addr = conn[k].addr
          BY <1>a DEF ConnectionRecord
        <5>3. [conn[k] EXCEPT !.client = "silent", !.heard = 0, !.pong = FALSE].task = conn[k].task
          BY <1>a DEF ConnectionRecord
        <5> QED
          BY <5>1, <5>2, <5>3
      <4> QED
        BY <1>a, <4>1
    <3> QED
      BY <1>2, <3>1, <3>2
  <2> QED
    BY <2>1, <2>2, ReadersKept
<1>3. ASSUME NEW k \in Conns, FirstPing(k) \/ ReadPong(k) \/ ReadEnd(k) PROVE SocketsAreRead'
  <2>1. NoneAdded
    BY <1>3 DEF FirstPing, ReadPong, ReadEnd
  <2>2. Reading
    <3>1. CASE FirstPing(k)
      BY <1>a, <3>1 DEF FirstPing, ConnectionRecord
    <3>2. CASE ReadPong(k)
      BY <1>a, <3>2 DEF ReadPong, ConnectionRecord
    <3>3. CASE ReadEnd(k)
      BY <1>a, <3>3 DEF ReadEnd, ConnectionRecord
    <3> QED
      BY <1>3, <3>1, <3>2, <3>3
  <2> QED
    BY <2>1, <2>2, ReadersKept
<1>4. ASSUME NEW k \in Conns, Register(k) PROVE SocketsAreRead'
  <2> DEFINE a == conn[k].addr
  <2>1. a \in Addrs /\ conn[k].task = "pinged"
    BY <1>a, <1>4 DEF Register, ConnectionRecord
  <2>2. CASE /\ sockets' = [sockets EXCEPT ![a] = k]
             /\ conn' = [conn EXCEPT ![k].task = "reading"]
    <3>1. sockets'[a] = k /\ conn'[k].addr = a /\ conn'[k].task = "reading"
      BY <1>a, <2>1, <2>2 DEF ConnectionRecord
    <3>2. ASSUME NEW b \in Addrs, b # a, sockets'[b] # 0
          PROVE  conn'[sockets'[b]].addr = b /\ conn'[sockets'[b]].task \in {"reading", "ending"}
      <4>1. sockets'[b] = sockets[b] /\ sockets[b] \in Conns
        BY <1>a, <2>2, <3>2, SocketConns
      <4>2. conn[sockets[b]].addr = b /\ conn[sockets[b]].task \in {"reading", "ending"}
        BY <3>2, <4>1 DEF SocketsAreRead
      <4>3. sockets[b] # k
        BY <2>1, <4>2
      <4> QED
        BY <1>a, <2>2, <4>1, <4>2, <4>3
    <3> QED
      BY <3>1, <3>2 DEF SocketsAreRead
  <2>3. CASE /\ UNCHANGED sockets
             /\ conn' = [conn EXCEPT ![k].task = "closed", ![k].client = "gone"]
    <3>1. Reading
      BY <1>a, <2>1, <2>3
    <3> QED
      BY <2>3, <3>1, ReadersKept
  <2> QED
    BY <1>4, <2>2, <2>3 DEF Register
<1>5. ASSUME NEW k \in Conns, Unregister(k) PROVE SocketsAreRead'
  <2>1. /\ conn[k].addr \in Addrs
        /\ sockets' = [sockets EXCEPT ![conn[k].addr] = 0]
        /\ conn' = [conn EXCEPT ![k].task = "closed"]
    BY <1>a, <1>5 DEF Unregister, ConnectionRecord
  <2>2. ASSUME NEW b \in Addrs, sockets'[b] # 0
        PROVE  conn'[sockets'[b]].addr = b /\ conn'[sockets'[b]].task \in {"reading", "ending"}
    <3>1. b # conn[k].addr /\ sockets'[b] = sockets[b] /\ sockets[b] \in Conns
      BY <1>a, <2>1, <2>2, SocketConns
    <3>2. conn[sockets[b]].addr = b /\ conn[sockets[b]].task \in {"reading", "ending"}
      BY <2>2, <3>1 DEF SocketsAreRead
    <3>3. sockets[b] # k
      BY <3>1, <3>2
    <3> QED
      BY <1>a, <2>1, <3>1, <3>2, <3>3
  <2> QED
    BY <2>2 DEF SocketsAreRead
<1>6. ASSUME NEW k \in Conns, Ping(k) PROVE SocketsAreRead'
  <2>1. NoneAdded
    BY <1>6 DEF Ping
  <2>2. Reading
    BY <1>a, <1>6 DEF Ping, Pinged, ConnectionRecord
  <2> QED
    BY <2>1, <2>2, ReadersKept
<1>7. ASSUME NEW a \in Addrs, PingFailed(a) \/ RemoveSocket(a) \/ RemovePong(a)
      PROVE  SocketsAreRead'
  <2>1. NoneAdded /\ UNCHANGED conn
    BY <1>a, <1>7 DEF PingFailed, RemoveSocket, RemovePong
  <2> QED
    BY <2>1, ReadersKept
<1>8. CASE HandlePong \/ PingRound \/ PingsJoined \/ TrackRound \/ TrackEnd \/ UNCHANGED vars
  <2>1. UNCHANGED <<conn, sockets>>
    BY <1>8 DEF HandlePong, PingRound, PingsJoined, TrackRound, TrackEnd, vars
  <2> QED
    BY <2>1, ReadersKept
<1>9. CASE Tick
  <2>1. UNCHANGED sockets
    BY <1>9 DEF Tick
  <2>2. Reading
    BY <1>a, <1>9 DEF Tick, ConnectionRecord
  <2> QED
    BY <2>1, <2>2, ReadersKept
<1> QED
  BY <1>1, <1>2, <1>3, <1>4, <1>5, <1>6, <1>7, <1>8, <1>9 DEF Next

(* A socket in app_state has its reader, for any number of connections. *)
THEOREM SocketsReadCorrect == Spec => []SocketsAreRead
<1>1. Init => SocketsAreRead
  BY DEF Init, SocketsAreRead
<1> QED
  BY <1>1, PartsInvariant, ReadNext, PTL DEF Spec

-----------------------------------------------------------------------------
(* How the periods go together. A step of time is a parameter of the model: *)
(* each result needs it to be no coarser than what it compares.             *)

LEMMA LaterIs ==
  ASSUME NEW s \in Nat, NEW t \in Nat, s <= t
  PROVE  /\ Later(s) \in Nat /\ Later(s) <= s + Step /\ Later(s) <= Later(t)
         /\ s <= Horizon => s <= Later(s)
  BY StepAssumption DEF Later, Horizon, PongLimit, TrackPeriod

LEMMA SoonerIs ==
  ASSUME NEW s \in Nat
  PROVE  /\ Sooner(s) \in Nat
         /\ s < Step => Sooner(s) = 0
         /\ s >= Step => Sooner(s) = s - Step
  BY StepAssumption DEF Sooner

(* The parts of the types. *)
LEMMA TypesAre ==
  ASSUME PartsOK
  PROVE  /\ \A k \in Conns : /\ conn[k] \in ConnectionRecord /\ conn[k].addr \in Addrs
                             /\ conn[k].heard \in Nat /\ conn[k].silent \in Nat
                             /\ conn[k].heard <= Horizon /\ conn[k].silent <= Horizon
                             /\ k \in Nat /\ k # 0
         /\ \A a \in Addrs : pongs[a] = Never \/ (pongs[a] \in Nat /\ pongs[a] <= Horizon)
         /\ pinger.wait \in Nat /\ tracker.wait \in Nat
         /\ DOMAIN conn = Conns /\ DOMAIN sockets = Addrs /\ DOMAIN pongs = Addrs
<1>1. Times \subseteq Nat /\ \A s \in Times : s <= Horizon
  BY DEF Times
<1>2. \A k \in Conns : conn[k] \in ConnectionRecord
  BY DEF PartsOK, ConnOK
<1>3. \A k \in Conns : /\ conn[k].addr \in Addrs
                      /\ conn[k].heard \in Times /\ conn[k].silent \in Times
  BY <1>2 DEF ConnectionRecord
<1>4. \A k \in Conns : k \in Nat /\ k # 0
  BY MaxConnsAssumption DEF Conns
<1>5. \A a \in Addrs : pongs[a] = Never \/ pongs[a] \in Times
  BY DEF PartsOK, PongsOK
<1>6. pinger.wait \in Nat /\ tracker.wait \in Times
  BY DEF PartsOK, PingerOK, TrackerOK, PingerRecord, TrackerRecord
<1>7. DOMAIN conn = Conns /\ DOMAIN sockets = Addrs /\ DOMAIN pongs = Addrs
  BY DEF PartsOK, ConnOK, SocketsOK, PongsOK
<1> QED
  BY <1>1, <1>2, <1>3, <1>4, <1>5, <1>6, <1>7

(* What a step makes of a connection. *)
Becomes(k, task, client, pong, heard, silent) ==
  /\ conn'[k].addr = conn[k].addr
  /\ conn'[k].task = task /\ conn'[k].client = client
  /\ conn'[k].pong = pong /\ conn'[k].heard = heard /\ conn'[k].silent = silent
  /\ \A j \in Conns \ {k} : conn'[j] = conn[j]

LEMMA Updated ==
  ASSUME PartsOK, NEW k \in Conns, NEW c \in ConnectionRecord,
         conn' = [conn EXCEPT ![k] = c], c.addr = conn[k].addr
  PROVE  Becomes(k, c.task, c.client, c.pong, c.heard, c.silent)
  BY TypesAre DEF Becomes

LEMMA AcceptIs ==
  ASSUME PartsOK, NEW k \in Conns, NEW a \in Addrs, Accept(k, a)
  PROVE  /\ conn'[k].addr = a
         /\ conn'[k].task = "accepted" /\ conn'[k].client = "up"
         /\ conn'[k].pong = FALSE /\ conn'[k].heard = 0 /\ conn'[k].silent = 0
         /\ \A j \in Conns \ {k} : conn'[j] = conn[j]
<1> DEFINE c == [NoConnection EXCEPT !.addr = a, !.task = "accepted", !.client = "up"]
<1>1. conn' = [conn EXCEPT ![k] = c]
  BY DEF Accept
<1>2. /\ c.addr = a /\ c.task = "accepted" /\ c.client = "up"
      /\ c.pong = FALSE /\ c.heard = 0 /\ c.silent = 0
  BY DEF NoConnection
<1> HIDE DEF c
<1> QED
  BY <1>1, <1>2, TypesAre

LEMMA LeaveIs ==
  ASSUME PartsOK, NEW k \in Conns, Leave(k)
  PROVE  Becomes(k, conn[k].task, "gone", conn[k].pong, 0, 0)
  BY TypesAre DEF Leave, Becomes, ConnectionRecord

LEMMA FallSilentIs ==
  ASSUME PartsOK, NEW k \in Conns, FallSilent(k)
  PROVE  Becomes(k, conn[k].task, "silent", FALSE, 0, conn[k].silent)
  BY TypesAre DEF FallSilent, Becomes, ConnectionRecord

LEMMA FirstPingIs ==
  ASSUME PartsOK, NEW k \in Conns, FirstPing(k)
  PROVE  \/ /\ conn[k].client # "gone"
            /\ Becomes(k, "pinged", conn[k].client, conn[k].client = "up", conn[k].heard, conn[k].silent)
         \/ Becomes(k, "closed", conn[k].client, conn[k].pong, conn[k].heard, conn[k].silent)
            /\ conn[k].client = "gone"
  BY TypesAre DEF FirstPing, Becomes, ConnectionRecord

LEMMA RegisterIs ==
  ASSUME PartsOK, NEW k \in Conns, Register(k)
  PROVE  \/ /\ Becomes(k, "reading", conn[k].client, conn[k].pong, conn[k].heard, conn[k].silent)
            /\ sockets' = [sockets EXCEPT ![conn[k].addr] = k]
         \/ /\ Becomes(k, "closed", "gone", conn[k].pong, conn[k].heard, conn[k].silent)
            /\ sockets' = sockets
  BY TypesAre DEF Register, Becomes, ConnectionRecord

LEMMA ReadPongIs ==
  ASSUME PartsOK, NEW k \in Conns, ReadPong(k)
  PROVE  Becomes(k, conn[k].task, conn[k].client, FALSE, conn[k].heard, conn[k].silent)
  BY TypesAre DEF ReadPong, Becomes, ConnectionRecord

LEMMA ReadEndIs ==
  ASSUME PartsOK, NEW k \in Conns, ReadEnd(k)
  PROVE  Becomes(k, "ending", conn[k].client, FALSE, conn[k].heard, conn[k].silent)
  BY TypesAre DEF ReadEnd, Becomes, ConnectionRecord

LEMMA UnregisterIs ==
  ASSUME PartsOK, NEW k \in Conns, Unregister(k)
  PROVE  Becomes(k, "closed", conn[k].client, conn[k].pong, conn[k].heard, conn[k].silent)
  BY TypesAre DEF Unregister, Becomes, ConnectionRecord

LEMMA PingIs ==
  ASSUME PartsOK, NEW k \in Conns, Ping(k)
  PROVE  \/ /\ conn[k].client = "up"
            /\ Becomes(k, conn[k].task, conn[k].client, TRUE, 0, conn[k].silent)
         \/ /\ conn[k].client # "up"
            /\ Becomes(k, conn[k].task, conn[k].client, conn[k].pong, conn[k].heard, conn[k].silent)
  BY TypesAre DEF Ping, Pinged, Becomes, ConnectionRecord

LEMMA TickIs ==
  ASSUME PartsOK, NEW k \in Conns, Tick
  PROVE  /\ conn'[k].addr = conn[k].addr /\ conn'[k].task = conn[k].task
         /\ conn'[k].client = conn[k].client /\ conn'[k].pong = conn[k].pong
         /\ conn'[k].heard = IF conn[k].client = "up" THEN Later(conn[k].heard) ELSE 0
         /\ conn'[k].silent = IF conn[k].client = "silent" THEN Later(conn[k].silent) ELSE 0
  BY TypesAre DEF Tick, ConnectionRecord

-----------------------------------------------------------------------------
(* The lives of connections: those at one address are one after the other.   *)

Accepted(k) == conn[k].task # "none"
Served(k) == conn[k].task \notin {"none", "accepted", "pinged"}
Lives(k) == conn[k].client \in {"up", "silent"}

LifeOK(k) ==
  /\ Accepted(k) <=> conn[k].client # "none"
  /\ Lives(k) => conn[k].task \in {"accepted", "pinged", "reading"}
  /\ conn[k].heard # 0 => conn[k].client = "up" /\ Served(k)
  /\ conn[k].silent # 0 => conn[k].client = "silent" /\ Served(k)

InOrder(j, k) ==
  /\ Accepted(k) => Accepted(j)
  /\ Accepted(k) /\ conn[j].addr = conn[k].addr => conn[j].client = "gone"

(* What the ping task knows of connections *)
PingsAreOf ==
  /\ \A k \in pinger.pings : k \in Conns /\ Served(k)
  /\ \A a \in pinger.failed : \E j \in Conns : conn[j].addr = a /\ conn[j].client = "gone"

Succession ==
  /\ \A k \in Conns : LifeOK(k)
  /\ \A j, k \in Conns : j < k => InOrder(j, k)
  /\ PingsAreOf

(* A connection keeps its address, and once it is served, or its client gone, *)
(* it stays so.                                                               *)
Onward(k) ==
  /\ Accepted(k) => Accepted(k)' /\ conn'[k].addr = conn[k].addr
  /\ Served(k) => Served(k)'
  /\ conn[k].client = "gone" => conn'[k].client = "gone"
  /\ LifeOK(k)'

LEMMA SuccessionKept ==
  ASSUME PartsOK, Succession,
         \A k \in Conns : Onward(k),
         \A k \in Conns : Accepted(k)' => Accepted(k),
         \A k \in pinger'.pings : k \in pinger.pings \/ (k \in Conns /\ Served(k)),
         \A a \in pinger'.failed :
           a \in pinger.failed \/ \E j \in Conns : conn[j].addr = a /\ conn[j].client = "gone"
  PROVE  Succession'
<1>1. \A k \in Conns : LifeOK(k)'
  BY DEF Onward
<1>2. ASSUME NEW j \in Conns, NEW k \in Conns, j < k PROVE InOrder(j, k)'
  BY <1>2 DEF Succession, InOrder, Onward
<1>3. PingsAreOf'
  <2>1. \A k \in pinger'.pings : k \in Conns /\ Served(k)'
    BY DEF Succession, PingsAreOf, Onward
  <2>2. ASSUME NEW a \in pinger'.failed
        PROVE  \E j \in Conns : conn'[j].addr = a /\ conn'[j].client = "gone"
    <3>1. PICK j \in Conns : conn[j].addr = a /\ conn[j].client = "gone"
      BY <2>2 DEF Succession, PingsAreOf
    <3>2. Accepted(j)
      BY <3>1 DEF Succession, LifeOK
    <3> QED
      BY <3>1, <3>2 DEF Onward
  <2> QED
    BY <2>1, <2>2 DEF PingsAreOf
<1> QED
  BY <1>1, <1>2, <1>3 DEF Succession

(* The same when one connection moves on and the pinger stays as it is. *)
LEMMA SuccessionMoved ==
  ASSUME PartsOK, Succession, NEW k \in Conns, Onward(k), Accepted(k)' => Accepted(k),
         \A j \in Conns \ {k} : conn'[j] = conn[j],
         UNCHANGED pinger
  PROVE  Succession'
<1>1. ASSUME NEW j \in Conns PROVE Onward(j) /\ (Accepted(j)' => Accepted(j))
  BY DEF Onward, Succession, LifeOK, Lives, Accepted, Served
<1> QED
  BY <1>1, SuccessionKept DEF Succession, PingsAreOf

LEMMA SuccessionNext ==
  ASSUME PartsOK, SocketsAreRead, Succession, [Next]_vars
  PROVE  Succession'
<1>a. \A k \in Conns : conn[k] \in ConnectionRecord /\ LifeOK(k)
  BY TypesAre DEF Succession
<1>b. ASSUME UNCHANGED <<conn, pinger>> PROVE Succession'
  BY <1>b DEF Succession, PingsAreOf, LifeOK, InOrder, Accepted, Served, Lives
<1>1. ASSUME NEW k \in Conns, NEW a \in Addrs, Accept(k, a) PROVE Succession'
  <2>1. /\ ~Accepted(k) /\ \A j \in Conns : j < k => Accepted(j)
        /\ \A j \in Conns : conn[j].addr = a => conn[j].client \in {"none", "gone"}
        /\ pinger' = pinger
    BY <1>1 DEF Accept, Accepted
  <2>2. /\ Accepted(k)' /\ conn'[k].addr = a
        /\ \A j \in Conns \ {k} : conn'[j] = conn[j]
    BY <1>1, AcceptIs DEF Accepted
  <2>3. ASSUME NEW j \in Conns PROVE LifeOK(j)'
    <3>1. CASE j = k
      BY <1>1, <3>1, AcceptIs DEF LifeOK, Lives, Accepted, Served
    <3>2. CASE j # k
      BY <1>a, <2>2, <3>2 DEF LifeOK, Lives, Accepted, Served
    <3> QED
      BY <3>1, <3>2
  <2>4. ASSUME NEW i \in Conns, NEW j \in Conns, i < j PROVE InOrder(i, j)'
    <3>1. InOrder(i, j) /\ LifeOK(i) /\ i # j
      BY <1>a, <2>4, TypesAre DEF Succession
    <3>2. CASE j = k
      BY <2>1, <2>2, <2>4, <3>1, <3>2 DEF InOrder, Accepted, LifeOK
    <3>3. CASE i = k
      <4>1. ~Accepted(j)
        BY <2>1, <3>1, <3>3 DEF InOrder
      <4> QED
        BY <2>2, <3>1, <3>3, <4>1 DEF InOrder, Accepted
    <3>4. CASE i # k /\ j # k
      BY <2>2, <3>1, <3>4 DEF InOrder, Accepted
    <3> QED
      BY <3>2, <3>3, <3>4
  <2>5. PingsAreOf'
    <3>1. \A j \in Conns : Served(j) \/ conn[j].client = "gone" => conn'[j] = conn[j]
      BY <1>a, <2>1, <2>2 DEF Served, Accepted, LifeOK
    <3> QED
      BY <2>1, <3>1 DEF PingsAreOf, Succession, Served
  <2> QED
    BY <2>3, <2>4, <2>5 DEF Succession
<1>2. ASSUME NEW k \in Conns, Leave(k) \/ GiveUp(k) PROVE Succession'
  <2>1. Leave(k) /\ UNCHANGED pinger
    BY <1>2 DEF GiveUp, Leave
  <2>2. Becomes(k, conn[k].task, "gone", conn[k].pong, 0, 0)
    BY <2>1, LeaveIs
  <2>3. Onward(k) /\ Accepted(k)
    BY <1>a, <2>1, <2>2 DEF Onward, Becomes, LifeOK, Lives, Accepted, Served, Leave
  <2> QED
    BY <2>1, <2>2, <2>3, SuccessionMoved DEF Becomes
<1>3. ASSUME NEW k \in Conns, FallSilent(k) PROVE Succession'
  <2>1. Becomes(k, conn[k].task, "silent", FALSE, 0, conn[k].silent) /\ UNCHANGED pinger
    BY <1>3, FallSilentIs DEF FallSilent
  <2>2. Onward(k) /\ Accepted(k)
    BY <1>3, <1>a, <2>1 DEF Onward, Becomes, LifeOK, Lives, Accepted, Served, FallSilent
  <2> QED
    BY <2>1, <2>2, SuccessionMoved DEF Becomes
<1>4. ASSUME NEW k \in Conns, FirstPing(k) PROVE Succession'
  <2>1. UNCHANGED pinger /\ \A j \in Conns \ {k} : conn'[j] = conn[j]
    BY <1>4, FirstPingIs DEF FirstPing, Becomes
  <2>2. Onward(k) /\ Accepted(k)
    BY <1>4, <1>a, FirstPingIs
       DEF Onward, Becomes, LifeOK, Lives, Accepted, Served, FirstPing
  <2> QED
    BY <2>1, <2>2, SuccessionMoved
<1>5. ASSUME NEW k \in Conns, Register(k) PROVE Succession'
  <2>1. UNCHANGED pinger /\ \A j \in Conns \ {k} : conn'[j] = conn[j]
    BY <1>5, RegisterIs DEF Register, Becomes
  <2>2. Onward(k) /\ Accepted(k)
    BY <1>5, <1>a, RegisterIs DEF Onward, Becomes, LifeOK, Lives, Accepted, Served, Register
  <2> QED
    BY <2>1, <2>2, SuccessionMoved
<1>6. ASSUME NEW k \in Conns, ReadPong(k) \/ ReadEnd(k) \/ Unregister(k) PROVE Succession'
  <2>1. UNCHANGED pinger /\ \A j \in Conns \ {k} : conn'[j] = conn[j]
    BY <1>6, ReadPongIs, ReadEndIs, UnregisterIs DEF ReadPong, ReadEnd, Unregister, Becomes
  <2>2. Onward(k) /\ Accepted(k)
    <3>1. CASE ReadPong(k)
      BY <1>a, <3>1, ReadPongIs DEF Onward, Becomes, LifeOK, Lives, Accepted, Served, ReadPong
    <3>2. CASE ReadEnd(k)
      BY <1>a, <3>2, ReadEndIs DEF Onward, Becomes, LifeOK, Lives, Accepted, Served, ReadEnd
    <3>3. CASE Unregister(k)
      BY <1>a, <3>3, UnregisterIs
         DEF Onward, Becomes, LifeOK, Lives, Accepted, Served, Unregister
    <3> QED
      BY <1>6, <3>1, <3>2, <3>3
  <2> QED
    BY <2>1, <2>2, SuccessionMoved
<1>7. ASSUME NEW k \in Conns, Ping(k) PROVE Succession'
  <2>1. /\ k \in pinger.pings /\ Served(k)
        /\ \A j \in Conns \ {k} : conn'[j] = conn[j]
        /\ Onward(k) /\ (Accepted(k)' => Accepted(k))
    <3>1. k \in pinger.pings /\ Served(k)
      BY <1>7 DEF Ping, Succession, PingsAreOf
    <3> QED
      BY <1>7, <1>a, <3>1, PingIs DEF Onward, Becomes, LifeOK, Lives, Accepted, Served
  <2>2. /\ pinger'.pings = pinger.pings \ {k}
        /\ pinger'.failed = pinger.failed \cup {a \in {conn[k].addr} : conn[k].client = "gone"}
    BY <1>7 DEF Ping, PartsOK, PingerOK, PingerRecord
  <2>3. ASSUME NEW j \in Conns PROVE Onward(j) /\ (Accepted(j)' => Accepted(j))
    BY <1>a, <2>1 DEF Onward, LifeOK, Lives, Accepted, Served
  <2> QED
    BY <2>2, <2>3, SuccessionKept
<1>8. ASSUME NEW a \in Addrs, PingFailed(a) PROVE Succession'
  <2>1. /\ conn' = conn /\ pinger'.pings = pinger.pings
        /\ pinger'.failed \subseteq pinger.failed
    BY <1>8 DEF PingFailed, PartsOK, PingerOK, PingerRecord
  <2>2. ASSUME NEW j \in Conns PROVE Onward(j) /\ (Accepted(j)' => Accepted(j))
    BY <1>a, <2>1 DEF Onward, LifeOK, Lives, Accepted, Served
  <2> QED
    BY <2>1, <2>2, SuccessionKept
<1>9. CASE PingRound
  <2>1. conn' = conn /\ pinger'.pings = {k \in Conns : Registered(k)} /\ pinger'.failed = pinger.failed
    BY <1>9 DEF PingRound, PartsOK, PingerOK, PingerRecord
  <2>2. ASSUME NEW j \in Conns PROVE Onward(j) /\ (Accepted(j)' => Accepted(j))
    BY <1>a, <2>1 DEF Onward, LifeOK, Lives, Accepted, Served
  <2>3. ASSUME NEW k \in Conns, Registered(k) PROVE Served(k)
    BY <2>3, TypesAre DEF Registered, SocketsAreRead, Served
  <2> QED
    BY <2>1, <2>2, <2>3, SuccessionKept
<1>10. CASE PingsJoined
  <2>1. conn' = conn /\ pinger'.pings = pinger.pings /\ pinger'.failed = pinger.failed
    BY <1>10 DEF PingsJoined, PartsOK, PingerOK, PingerRecord
  <2>2. ASSUME NEW j \in Conns PROVE Onward(j) /\ (Accepted(j)' => Accepted(j))
    BY <1>a, <2>1 DEF Onward, LifeOK, Lives, Accepted, Served
  <2> QED
    BY <2>1, <2>2, SuccessionKept
<1>11. CASE Tick
  <2>1. pinger'.pings = pinger.pings /\ pinger'.failed = pinger.failed
    BY <1>11 DEF Tick, PartsOK, PingerOK, PingerRecord
  <2>2. ASSUME NEW j \in Conns PROVE Onward(j) /\ (Accepted(j)' => Accepted(j))
    <3>1. conn[j].task \in {"none", "reading", "closed"}
      BY <1>11 DEF Tick, NothingIsDue
    <3> QED
      BY <1>11, <1>a, <3>1, TickIs DEF Onward, LifeOK, Lives, Accepted, Served
  <2> QED
    BY <2>1, <2>2, SuccessionKept
<1>12. CASE (\E a \in Addrs : RemoveSocket(a) \/ RemovePong(a)) \/ HandlePong \/ TrackRound
            \/ TrackEnd \/ UNCHANGED vars
  BY <1>12, <1>b DEF RemoveSocket, RemovePong, HandlePong, TrackRound, TrackEnd, vars
<1> QED
  BY <1>1, <1>2, <1>3, <1>4, <1>5, <1>6, <1>7, <1>8, <1>9, <1>10, <1>11, <1>12 DEF Next

LEMMA SuccessionInit == Init => Succession
  BY DEF Init, Succession, PingsAreOf, LifeOK, InOrder, Accepted, Served, Lives, NoConnection

LEMMA SuccessionInvariant == Spec => [](PartsOK /\ SocketsAreRead /\ Succession)
<1>1. Init => SocketsAreRead
  BY DEF Init, SocketsAreRead
<1> QED
  BY <1>1, TypeInit, TypeNext, ReadNext, SuccessionInit, SuccessionNext, PTL DEF Spec

-----------------------------------------------------------------------------
(* Silent connections. An entry of app_pongs is at least as old as the       *)
(* silence of the connection at its address, and the tracker sees it in time.*)

Queued(a) == \E i \in DOMAIN channel : channel[i] = a

(* No Pong of the connection is on its way. *)
Quiet(j) == Accepted(j) => Served(j) /\ (conn[j].task = "reading" => ~conn[j].pong)

SilentIsHeld(k) ==
  LET a == conn[k].addr
  IN  conn[k].client = "silent" =>
        /\ conn[k].silent > 0 => ~Queued(a) /\ \A j \in Conns : conn[j].addr = a => Quiet(j)
        /\ pongs[a] # Never => conn[k].silent <= pongs[a]

SilenceIsHeld == \A k \in Conns : SilentIsHeld(k)

Multiple(w) == \E n \in Nat : w = n * Step

(* What the tracker finds. A step of time has to divide its period. *)
AgesAreBounded ==
  /\ tracker.wait <= TrackPeriod /\ Multiple(tracker.wait)
  /\ \A a, b \in tracker.socket : a = b
  /\ \A a \in Addrs : pongs[a] # Never =>
       /\ pongs[a] <= PongLimit + TrackPeriod
       /\ tracker.pc = "sleep" => pongs[a] + tracker.wait <= PongLimit + TrackPeriod
       /\ tracker.pc = "loop" /\ pongs[a] > PongLimit => a \in tracker.expired \cup tracker.socket

Divides == Multiple(TrackPeriod)

LEMMA Multiples ==
  ASSUME NEW w \in Nat, Multiple(w)
  PROVE  /\ w > 0 => w >= Step /\ Multiple(w - Step)
         /\ Multiple(0)
<1>1. PICK n \in Nat : w = n * Step
  BY DEF Multiple
<1>2. Multiple(0)
  BY StepAssumption DEF Multiple
<1>3. ASSUME w > 0 PROVE w >= Step /\ Multiple(w - Step)
  <2>1. n # 0
    BY <1>1, <1>3, StepAssumption
  <2>2. PICK m \in Nat : n = m + 1
    BY <2>1
  <2>3. w = m * Step + Step
    BY <1>1, <2>2, StepAssumption
  <2>4. m * Step \in Nat
    BY StepAssumption
  <2>5. w - Step = m * Step /\ w >= Step
    BY <2>3, <2>4, StepAssumption
  <2> QED
    BY <2>5 DEF Multiple
<1> QED
  BY <1>2, <1>3

LEMMA AgesNext ==
  ASSUME PartsOK, Divides, AgesAreBounded, [Next]_vars
  PROVE  AgesAreBounded'
<1>a. /\ tracker \in TrackerRecord /\ pongs \in [Addrs -> Times \cup {Never}]
      /\ Times \subseteq Nat /\ tracker.wait \in Nat
      /\ \A a \in Addrs : pongs[a] = Never \/ pongs[a] \in Nat
  BY TypesAre DEF PartsOK, TrackerOK, PongsOK, Times
<1>b. PongLimit = 181 /\ TrackPeriod = 90
  BY DEF PongLimit, TrackPeriod
<1>1. CASE UNCHANGED <<pongs, tracker>>
  BY <1>1 DEF AgesAreBounded
<1>2. CASE HandlePong
  <2>1. pongs' = [pongs EXCEPT ![Head(channel)] = 0]
    BY <1>2 DEF HandlePong
  <2>2. tracker' = tracker
    BY <1>2 DEF HandlePong
  <2>3. \A a \in Addrs : pongs'[a] = pongs[a] \/ pongs'[a] = 0
    BY <1>a, <2>1
  <2> QED
    BY <1>a, <1>b, <2>2, <2>3 DEF AgesAreBounded
<1>3. CASE TrackRound
  <2>1. /\ tracker'.pc = "loop" /\ tracker'.expired = Expired
        /\ tracker'.wait = tracker.wait /\ pongs' = pongs
        /\ tracker'.socket = tracker.socket
    BY <1>3, <1>a DEF TrackRound, TrackerRecord
  <2> QED
    BY <2>1, <1>a DEF AgesAreBounded, Expired
<1>4. ASSUME NEW b \in Addrs, RemoveSocket(b) PROVE AgesAreBounded'
  <2>1. /\ tracker'.pc = tracker.pc /\ tracker'.expired = tracker.expired \ {b}
        /\ tracker.socket = {} /\ tracker'.socket = {b}
        /\ tracker'.wait = tracker.wait /\ pongs' = pongs
    BY <1>4, <1>a DEF RemoveSocket, TrackerRecord
  <2> QED
    BY <2>1, <1>a DEF AgesAreBounded
<1>5. ASSUME NEW b \in Addrs, RemovePong(b) PROVE AgesAreBounded'
  <2>1. /\ tracker'.pc = tracker.pc /\ tracker'.expired = tracker.expired
        /\ tracker'.socket = {} /\ tracker'.wait = tracker.wait
        /\ pongs' = [pongs EXCEPT ![b] = Never]
    BY <1>5, <1>a DEF RemovePong, TrackerRecord
  <2>2. b \in tracker.socket /\ \A a \in tracker.socket : a = b
    BY <1>5 DEF RemovePong, AgesAreBounded
  <2>3. pongs'[b] = Never /\ \A a \in Addrs \ {b} : pongs'[a] = pongs[a]
    BY <1>a, <2>1
  <2> QED
    BY <2>1, <2>2, <2>3, <1>a DEF AgesAreBounded
<1>6. CASE TrackEnd
  <2>1. /\ tracker.pc = "loop" /\ tracker.expired = {} /\ tracker.socket = {}
        /\ tracker'.pc = "sleep" /\ tracker'.wait = TrackPeriod /\ pongs' = pongs
        /\ tracker'.socket = {}
    BY <1>6, <1>a DEF TrackEnd, TrackerRecord
  <2> QED
    BY <2>1, <1>a, <1>b DEF AgesAreBounded, Divides
<1>7. CASE Tick
  <2>1. /\ tracker.pc = "sleep" /\ tracker.wait > 0
        /\ tracker'.pc = tracker.pc /\ tracker'.wait = Sooner(tracker.wait)
        /\ tracker'.socket = tracker.socket
        /\ \A a \in Addrs : pongs'[a] = IF pongs[a] = Never THEN Never ELSE Later(pongs[a])
    BY <1>7, <1>a DEF Tick, NothingIsDue, TrackerRecord
  <2>2. tracker.wait >= Step /\ tracker'.wait = tracker.wait - Step /\ Multiple(tracker'.wait)
    BY <1>a, <2>1, Multiples, SoonerIs DEF AgesAreBounded
  <2>3. ASSUME NEW a \in Addrs, pongs'[a] # Never
        PROVE  pongs'[a] + tracker'.wait <= PongLimit + TrackPeriod /\ pongs'[a] \in Nat
    <3>1. pongs[a] \in Nat /\ pongs[a] # Never /\ pongs'[a] = Later(pongs[a])
      BY <1>a, <2>1, <2>3
    <3>2. pongs'[a] \in Nat /\ pongs'[a] <= pongs[a] + Step
      BY <3>1, LaterIs
    <3>3. pongs[a] + tracker.wait <= PongLimit + TrackPeriod
      BY <2>1, <3>1 DEF AgesAreBounded
    <3> QED
      BY <1>a, <1>b, <2>2, <3>1, <3>2, <3>3, StepAssumption
  <2>4. tracker'.wait \in Nat /\ tracker'.wait <= TrackPeriod
    BY <1>a, <1>b, <2>2, StepAssumption DEF AgesAreBounded
  <2> QED
    BY <1>b, <2>1, <2>2, <2>3, <2>4 DEF AgesAreBounded
<1>8. CASE \/ \E k \in Conns : \/ \E a \in Addrs : Accept(k, a)
                               \/ Leave(k) \/ FallSilent(k) \/ GiveUp(k)
                               \/ FirstPing(k) \/ Register(k) \/ ReadPong(k) \/ ReadEnd(k)
                               \/ Unregister(k) \/ Ping(k)
           \/ \E a \in Addrs : PingFailed(a)
           \/ PingRound \/ PingsJoined \/ UNCHANGED vars
  <2>1. UNCHANGED <<pongs, tracker>>
    BY <1>8 DEF Accept, Leave, FallSilent, GiveUp, FirstPing, Register, ReadPong, ReadEnd,
                Unregister, Ping, PingFailed, PingRound, PingsJoined, vars
  <2> QED
    BY <2>1, <1>1
<1> QED
  BY <1>2, <1>3, <1>4, <1>5, <1>6, <1>7, <1>8 DEF Next

LEMMA AgesInit == Init => AgesAreBounded
<1>1. Multiple(0)
  BY StepAssumption DEF Multiple
<1> QED
  BY <1>1 DEF Init, AgesAreBounded, TrackPeriod

(* What most steps make of a silent connection, of an entry of app_pongs, of   *)
(* the channel and of what a connection may still send.                      *)
SilenceGoesOn(k) == conn'[k].client = "silent" =>
  /\ conn'[k].addr = conn[k].addr
  /\ \/ conn'[k].silent = 0
     \/ conn[k].client = "silent" /\ conn'[k].silent = conn[k].silent

PongGoesOn(a) ==
  /\ pongs'[a] \in {pongs[a], Never} \/ (pongs'[a] = 0 /\ Queued(a))
  /\ Queued(a)' => Queued(a) \/ \E j \in Conns : conn[j].addr = a /\ ~Quiet(j)

QuietGoesOn(j) ==
  conn'[j].client = "up" \/ (conn'[j].addr = conn[j].addr /\ (Quiet(j) => Quiet(j)'))

LEMMA SilenceKept ==
  ASSUME PartsOK, PartsOK', Succession', SilenceIsHeld,
         \A k \in Conns : SilenceGoesOn(k) /\ QuietGoesOn(k),
         \A a \in Addrs : PongGoesOn(a)
  PROVE  SilenceIsHeld'
<1> SUFFICES ASSUME NEW k \in Conns, conn'[k].client = "silent" PROVE SilentIsHeld(k)'
  BY DEF SilenceIsHeld, SilentIsHeld
<1>0. PICK a \in Addrs : a = conn[k].addr
  BY TypesAre
<1>1. conn'[k].addr = a /\ a \in Addrs
  BY <1>0, TypesAre DEF SilenceGoesOn
<1>5. \/ conn'[k].silent = 0
      \/ conn[k].client = "silent" /\ conn'[k].silent = conn[k].silent
  BY DEF SilenceGoesOn
<1>2. pongs'[a] = Never \/ pongs'[a] \in Nat
  <2>1. pongs' \in [Addrs -> Times \cup {Never}]
    BY DEF PartsOK, PongsOK
  <2>2. Times \subseteq Nat
    BY DEF Times
  <2> QED
    BY <1>1, <2>1, <2>2
<1>3. CASE conn'[k].silent = 0
  BY <1>1, <1>2, <1>3 DEF SilentIsHeld
<1>4. CASE conn[k].client = "silent" /\ conn'[k].silent = conn[k].silent /\ conn'[k].silent # 0
  <2>0. conn[k].silent \in Nat /\ conn[k].silent > 0
    BY <1>4, TypesAre
  <2>1. /\ ~Queued(a) /\ \A j \in Conns : conn[j].addr = a => Quiet(j)
        /\ pongs[a] # Never => conn[k].silent <= pongs[a]
    BY <1>0, <1>4, <2>0 DEF SilenceIsHeld, SilentIsHeld
  <2>2. ~Queued(a)'
    BY <1>1, <2>1 DEF PongGoesOn
  <2>3. pongs'[a] # Never => conn'[k].silent <= pongs'[a]
    BY <1>1, <1>4, <2>1 DEF PongGoesOn
  <2>4. ASSUME NEW j \in Conns, conn'[j].addr = a PROVE Quiet(j)'
    <3>1. CASE conn'[j].client = "up"
      <4>1. j # k /\ Accepted(j)' /\ Accepted(k)'
        BY <3>1 DEF Succession, LifeOK
      <4>2. j < k \/ k < j
        BY <4>1, TypesAre
      <4>3. CASE j < k
        BY <1>1, <2>4, <3>1, <4>1, <4>3 DEF Succession, InOrder
      <4>4. CASE k < j
        BY <1>1, <2>4, <4>1, <4>4 DEF Succession, InOrder
      <4> QED
        BY <4>2, <4>3, <4>4
    <3>2. CASE conn'[j].client # "up"
      BY <2>1, <2>4, <3>2 DEF QuietGoesOn
    <3> QED
      BY <3>1, <3>2
  <2> QED
    BY <1>1, <2>2, <2>3, <2>4 DEF SilentIsHeld
<1> QED
  BY <1>3, <1>4, <1>5

(* A step that leaves the pongs alone and moves one connection on. *)
LEMMA SilenceMoved ==
  ASSUME PartsOK, PartsOK', Succession', SilenceIsHeld, NEW k \in Conns,
         UNCHANGED <<pongs, channel>>,
         \A j \in Conns \ {k} : conn'[j] = conn[j],
         SilenceGoesOn(k), QuietGoesOn(k)
  PROVE  SilenceIsHeld'
<1>1. ASSUME NEW j \in Conns, j # k PROVE SilenceGoesOn(j) /\ QuietGoesOn(j)
  BY <1>1 DEF SilenceGoesOn, QuietGoesOn, Quiet, Accepted, Served
<1>2. \A a \in Addrs : PongGoesOn(a)
  BY DEF PongGoesOn, Queued
<1> QED
  BY <1>1, <1>2, SilenceKept

LEMMA SilenceNext ==
  ASSUME PartsOK, PartsOK', Succession, Succession', SilenceIsHeld, [Next]_vars
  PROVE  SilenceIsHeld'
<1>a. \A k \in Conns : conn[k] \in ConnectionRecord /\ LifeOK(k)
  BY TypesAre DEF Succession
<1>1. ASSUME NEW k \in Conns, NEW b \in Addrs, Accept(k, b) PROVE SilenceIsHeld'
  <2>1. UNCHANGED <<pongs, channel>>
    BY <1>1 DEF Accept
  <2>2. conn'[k].client = "up" /\ \A j \in Conns \ {k} : conn'[j] = conn[j]
    BY <1>1, AcceptIs
  <2> QED
    BY <2>1, <2>2, SilenceMoved DEF SilenceGoesOn, QuietGoesOn
<1>2. ASSUME NEW k \in Conns, Leave(k) \/ GiveUp(k) PROVE SilenceIsHeld'
  <2>1. Leave(k) /\ UNCHANGED <<pongs, channel>>
    BY <1>2 DEF GiveUp, Leave
  <2>2. Becomes(k, conn[k].task, "gone", conn[k].pong, 0, 0)
    BY <2>1, LeaveIs
  <2> QED
    BY <2>1, <2>2, SilenceMoved
       DEF Becomes, Quiet, Accepted, Served, SilenceGoesOn, QuietGoesOn
<1>3. ASSUME NEW k \in Conns, FallSilent(k) PROVE SilenceIsHeld'
  <2>1. Becomes(k, conn[k].task, "silent", FALSE, 0, conn[k].silent) /\ UNCHANGED <<pongs, channel>>
    BY <1>3, FallSilentIs DEF FallSilent
  <2>2. conn[k].silent = 0
    BY <1>3, <1>a DEF FallSilent, LifeOK
  <2> QED
    BY <2>1, <2>2, SilenceMoved
       DEF Becomes, Quiet, Accepted, Served, SilenceGoesOn, QuietGoesOn
<1>4. ASSUME NEW k \in Conns, FirstPing(k) PROVE SilenceIsHeld'
  <2>1. ~Quiet(k) /\ UNCHANGED <<pongs, channel>>
    BY <1>4 DEF FirstPing, Quiet, Accepted, Served
  <2>2. PICK t, p : Becomes(k, t, conn[k].client, p, conn[k].heard, conn[k].silent)
    BY <1>4, FirstPingIs
  <2> QED
    BY <2>1, <2>2, SilenceMoved DEF Becomes, SilenceGoesOn, QuietGoesOn
<1>5. ASSUME NEW k \in Conns, Register(k) PROVE SilenceIsHeld'
  <2>1. ~Quiet(k) /\ UNCHANGED <<pongs, channel>>
    BY <1>5 DEF Register, Quiet, Accepted, Served
  <2>2. PICK t, c : /\ Becomes(k, t, c, conn[k].pong, conn[k].heard, conn[k].silent)
                    /\ c = conn[k].client \/ c = "gone"
    BY <1>5, RegisterIs
  <2> QED
    BY <2>1, <2>2, SilenceMoved DEF Becomes, SilenceGoesOn, QuietGoesOn
<1>6. ASSUME NEW k \in Conns, ReadEnd(k) \/ Unregister(k) PROVE SilenceIsHeld'
  <2>1. UNCHANGED <<pongs, channel>>
    BY <1>6 DEF ReadEnd, Unregister
  <2>2. PICK t, p : /\ Becomes(k, t, conn[k].client, p, conn[k].heard, conn[k].silent)
                    /\ t \in {"ending", "closed"}
    BY <1>6, ReadEndIs, UnregisterIs
  <2> QED
    BY <2>1, <2>2, SilenceMoved
       DEF Becomes, Quiet, Accepted, Served, SilenceGoesOn, QuietGoesOn
<1>7. ASSUME NEW k \in Conns, Ping(k) PROVE SilenceIsHeld'
  <2>1. UNCHANGED <<pongs, channel>>
    BY <1>7 DEF Ping
  <2> QED
    BY <1>7, <2>1, PingIs, SilenceMoved
       DEF Becomes, Quiet, Accepted, Served, SilenceGoesOn, QuietGoesOn
<1>8. ASSUME NEW k \in Conns, ReadPong(k) PROVE SilenceIsHeld'
  <2>1. Becomes(k, conn[k].task, conn[k].client, FALSE, conn[k].heard, conn[k].silent)
    BY <1>8, ReadPongIs
  <2>2. pongs' = pongs /\ channel' = Append(channel, conn[k].addr) /\ ~Quiet(k)
    BY <1>8 DEF ReadPong, Quiet, Accepted
  <2>3. ASSUME NEW a \in Addrs, Queued(a)' PROVE Queued(a) \/ a = conn[k].addr
    BY <2>2, <2>3 DEF Queued, PartsOK, ChannelOK
  <2>4. \A j \in Conns : conn'[j].addr = conn[j].addr /\ (Quiet(j) => Quiet(j)')
    BY <2>1 DEF Becomes, Quiet, Accepted, Served
  <2>5. \A j \in Conns : conn'[j].client = conn[j].client /\ conn'[j].silent = conn[j].silent
    BY <2>1 DEF Becomes
  <2>6. \A a \in Addrs : PongGoesOn(a)
    BY <2>2, <2>3 DEF PongGoesOn
  <2>7. \A j \in Conns : SilenceGoesOn(j) /\ QuietGoesOn(j)
    BY <2>4, <2>5 DEF SilenceGoesOn, QuietGoesOn
  <2> QED
    BY <2>6, <2>7, SilenceKept
<1>9. CASE HandlePong
  <2>1. /\ channel # <<>> /\ pongs' = [pongs EXCEPT ![Head(channel)] = 0]
        /\ channel' = Tail(channel) /\ conn' = conn
    BY <1>9 DEF HandlePong
  <2>2. channel \in Seq(Addrs)
    BY DEF PartsOK, ChannelOK
  <2>3. Queued(Head(channel))
    BY <2>1, <2>2 DEF Queued
  <2>4. \A a \in Addrs : pongs'[a] = pongs[a] \/ (pongs'[a] = 0 /\ Queued(a))
    BY <2>1, <2>3, TypesAre
  <2>5. \A a \in Addrs : Queued(a)' => Queued(a)
    BY <2>1, <2>2 DEF Queued
  <2>6. \A j \in Conns : conn'[j].addr = conn[j].addr /\ (Quiet(j) => Quiet(j)')
    BY <2>1 DEF Quiet, Accepted, Served
  <2>7. \A a \in Addrs : PongGoesOn(a)
    BY <2>4, <2>5 DEF PongGoesOn
  <2>8. \A j \in Conns : SilenceGoesOn(j) /\ QuietGoesOn(j)
    BY <2>1, <2>6 DEF SilenceGoesOn, QuietGoesOn
  <2> QED
    BY <2>7, <2>8, SilenceKept
<1>10. ASSUME NEW b \in Addrs, RemovePong(b) PROVE SilenceIsHeld'
  <2>1. pongs' = [pongs EXCEPT ![b] = Never] /\ channel' = channel /\ conn' = conn
    BY <1>10 DEF RemovePong
  <2>2. \A a \in Addrs : pongs'[a] \in {pongs[a], Never}
    BY <2>1, TypesAre
  <2>3. \A j \in Conns : conn'[j].addr = conn[j].addr /\ (Quiet(j) => Quiet(j)')
    BY <2>1 DEF Quiet, Accepted, Served
  <2>4. \A a \in Addrs : Queued(a)' => Queued(a)
    BY <2>1 DEF Queued
  <2>5. \A a \in Addrs : PongGoesOn(a)
    BY <2>2, <2>4 DEF PongGoesOn
  <2>6. \A j \in Conns : SilenceGoesOn(j) /\ QuietGoesOn(j)
    BY <2>1, <2>3 DEF SilenceGoesOn, QuietGoesOn
  <2> QED
    BY <2>5, <2>6, SilenceKept
<1>11. CASE Tick
  <2> SUFFICES ASSUME NEW k \in Conns, conn'[k].client = "silent" PROVE SilentIsHeld(k)'
    BY DEF SilenceIsHeld, SilentIsHeld
  <2>1. /\ channel = <<>> /\ channel' = channel
        /\ \A j \in Conns : /\ conn[j].task \in {"none", "reading", "closed"}
                            /\ conn[j].task = "reading" => ~conn[j].pong
    BY <1>11 DEF Tick, NothingIsDue
  <2>2. ASSUME NEW j \in Conns PROVE Quiet(j)'
    BY <1>11, <2>1, TickIs DEF Quiet, Accepted, Served
  <2>3. conn[k].client = "silent" /\ conn'[k].silent = Later(conn[k].silent)
        /\ conn'[k].addr = conn[k].addr
    BY <1>11, TickIs
  <2>4. ~Queued(conn[k].addr)'
    BY <2>1, <2>3 DEF Queued
  <2>5. ASSUME pongs'[conn[k].addr] # Never PROVE conn'[k].silent <= pongs'[conn[k].addr]
    <3> DEFINE p == pongs[conn[k].addr]
    <3>1. conn[k].addr \in Addrs /\ conn[k].silent \in Nat
      BY TypesAre
    <3>2. p # Never /\ pongs'[conn[k].addr] = Later(p)
      BY <1>11, <2>5, <3>1 DEF Tick
    <3>3. p \in Nat
      BY <3>1, <3>2, TypesAre
    <3>4. conn[k].silent <= p
      BY <2>3, <3>2 DEF SilenceIsHeld, SilentIsHeld
    <3> QED
      BY <2>3, <3>1, <3>2, <3>3, <3>4, LaterIs
  <2> QED
    BY <2>2, <2>3, <2>4, <2>5 DEF SilentIsHeld
<1>12. CASE \/ \E a \in Addrs : PingFailed(a) \/ RemoveSocket(a)
            \/ PingRound \/ PingsJoined \/ TrackRound \/ TrackEnd \/ UNCHANGED vars
  <2>1. UNCHANGED <<conn, pongs, channel>>
    BY <1>12 DEF PingFailed, RemoveSocket, PingRound, PingsJoined, TrackRound, TrackEnd, vars
  <2> QED
    BY <2>1 DEF SilenceIsHeld, SilentIsHeld, Quiet, Queued, Accepted, Served
<1> QED
  BY <1>1, <1>2, <1>3, <1>4, <1>5, <1>6, <1>7, <1>8, <1>9, <1>10, <1>11, <1>12 DEF Next

(* A client that has answered before is out of app_state in time, for any    *)
(* number of connections at its address before and after: the entry of its   *)
(* address is at least as old as its silence, and the tracker has not seen   *)
(* it at its last look only if it was young enough then.                     *)
THEOREM SilentCorrect ==
  ASSUME Divides
  PROVE  Spec => []SilentAreRemoved
<1> DEFINE SilentInv == PartsOK /\ SocketsAreRead /\ Succession /\ SilenceIsHeld /\ AgesAreBounded
<1>1. Init => SilentInv
  <2> SUFFICES ASSUME Init PROVE SilentInv
    OBVIOUS
  <2>1. SocketsAreRead /\ SilenceIsHeld
    BY DEF Init, SocketsAreRead, SilenceIsHeld, SilentIsHeld, NoConnection
  <2> QED
    BY <2>1, TypeInit, SuccessionInit, AgesInit
<1>2. SilentInv /\ [Next]_vars => SilentInv'
  <2> SUFFICES ASSUME SilentInv, [Next]_vars PROVE SilentInv'
    OBVIOUS
  <2>1. PartsOK' /\ SocketsAreRead' /\ Succession' /\ AgesAreBounded'
    BY TypeNext, ReadNext, SuccessionNext, AgesNext
  <2> QED
    BY <2>1, SilenceNext
<1>3. SilentInv => SilentAreRemoved
  <2> SUFFICES ASSUME SilentInv, NEW k \in Conns, pongs[conn[k].addr] # Never
               PROVE  conn[k].silent <= PongLimit + TrackPeriod
    BY DEF SilentAreRemoved
  <2> DEFINE p == pongs[conn[k].addr]
  <2>1. conn[k].addr \in Addrs /\ conn[k].silent \in Nat
    BY TypesAre
  <2>2. p \in Nat /\ p <= PongLimit + TrackPeriod
    BY <2>1, TypesAre DEF AgesAreBounded
  <2>3. CASE conn[k].client = "silent"
    <3>1. conn[k].silent <= p
      BY <2>3 DEF SilenceIsHeld, SilentIsHeld
    <3> QED
      BY <2>1, <2>2, <3>1 DEF PongLimit, TrackPeriod
  <2>4. CASE conn[k].client # "silent"
    BY <2>1, <2>4 DEF Succession, LifeOK, PongLimit, TrackPeriod
  <2> QED
    BY <2>3, <2>4
<1> QED
  BY <1>1, <1>2, <1>3, PTL DEF Spec

-----------------------------------------------------------------------------
(* Answering connections. Every ping round covers those that are registered, *)
(* and a Pong is handled before time passes again.                           *)

(* What no step takes back *)
Remains(k) ==
  /\ Accepted(k) => Accepted(k)' /\ conn'[k].addr = conn[k].addr
  /\ Served(k) => Served(k)'
  /\ Accepted(k) /\ conn[k].client # "up" => conn'[k].client # "up"

LEMMA ConnsRemain ==
  ASSUME PartsOK, Succession, [Next]_vars
  PROVE  \A k \in Conns : Remains(k)
<1>a. \A k \in Conns : conn[k] \in ConnectionRecord /\ LifeOK(k)
  BY TypesAre DEF Succession
<1>b. ASSUME NEW k \in Conns, \A j \in Conns \ {k} : conn'[j] = conn[j], Remains(k)
      PROVE  \A j \in Conns : Remains(j)
  BY <1>b DEF Remains, Accepted, Served
<1>1. ASSUME NEW k \in Conns, NEW a \in Addrs, Accept(k, a) PROVE \A j \in Conns : Remains(j)
  <2>1. ~Accepted(k)
    BY <1>1 DEF Accept, Accepted
  <2> QED
    BY <1>1, <1>b, <2>1, AcceptIs DEF Remains, Accepted, Served
<1>2. ASSUME NEW k \in Conns, Leave(k) \/ GiveUp(k) PROVE \A j \in Conns : Remains(j)
  BY <1>2, <1>b, LeaveIs DEF GiveUp, Remains, Accepted, Served, Becomes
<1>3. ASSUME NEW k \in Conns, FallSilent(k) PROVE \A j \in Conns : Remains(j)
  BY <1>3, <1>b, FallSilentIs DEF Remains, Accepted, Served, Becomes
<1>4. ASSUME NEW k \in Conns, FirstPing(k) PROVE \A j \in Conns : Remains(j)
  BY <1>4, <1>b, FirstPingIs DEF Remains, Accepted, Served, Becomes, FirstPing
<1>5. ASSUME NEW k \in Conns, Register(k) PROVE \A j \in Conns : Remains(j)
  BY <1>5, <1>b, RegisterIs DEF Remains, Accepted, Served, Becomes
<1>6. ASSUME NEW k \in Conns, ReadPong(k) PROVE \A j \in Conns : Remains(j)
  BY <1>6, <1>b, ReadPongIs DEF Remains, Accepted, Served, Becomes
<1>7. ASSUME NEW k \in Conns, ReadEnd(k) PROVE \A j \in Conns : Remains(j)
  BY <1>7, <1>b, ReadEndIs DEF Remains, Accepted, Served, Becomes
<1>8. ASSUME NEW k \in Conns, Unregister(k) PROVE \A j \in Conns : Remains(j)
  BY <1>8, <1>b, UnregisterIs DEF Remains, Accepted, Served, Becomes
<1>9. ASSUME NEW k \in Conns, Ping(k) PROVE \A j \in Conns : Remains(j)
  BY <1>9, <1>b, PingIs DEF Remains, Accepted, Served, Becomes
<1>10. CASE Tick
  BY <1>10, TickIs DEF Remains, Accepted, Served
<1>11. CASE \/ \E a \in Addrs : PingFailed(a) \/ RemoveSocket(a) \/ RemovePong(a)
            \/ HandlePong \/ PingRound \/ PingsJoined \/ TrackRound \/ TrackEnd \/ UNCHANGED vars
  <2>1. conn' = conn
    BY <1>11 DEF PingFailed, RemoveSocket, RemovePong, HandlePong, PingRound, PingsJoined,
                 TrackRound, TrackEnd, vars
  <2> QED
    BY <2>1 DEF Remains, Accepted, Served
<1> QED
  BY <1>1, <1>2, <1>3, <1>4, <1>5, <1>6, <1>7, <1>8, <1>9, <1>10, <1>11 DEF Next

(* What the pinger knows of the time a registered client has heard nothing   *)
HeardInTime(k) ==
  Registered(k) /\ conn[k].client = "up" =>
    /\ conn[k].heard < ClientTimeout
    /\ pinger.pc = "join" => k \in pinger.pings \/ conn[k].heard + pinger.wait <= SlowPing
    /\ pinger.pc = "sleep" /\ pinger.wait > 0 =>
         conn[k].heard + pinger.wait <= SlowPing + PingPeriod

AllHeardInTime ==
  /\ pinger.pc = "join" => pinger.wait <= SlowPing
  /\ pinger.pc = "sleep" => pinger.wait <= PingPeriod
  /\ \A k \in Conns : HeardInTime(k)

(* The slowest round of pings, the sleep after it and a step of time are no    *)
(* longer than what a client waits. Nothing in the code bounds a slow round.   *)
FinePings == SlowPing + PingPeriod + Step <= ClientTimeout

(* What most steps make of it *)
HearingGoesOn(k) ==
  Registered(k)' /\ conn'[k].client = "up" =>
    \/ conn'[k].heard = 0
    \/ /\ Registered(k) /\ conn[k].client = "up" /\ conn'[k].heard = conn[k].heard
       /\ k \in pinger.pings => k \in pinger'.pings

LEMMA HearingKept ==
  ASSUME PartsOK, AllHeardInTime, pinger'.pc = pinger.pc, pinger'.wait = pinger.wait,
         \A k \in Conns : HearingGoesOn(k)
  PROVE  AllHeardInTime'
<1> SUFFICES ASSUME NEW k \in Conns, Registered(k)', conn'[k].client = "up"
             PROVE  HeardInTime(k)'
  BY DEF AllHeardInTime, HeardInTime
<1>1. CASE conn'[k].heard = 0
  BY <1>1, TypesAre, SlowPingAssumption DEF HeardInTime, AllHeardInTime, ClientTimeout, PingPeriod
<1>2. CASE conn'[k].heard # 0
  <2>1. /\ Registered(k) /\ conn[k].client = "up" /\ conn'[k].heard = conn[k].heard
        /\ k \in pinger.pings => k \in pinger'.pings
    BY <1>2 DEF HearingGoesOn
  <2> QED
    BY <2>1 DEF AllHeardInTime, HeardInTime
<1> QED
  BY <1>1, <1>2

(* A removal takes an entry out; nothing but Register puts one in. *)
LEMMA RegisteredStays ==
  ASSUME NEW k \in Conns, conn'[k].addr = conn[k].addr, PartsOK,
         sockets'[conn[k].addr] \in {0, sockets[conn[k].addr]}, Registered(k)'
  PROVE  Registered(k)
  BY TypesAre DEF Registered

LEMMA HeardNext ==
  ASSUME PartsOK, SocketsAreRead, Succession, AllHeardInTime, FinePings, [Next]_vars
  PROVE  AllHeardInTime'
<1>a. \A k \in Conns : /\ conn[k] \in ConnectionRecord /\ LifeOK(k)
                      /\ k # 0 /\ conn[k].addr \in Addrs
  BY TypesAre DEF Succession
<1>p. pinger \in PingerRecord /\ pinger.wait \in Nat
  BY TypesAre DEF PartsOK, PingerOK
<1>1. ASSUME NEW k \in Conns, NEW a \in Addrs, Accept(k, a) PROVE AllHeardInTime'
  <2>1. UNCHANGED <<sockets, pinger>>
    BY <1>1 DEF Accept
  <2>2. \A j \in Conns : HearingGoesOn(j)
    BY <1>1, <2>1, AcceptIs DEF HearingGoesOn, Registered
  <2> QED
    BY <2>1, <2>2, HearingKept
<1>2. ASSUME NEW k \in Conns, Leave(k) \/ GiveUp(k) \/ FallSilent(k) PROVE AllHeardInTime'
  <2>1. UNCHANGED <<sockets, pinger>>
    BY <1>2 DEF Leave, GiveUp, FallSilent
  <2>2. conn'[k].client # "up" /\ \A j \in Conns \ {k} : conn'[j] = conn[j]
    BY <1>2, LeaveIs, FallSilentIs DEF GiveUp, Becomes
  <2>3. \A j \in Conns : HearingGoesOn(j)
    BY <2>1, <2>2 DEF HearingGoesOn, Registered
  <2> QED
    BY <2>1, <2>3, HearingKept
<1>3. ASSUME NEW k \in Conns, FirstPing(k) \/ ReadPong(k) \/ ReadEnd(k) PROVE AllHeardInTime'
  <2>1. UNCHANGED <<sockets, pinger>>
    BY <1>3 DEF FirstPing, ReadPong, ReadEnd
  <2>2. /\ conn'[k].addr = conn[k].addr /\ conn'[k].client = conn[k].client
        /\ conn'[k].heard = conn[k].heard
        /\ \A j \in Conns \ {k} : conn'[j] = conn[j]
    BY <1>3, FirstPingIs, ReadPongIs, ReadEndIs DEF Becomes
  <2>3. \A j \in Conns : HearingGoesOn(j)
    BY <2>1, <2>2 DEF HearingGoesOn, Registered
  <2> QED
    BY <2>1, <2>3, HearingKept
<1>4. ASSUME NEW k \in Conns, Register(k) PROVE AllHeardInTime'
  <2>1. UNCHANGED pinger
    BY <1>4 DEF Register
  <2>2. /\ conn'[k].heard = 0 /\ conn'[k].addr = conn[k].addr
        /\ \A j \in Conns \ {k} : conn'[j] = conn[j]
    <3>1. conn[k].heard = 0
      BY <1>4, <1>a DEF Register, LifeOK, Served
    <3> QED
      BY <1>4, <3>1, RegisterIs DEF Becomes
  <2>3. ASSUME NEW j \in Conns, j # k, Registered(j)' PROVE Registered(j)
    <3>1. sockets'[conn[j].addr] = j
      BY <2>2, <2>3 DEF Registered
    <3>2. \/ sockets' = [sockets EXCEPT ![conn[k].addr] = k]
          \/ sockets' = sockets
      BY <1>4, RegisterIs
    <3> QED
      BY <1>a, <2>3, <3>1, <3>2, TypesAre DEF Registered
  <2>4. \A j \in Conns : HearingGoesOn(j)
    BY <2>1, <2>2, <2>3 DEF HearingGoesOn
  <2> QED
    BY <2>1, <2>4, HearingKept
<1>5. ASSUME NEW k \in Conns, Unregister(k) PROVE AllHeardInTime'
  <2>1. pinger' = pinger /\ sockets' = [sockets EXCEPT ![conn[k].addr] = 0]
    BY <1>5 DEF Unregister
  <2>2. Becomes(k, "closed", conn[k].client, conn[k].pong, conn[k].heard, conn[k].silent)
    BY <1>5, UnregisterIs
  <2>3. \A j \in Conns : /\ conn'[j].addr = conn[j].addr /\ conn'[j].client = conn[j].client
                        /\ conn'[j].heard = conn[j].heard
                        /\ sockets'[conn[j].addr] \in {0, sockets[conn[j].addr]}
    BY <1>a, <2>1, <2>2, TypesAre DEF Becomes
  <2>4. \A j \in Conns : HearingGoesOn(j)
    BY <2>1, <2>3, RegisteredStays DEF HearingGoesOn
  <2> QED
    BY <2>1, <2>4, HearingKept
<1>6. ASSUME NEW a \in Addrs, PingFailed(a) \/ RemoveSocket(a) PROVE AllHeardInTime'
  <2>1. /\ conn' = conn /\ sockets' = [sockets EXCEPT ![a] = 0]
        /\ pinger'.pc = pinger.pc /\ pinger'.wait = pinger.wait /\ pinger'.pings = pinger.pings
    BY <1>6, <1>p DEF PingFailed, RemoveSocket, PingerRecord
  <2>2. \A j \in Conns : sockets'[conn[j].addr] \in {0, sockets[conn[j].addr]}
    BY <1>a, <2>1, TypesAre
  <2>3. \A j \in Conns : HearingGoesOn(j)
    BY <2>1, <2>2, RegisteredStays DEF HearingGoesOn
  <2> QED
    BY <2>1, <2>3, HearingKept
<1>7. ASSUME NEW k \in Conns, Ping(k) PROVE AllHeardInTime'
  <2>1. /\ sockets' = sockets /\ pinger'.pc = pinger.pc /\ pinger'.wait = pinger.wait
        /\ pinger'.pings = pinger.pings \ {k}
    BY <1>7, <1>p DEF Ping, PingerRecord
  <2>2. /\ conn'[k].addr = conn[k].addr
        /\ conn'[k].client = "up" => conn'[k].heard = 0
        /\ \A j \in Conns \ {k} : conn'[j] = conn[j]
    BY <1>7, PingIs DEF Becomes
  <2>3. \A j \in Conns : HearingGoesOn(j)
    BY <2>1, <2>2 DEF HearingGoesOn, Registered
  <2> QED
    BY <2>1, <2>3, HearingKept
<1>8. CASE PingRound
  <2>1. /\ UNCHANGED <<conn, sockets>> /\ pinger'.pc = "join" /\ pinger'.wait = SlowPing
        /\ pinger'.pings = {k \in Conns : Registered(k)}
    BY <1>8, <1>p DEF PingRound, PingerRecord
  <2> QED
    BY <2>1, SlowPingAssumption DEF AllHeardInTime, HeardInTime, Registered
<1>9. CASE PingsJoined
  <2>1. /\ UNCHANGED <<conn, sockets>> /\ pinger.pc = "join" /\ pinger.pings = {}
        /\ pinger'.pc = "sleep" /\ pinger'.wait = PingPeriod
    BY <1>9, <1>p DEF PingsJoined, PingerRecord
  <2>2. ASSUME NEW k \in Conns, Registered(k), conn[k].client = "up"
        PROVE  conn[k].heard < ClientTimeout /\ conn[k].heard + PingPeriod <= SlowPing + PingPeriod
    <3>1. conn[k].heard < ClientTimeout /\ conn[k].heard + pinger.wait <= SlowPing
      BY <2>1, <2>2 DEF AllHeardInTime, HeardInTime
    <3> QED
      BY <1>p, <3>1, TypesAre, SlowPingAssumption DEF PingPeriod
  <2>3. \A k \in Conns : HeardInTime(k)'
    BY <2>1, <2>2 DEF HeardInTime, Registered
  <2> QED
    BY <2>1, <2>3, TypesAre DEF AllHeardInTime, PingPeriod
<1>10. CASE Tick
  <2>1. /\ sockets' = sockets /\ pinger'.wait = Sooner(pinger.wait)
        /\ pinger'.pc = pinger.pc /\ pinger'.pings = pinger.pings
        /\ \/ pinger.pc = "sleep" /\ pinger.wait > 0
           \/ /\ pinger.pc = "join" /\ pinger.wait >= Step
              /\ \A k \in pinger.pings : conn[k].client = "silent"
    BY <1>10, <1>p DEF Tick, NothingIsDue, HeldUp, PingerRecord
  <2>2. /\ pinger'.wait \in Nat /\ pinger'.wait <= pinger.wait
        /\ pinger'.wait > 0 \/ pinger.pc = "join" => pinger'.wait = pinger.wait - Step
    BY <1>p, <2>1, SoonerIs, StepAssumption
  <2>3. ASSUME NEW k \in Conns, Registered(k)', conn'[k].client = "up" PROVE HeardInTime(k)'
    <3>1. Registered(k) /\ conn[k].client = "up" /\ conn'[k].heard = Later(conn[k].heard)
      BY <1>10, <2>1, <2>3, TickIs DEF Registered
    <3>2. conn[k].heard \in Nat
      BY TypesAre
    <3>3. conn'[k].heard \in Nat /\ conn'[k].heard <= conn[k].heard + Step
      BY <3>1, <3>2, LaterIs
    <3>4. CASE pinger.pc = "sleep"
      <4>1. conn[k].heard + pinger.wait <= SlowPing + PingPeriod /\ pinger.wait > 0
        BY <2>1, <3>1, <3>4 DEF AllHeardInTime, HeardInTime
      <4>2. conn'[k].heard < ClientTimeout
        BY <1>p, <3>2, <3>3, <4>1, StepAssumption, SlowPingAssumption
           DEF FinePings, PingPeriod, ClientTimeout
      <4>3. pinger'.wait > 0 => conn'[k].heard + pinger'.wait <= SlowPing + PingPeriod
        BY <1>p, <2>2, <3>2, <3>3, <4>1, StepAssumption, SlowPingAssumption DEF PingPeriod
      <4> QED
        BY <2>1, <3>4, <4>2, <4>3 DEF HeardInTime
    <3>5. CASE pinger.pc = "join"
      <4>1. conn[k].heard + pinger.wait <= SlowPing /\ pinger.wait >= Step
        BY <2>1, <3>1, <3>5 DEF AllHeardInTime, HeardInTime
      <4>2. conn'[k].heard < ClientTimeout
        BY <1>p, <3>2, <3>3, <4>1, StepAssumption, SlowPingAssumption
           DEF FinePings, PingPeriod, ClientTimeout
      <4>3. conn'[k].heard + pinger'.wait <= SlowPing
        BY <1>p, <2>2, <3>2, <3>3, <3>5, <4>1, StepAssumption, SlowPingAssumption
      <4> QED
        BY <2>1, <3>5, <4>2, <4>3 DEF HeardInTime
    <3> QED
      BY <2>1, <3>4, <3>5
  <2>4. \A k \in Conns : HeardInTime(k)'
    BY <2>3 DEF HeardInTime
  <2>5. /\ pinger'.pc = "join" => pinger'.wait <= SlowPing
        /\ pinger'.pc = "sleep" => pinger'.wait <= PingPeriod
    BY <1>p, <2>1, <2>2, SlowPingAssumption DEF AllHeardInTime, PingPeriod
  <2> QED
    BY <2>4, <2>5 DEF AllHeardInTime
<1>11. CASE \/ \E a \in Addrs : RemovePong(a)
            \/ HandlePong \/ TrackRound \/ TrackEnd \/ UNCHANGED vars
  <2>1. UNCHANGED <<conn, sockets, pinger>>
    BY <1>11 DEF RemovePong, HandlePong, TrackRound, TrackEnd, vars
  <2> QED
    BY <2>1 DEF AllHeardInTime, HeardInTime, Registered
<1> QED
  BY <1>1, <1>2, <1>3, <1>4, <1>5, <1>6, <1>7, <1>8, <1>9, <1>10, <1>11 DEF Next

(* The periods fit: a client that is registered is pinged before it gives    *)
(* the connection up, whenever in a ping round it registered and however     *)
(* many others there are, as long as none of them holds up a round for more  *)
(* than a client waits beyond the period of the pings.                       *)
THEOREM HeardCorrect ==
  ASSUME FinePings
  PROVE  Spec => []RegisteredAreHeard
<1> DEFINE HeardInv == PartsOK /\ SocketsAreRead /\ Succession /\ AllHeardInTime
<1>1. Init => HeardInv
  <2> SUFFICES ASSUME Init PROVE HeardInv
    OBVIOUS
  <2>1. SocketsAreRead /\ PartsOK /\ Succession
    BY TypeInit, SuccessionInit DEF Init, SocketsAreRead
  <2>2. \A k \in Conns : ~Registered(k)
    BY <2>1, TypesAre DEF Init, Registered
  <2> QED
    BY <2>1, <2>2 DEF Init, AllHeardInTime, HeardInTime, PingPeriod
<1>2. HeardInv /\ [Next]_vars => HeardInv'
  BY TypeNext, ReadNext, SuccessionNext, HeardNext
<1>3. HeardInv => RegisteredAreHeard
  <2> SUFFICES ASSUME HeardInv, NEW k \in Conns, Registered(k), TimesOut(k) PROVE FALSE
    BY DEF RegisteredAreHeard
  <2> QED
    BY TypesAre DEF AllHeardInTime, HeardInTime, TimesOut, ClientTimeout
<1> QED
  BY <1>1, <1>2, <1>3, PTL DEF Spec

-----------------------------------------------------------------------------
(* Who is taken out of app_state, and what is known of an address.           *)

First(k) == \A j \in Conns : j < k => conn[j].addr # conn[k].addr

(* A connection that had the address before, or that lost it. *)
Former(a) == \E j \in Conns : conn[j].addr = a /\ Accepted(j) /\ conn[j].client # "up"

PongsAreOf ==
  \A a \in Addrs : pongs[a] # Never \/ Queued(a) =>
    \E j \in Conns : conn[j].addr = a /\ Served(j)

FirstIsFresh(k) ==
  LET a == conn[k].addr
  IN  conn[k].client = "up" /\ First(k) /\ pongs[a] # Never =>
        /\ pongs[a] <= PongLimit
        /\ conn[k].pong \/ Queued(a) \/ pongs[a] <= conn[k].heard

FirstAreFresh == \A k \in Conns : FirstIsFresh(k)

ExpiredAreFormer == \A a \in tracker.expired : Former(a)

AnswerInv == PongsAreOf /\ FirstAreFresh /\ ExpiredAreFormer /\ AnsweringAreKept

(* A step of time is no longer than what the tracker waits beyond the time a  *)
(* client waits.                                                              *)
FineTracker == ClientTimeout + Step <= PongLimit

(* Only a predecessor has lost the address of a client that is up. *)
LEMMA FormerPrecedes ==
  ASSUME PartsOK, Succession, NEW k \in Conns, conn[k].client = "up", Former(conn[k].addr)
  PROVE  \E j \in Conns : j < k /\ conn[j].addr = conn[k].addr
<1>1. PICK j \in Conns : conn[j].addr = conn[k].addr /\ Accepted(j) /\ conn[j].client # "up"
  BY DEF Former
<1>2. Accepted(k) /\ (j < k \/ k < j)
  BY <1>1, TypesAre DEF Succession, LifeOK
<1>3. ~(k < j)
  BY <1>1, <1>2 DEF Succession, InOrder
<1> QED
  BY <1>1, <1>2, <1>3

(* An address that has had a connection served has a former one, unless the   *)
(* first is up.                                                               *)
LEMMA FirstOrFormer ==
  ASSUME PartsOK, Succession, NEW j \in Conns, Accepted(j), ~Former(conn[j].addr)
  PROVE  conn[j].client = "up" /\ First(j)
<1>1. conn[j].client = "up"
  BY DEF Former
<1>2. ASSUME NEW i \in Conns, i < j, conn[i].addr = conn[j].addr PROVE FALSE
  <2>1. Accepted(i) /\ conn[i].client = "gone"
    BY <1>2 DEF Succession, InOrder
  <2> QED
    BY <1>2, <2>1 DEF Former
<1> QED
  BY <1>1, <1>2 DEF First

LEMMA FormerRemains ==
  ASSUME PartsOK, Succession, [Next]_vars, NEW a, Former(a)
  PROVE  Former(a)'
  BY ConnsRemain DEF Former, Remains

LEMMA PongsNext ==
  ASSUME PartsOK, Succession, PongsAreOf, [Next]_vars
  PROVE  PongsAreOf'
<1>a. channel \in Seq(Addrs) /\ DOMAIN pongs = Addrs
  BY TypesAre DEF PartsOK, ChannelOK
<1>1. ASSUME NEW a \in Addrs, NEW j \in Conns, conn[j].addr = a, Served(j)
      PROVE  \E i \in Conns : conn'[i].addr = a /\ Served(i)'
  <2>1. Accepted(j)
    BY <1>1 DEF Served, Accepted
  <2> QED
    BY <1>1, <2>1, ConnsRemain DEF Remains
<1>2. ASSUME NEW a \in Addrs, pongs'[a] # Never \/ Queued(a)'
      PROVE  pongs[a] # Never \/ Queued(a) \/ \E j \in Conns : conn[j].addr = a /\ Served(j)
  <2>1. ASSUME NEW k \in Conns, ReadPong(k)
        PROVE  pongs[a] # Never \/ Queued(a) \/ \E j \in Conns : conn[j].addr = a /\ Served(j)
    <3>1. /\ pongs' = pongs /\ channel' = Append(channel, conn[k].addr)
          /\ Served(k) /\ conn[k].addr \in Addrs
      BY <2>1, TypesAre DEF ReadPong, Served
    <3> QED
      BY <1>a, <1>2, <3>1 DEF Queued
  <2>2. CASE HandlePong
    <3>1. /\ channel # <<>> /\ pongs' = [pongs EXCEPT ![Head(channel)] = 0]
          /\ channel' = Tail(channel)
      BY <2>2 DEF HandlePong
    <3>2. Queued(Head(channel)) /\ (Queued(a)' => Queued(a))
      BY <1>a, <3>1 DEF Queued
    <3> QED
      BY <1>a, <1>2, <3>1, <3>2
  <2>3. ASSUME NEW b \in Addrs, RemovePong(b)
        PROVE  pongs[a] # Never \/ Queued(a)
    <3>1. pongs' = [pongs EXCEPT ![b] = Never] /\ channel' = channel
      BY <2>3 DEF RemovePong
    <3> QED
      BY <1>a, <1>2, <3>1 DEF Queued
  <2>4. CASE Tick
    BY <1>2, <2>4 DEF Tick, Queued
  <2>5. CASE UNCHANGED <<pongs, channel>>
    BY <1>2, <2>5 DEF Queued
  <2>6. CASE ~UNCHANGED <<pongs, channel>>
    BY <2>1, <2>2, <2>3, <2>4, <2>6
       DEF Next, vars, Accept, Leave, GiveUp, FallSilent, FirstPing, Register, ReadEnd,
           Unregister, Ping, PingFailed, RemoveSocket, PingRound, PingsJoined, TrackRound,
           TrackEnd
  <2> QED
    BY <2>5, <2>6
<1> QED
  BY <1>1, <1>2 DEF PongsAreOf

(* What most steps make of a connection that is up, and of its entry *)
UpGoesOn(k) ==
  /\ conn[k].client = "up"
  /\ \/ conn'[k].pong
     \/ /\ conn'[k].heard = conn[k].heard
        /\ conn[k].pong => Queued(conn[k].addr)'

EntryGoesOn(a) ==
  /\ pongs'[a] \in {pongs[a], Never, 0}
  /\ Queued(a) => Queued(a)' \/ pongs'[a] = 0

LEMMA FreshKept ==
  ASSUME PartsOK, PartsOK', Succession, FirstAreFresh, [Next]_vars,
         NEW k \in Conns, UpGoesOn(k), EntryGoesOn(conn[k].addr)
  PROVE  FirstIsFresh(k)'
<1>1. PICK a \in Addrs : a = conn[k].addr
  BY TypesAre
<1>2. Accepted(k) /\ conn'[k].addr = a /\ conn[k].client = "up"
  BY <1>1, ConnsRemain DEF UpGoesOn, Succession, LifeOK, Remains
<1>3. First(k)' => First(k)
  <2> SUFFICES ASSUME First(k)', NEW j \in Conns, j < k PROVE conn[j].addr # conn[k].addr
    BY DEF First
  <2>1. Accepted(j)
    BY <1>2 DEF Succession, InOrder
  <2> QED
    BY <1>1, <1>2, <2>1, ConnsRemain DEF First, Remains
<1>4. conn'[k].heard \in Nat
  <2>1. conn'[k] \in ConnectionRecord
    BY DEF PartsOK, ConnOK
  <2> QED
    BY <2>1 DEF ConnectionRecord, Times
<1>5. FirstIsFresh(k)
  BY DEF FirstAreFresh
<1>6. /\ pongs'[a] \in {pongs[a], Never, 0}
      /\ Queued(a) => Queued(a)' \/ pongs'[a] = 0
      /\ conn'[k].pong \/ (conn'[k].heard = conn[k].heard /\ (conn[k].pong => Queued(a)'))
  BY <1>1, <1>2 DEF EntryGoesOn, UpGoesOn, Queued
<1>7. ASSUME First(k)', pongs'[a] # Never
      PROVE  pongs'[a] <= PongLimit /\ (conn'[k].pong \/ Queued(a)' \/ pongs'[a] <= conn'[k].heard)
  <2>1. CASE pongs'[a] = 0
    BY <1>4, <2>1 DEF PongLimit
  <2>2. CASE pongs'[a] = pongs[a] /\ pongs'[a] # 0
    <3>1. /\ pongs[a] <= PongLimit
          /\ conn[k].pong \/ Queued(a) \/ pongs[a] <= conn[k].heard
      BY <1>1, <1>2, <1>3, <1>5, <1>7, <2>2 DEF FirstIsFresh
    <3> QED
      BY <1>6, <2>2, <3>1
  <2> QED
    BY <1>6, <1>7, <2>1, <2>2
<1> QED
  BY <1>2, <1>7 DEF FirstIsFresh, Queued

LEMMA FreshNext ==
  ASSUME PartsOK, PartsOK', Succession, PongsAreOf, FirstAreFresh, FineTracker, [Next]_vars
  PROVE  FirstAreFresh'
<1> SUFFICES ASSUME NEW k \in Conns, conn'[k].client = "up" PROVE FirstIsFresh(k)'
  BY DEF FirstAreFresh, FirstIsFresh
<1>a. /\ \A j \in Conns : conn[j] \in ConnectionRecord /\ LifeOK(j) /\ conn[j].addr \in Addrs
      /\ channel \in Seq(Addrs) /\ DOMAIN pongs = Addrs
  BY TypesAre DEF Succession, PartsOK, ChannelOK
<1>b. ASSUME UNCHANGED <<pongs, channel>> PROVE \A a \in Addrs : EntryGoesOn(a)
  BY <1>b DEF EntryGoesOn, Queued
<1>c. ASSUME conn'[k] = conn[k] PROVE UpGoesOn(k)
  BY <1>c DEF UpGoesOn
<1>d. ASSUME UNCHANGED <<pongs, channel>>, UpGoesOn(k) PROVE FirstIsFresh(k)'
  BY <1>a, <1>b, <1>d, FreshKept
<1>1. ASSUME NEW i \in Conns, NEW a \in Addrs, Accept(i, a) PROVE FirstIsFresh(k)'
  <2>1. /\ ~Accepted(i) /\ UNCHANGED <<pongs, channel>>
        /\ conn'[i].addr = a /\ \A j \in Conns \ {i} : conn'[j] = conn[j]
    BY <1>1, AcceptIs DEF Accept, Accepted
  <2>2. CASE i = k
    <3>1. ASSUME First(k)', NEW j \in Conns, conn[j].addr = a, Served(j) PROVE FALSE
      <4>1. Accepted(j) /\ j # k
        BY <2>1, <2>2, <3>1 DEF Served, Accepted
      <4>2. ~(k < j)
        BY <2>1, <2>2, <4>1 DEF Succession, InOrder
      <4>3. j < k
        BY <4>1, <4>2, TypesAre
      <4> QED
        BY <2>1, <2>2, <3>1, <4>1, <4>3 DEF First
    <3>2. First(k)' => pongs[a] = Never
      BY <1>1, <3>1 DEF PongsAreOf
    <3> QED
      BY <2>1, <2>2, <3>2 DEF FirstIsFresh
  <2>3. CASE i # k
    BY <1>c, <1>d, <2>1, <2>3
  <2> QED
    BY <2>2, <2>3
<1>2. ASSUME NEW i \in Conns, Leave(i) \/ GiveUp(i) \/ FallSilent(i) PROVE FirstIsFresh(k)'
  <2>1. UNCHANGED <<pongs, channel>>
    BY <1>2 DEF Leave, GiveUp, FallSilent
  <2>2. conn'[i].client # "up" /\ \A j \in Conns \ {i} : conn'[j] = conn[j]
    BY <1>2, LeaveIs, FallSilentIs DEF GiveUp, Becomes
  <2> QED
    BY <1>c, <1>d, <2>1, <2>2
<1>3. ASSUME NEW i \in Conns, FirstPing(i) \/ Register(i) \/ ReadEnd(i) \/ Unregister(i) \/ Ping(i)
      PROVE  FirstIsFresh(k)'
  <2>1. UNCHANGED <<pongs, channel>>
    BY <1>3 DEF FirstPing, Register, ReadEnd, Unregister, Ping
  <2>2. CASE i = k /\ FirstPing(k)
    <3>1. UpGoesOn(k)
      BY <2>2, FirstPingIs DEF Becomes, UpGoesOn
    <3> QED
      BY <1>d, <2>1, <3>1
  <2>3. CASE i = k /\ Register(k)
    <3>1. UpGoesOn(k)
      BY <2>3, <1>a, RegisterIs DEF Becomes, UpGoesOn, ConnectionRecord
    <3> QED
      BY <1>d, <2>1, <3>1
  <2>4. CASE i = k /\ ReadEnd(k)
    BY <2>4, ReadEndIs DEF Becomes, ReadEnd
  <2>5. CASE i = k /\ Unregister(k)
    BY <2>5, <1>a, UnregisterIs DEF Becomes, Unregister, LifeOK, Lives
  <2>6. CASE i = k /\ Ping(k)
    <3>1. UpGoesOn(k)
      BY <2>6, PingIs DEF Becomes, UpGoesOn
    <3> QED
      BY <1>d, <2>1, <3>1
  <2>7. CASE i # k
    <3>1. conn'[k] = conn[k]
      <4>1. CASE FirstPing(i) \/ Register(i)
        BY <2>7, <4>1, FirstPingIs, RegisterIs DEF Becomes
      <4>2. CASE ReadEnd(i) \/ Unregister(i)
        BY <2>7, <4>2, ReadEndIs, UnregisterIs DEF Becomes
      <4>3. CASE Ping(i)
        BY <2>7, <4>3, PingIs DEF Becomes
      <4> QED
        BY <1>3, <4>1, <4>2, <4>3
    <3> QED
      BY <1>c, <1>d, <2>1, <3>1
  <2> QED
    BY <1>3, <2>2, <2>3, <2>4, <2>5, <2>6, <2>7
<1>4. ASSUME NEW i \in Conns, ReadPong(i) PROVE FirstIsFresh(k)'
  <2>1. Becomes(i, conn[i].task, conn[i].client, FALSE, conn[i].heard, conn[i].silent)
    BY <1>4, ReadPongIs
  <2>2. pongs' = pongs /\ channel' = Append(channel, conn[i].addr)
    BY <1>4 DEF ReadPong
  <2>3. /\ \E n \in DOMAIN channel' : channel'[n] = conn[i].addr
        /\ \A a \in Addrs : Queued(a) => Queued(a)'
    BY <1>a, <2>2 DEF Queued
  <2>4. EntryGoesOn(conn[k].addr)
    BY <1>a, <2>1, <2>2, <2>3 DEF EntryGoesOn, Queued, Becomes
  <2>5. UpGoesOn(k)
    BY <1>a, <2>1, <2>3 DEF Becomes, UpGoesOn, Queued
  <2> QED
    BY <2>4, <2>5, FreshKept
<1>5. CASE HandlePong
  <2>1. /\ channel # <<>> /\ pongs' = [pongs EXCEPT ![Head(channel)] = 0]
        /\ channel' = Tail(channel) /\ conn' = conn
    BY <1>5 DEF HandlePong
  <2>2. ASSUME NEW a \in Addrs PROVE EntryGoesOn(a)
    <3>1. pongs'[a] \in {pongs[a], 0} /\ (a = Head(channel) => pongs'[a] = 0)
      BY <1>a, <2>1
    <3>2. Queued(a) /\ a # Head(channel) => \E n \in DOMAIN Tail(channel) : Tail(channel)[n] = a
      <4> SUFFICES ASSUME NEW n \in DOMAIN channel, channel[n] = a, a # Head(channel)
                   PROVE  \E m \in DOMAIN Tail(channel) : Tail(channel)[m] = a
        BY DEF Queued
      <4>1. n # 1 /\ n - 1 \in DOMAIN Tail(channel) /\ Tail(channel)[n - 1] = a
        BY <1>a, <2>1
      <4> QED
        BY <4>1
    <3> QED
      BY <2>1, <3>1, <3>2 DEF EntryGoesOn, Queued
  <2>3. conn'[k] = conn[k]
    BY <2>1
  <2> QED
    BY <1>a, <1>c, <2>2, <2>3, FreshKept
<1>6. ASSUME NEW b \in Addrs, RemovePong(b) PROVE FirstIsFresh(k)'
  <2>1. pongs' = [pongs EXCEPT ![b] = Never] /\ channel' = channel /\ conn' = conn
    BY <1>6 DEF RemovePong
  <2>2. ASSUME NEW a \in Addrs PROVE EntryGoesOn(a)
    BY <1>a, <2>1 DEF EntryGoesOn, Queued
  <2>3. conn'[k] = conn[k]
    BY <2>1
  <2> QED
    BY <1>a, <1>c, <2>2, <2>3, FreshKept
<1>7. CASE Tick
  <2>1. /\ channel = <<>> /\ ~TimesOut(k)
        /\ conn[k].task \in {"none", "reading", "closed"}
        /\ conn[k].task = "reading" => ~conn[k].pong
        /\ \A a \in Addrs : pongs'[a] = IF pongs[a] = Never THEN Never ELSE Later(pongs[a])
    BY <1>7 DEF Tick, NothingIsDue
  <2>2. /\ conn[k].client = "up" /\ conn'[k].heard = Later(conn[k].heard)
        /\ conn'[k].addr = conn[k].addr
    BY <1>7, TickIs
  <2>3. ~conn[k].pong /\ ~Queued(conn[k].addr)
    BY <1>a, <2>1, <2>2 DEF LifeOK, Lives, Queued
  <2>4. First(k)' => First(k)
    BY <1>7, TickIs DEF First
  <2> DEFINE p == pongs[conn[k].addr]
  <2>5. ASSUME First(k)', pongs'[conn[k].addr] # Never
        PROVE  pongs'[conn[k].addr] <= PongLimit /\ pongs'[conn[k].addr] <= conn'[k].heard
    <3>1. p # Never /\ pongs'[conn[k].addr] = Later(p) /\ p \in Nat
      BY <1>a, <2>1, <2>5, TypesAre
    <3>2. p <= conn[k].heard
      BY <2>2, <2>3, <2>4, <2>5, <3>1 DEF FirstAreFresh, FirstIsFresh
    <3>3. conn[k].heard \in Nat /\ conn[k].heard < ClientTimeout
      BY <2>1, <2>2, TypesAre DEF TimesOut, ClientTimeout
    <3>4. Later(p) <= p + Step /\ Later(p) \in Nat /\ Later(p) <= Later(conn[k].heard)
      BY <3>1, <3>2, <3>3, LaterIs
    <3> QED
      BY <2>2, <3>1, <3>2, <3>3, <3>4, StepAssumption DEF FineTracker, ClientTimeout, PongLimit
  <2> QED
    BY <2>2, <2>5 DEF FirstIsFresh
<1>8. CASE \/ \E a \in Addrs : PingFailed(a) \/ RemoveSocket(a)
           \/ PingRound \/ PingsJoined \/ TrackRound \/ TrackEnd \/ UNCHANGED vars
  <2>1. UNCHANGED <<conn, pongs, channel>>
    BY <1>8 DEF PingFailed, RemoveSocket, PingRound, PingsJoined, TrackRound, TrackEnd, vars
  <2> QED
    BY <1>c, <1>d, <2>1
<1> QED
  BY <1>1, <1>2, <1>3, <1>4, <1>5, <1>6, <1>7, <1>8 DEF Next

LEMMA ExpiredNext ==
  ASSUME PartsOK, Succession, AnswerInv, [Next]_vars
  PROVE  ExpiredAreFormer'
<1>t. tracker \in TrackerRecord
  BY DEF PartsOK, TrackerOK
<1>1. ASSUME NEW a, Former(a) PROVE Former(a)'
  BY <1>1, FormerRemains
<1>2. CASE tracker'.expired \subseteq tracker.expired
  BY <1>1, <1>2 DEF AnswerInv, ExpiredAreFormer
<1>3. CASE TrackRound
  <2>1. tracker'.expired = Expired
    BY <1>3, <1>t DEF TrackRound, TrackerRecord
  <2>2. ASSUME NEW a \in Expired PROVE Former(a)
    <3>1. a \in Addrs /\ pongs[a] > PongLimit /\ pongs[a] # Never
      BY <2>2 DEF Expired, PongLimit, Never
    <3>2. PICK j \in Conns : conn[j].addr = a /\ Served(j)
      BY <3>1 DEF AnswerInv, PongsAreOf
    <3>3. Accepted(j)
      BY <3>2 DEF Served, Accepted
    <3>4. CASE conn[j].client = "up" /\ First(j)
      <4>1. pongs[a] <= PongLimit
        BY <3>1, <3>2, <3>4 DEF AnswerInv, FirstAreFresh, FirstIsFresh
      <4> QED
        BY <3>1, <4>1, TypesAre DEF PongLimit
    <3> QED
      BY <3>2, <3>3, <3>4, FirstOrFormer
  <2> QED
    BY <1>1, <2>1, <2>2 DEF ExpiredAreFormer
<1>4. CASE (\E a \in Addrs : RemoveSocket(a) \/ RemovePong(a)) \/ TrackEnd \/ Tick
  <2>1. tracker'.expired \subseteq tracker.expired
    <3>1. CASE \E a \in Addrs : RemoveSocket(a) \/ RemovePong(a)
      BY <1>t, <3>1 DEF RemoveSocket, RemovePong, TrackerRecord
    <3>2. CASE TrackEnd \/ Tick
      BY <1>t, <3>2 DEF TrackEnd, Tick, TrackerRecord
    <3> QED
      BY <1>4, <3>1, <3>2
  <2> QED
    BY <1>2, <2>1
<1>5. CASE UNCHANGED tracker
  BY <1>2, <1>5
<1>6. CASE \E k \in Conns :
             \/ \E a \in Addrs : Accept(k, a)
             \/ Leave(k) \/ FallSilent(k) \/ GiveUp(k) \/ FirstPing(k) \/ Register(k)
             \/ ReadPong(k) \/ ReadEnd(k) \/ Unregister(k) \/ Ping(k)
  <2>1. UNCHANGED tracker
    BY <1>6 DEF Accept, Leave, GiveUp, FallSilent, FirstPing, Register, ReadPong, ReadEnd,
                Unregister, Ping
  <2> QED
    BY <1>5, <2>1
<1>7. CASE (\E a \in Addrs : PingFailed(a)) \/ HandlePong \/ PingRound \/ PingsJoined
  <2>1. UNCHANGED tracker
    BY <1>7 DEF PingFailed, HandlePong, PingRound, PingsJoined
  <2> QED
    BY <1>5, <2>1
<1>8. CASE UNCHANGED vars
  BY <1>5, <1>8 DEF vars
<1> QED
  BY <1>3, <1>4, <1>6, <1>7, <1>8 DEF Next

(* Nobody takes the address of a client that is up out of app_state, unless  *)
(* it has had a former connection.                                           *)
LEMMA AnsweringNext ==
  ASSUME PartsOK, PartsOK', SocketsAreRead, Succession, Succession', AnswerInv, [Next]_vars
  PROVE  AnsweringAreKept'
<1> SUFFICES ASSUME NEW k \in Conns,
                    conn'[k].task = "reading", conn'[k].client = "up", ~Registered(k)'
             PROVE  \E j \in Conns : j < k /\ conn'[j].addr = conn'[k].addr
  BY DEF AnsweringAreKept
<1>a. /\ \A j \in Conns : /\ conn[j] \in ConnectionRecord /\ LifeOK(j) /\ Remains(j)
                         /\ conn[j].addr \in Addrs
      /\ DOMAIN sockets = Addrs
  BY TypesAre, ConnsRemain DEF Succession
<1>1. ASSUME Former(conn[k].addr), conn'[k].addr = conn[k].addr
      PROVE  \E j \in Conns : j < k /\ conn'[j].addr = conn'[k].addr
  <2>1. PICK a \in Addrs : a = conn[k].addr
    BY <1>a
  <2>2. Former(a)'
    BY <1>1, <2>1, FormerRemains
  <2>3. PICK j \in Conns : conn'[j].addr = a /\ Accepted(j)' /\ conn'[j].client # "up"
    BY <2>2 DEF Former
  <2>4. Accepted(k)' /\ (j < k \/ k < j)
    BY <2>3, TypesAre DEF Accepted
  <2>5. ~(k < j)
    BY <1>1, <2>1, <2>3, <2>4 DEF Succession, InOrder
  <2> QED
    BY <1>1, <2>1, <2>3, <2>4, <2>5
<1>2. ASSUME conn[k].task = "reading", conn[k].client = "up", conn'[k].addr = conn[k].addr,
             \/ sockets'[conn[k].addr] = sockets[conn[k].addr]
             \/ Former(conn[k].addr)
      PROVE  \E j \in Conns : j < k /\ conn'[j].addr = conn'[k].addr
  <2>1. CASE Former(conn[k].addr)
    BY <1>1, <1>2, <2>1
  <2>2. CASE sockets'[conn[k].addr] = sockets[conn[k].addr]
    <3>1. ~Registered(k)
      BY <1>2, <2>2 DEF Registered
    <3>2. PICK j \in Conns : j < k /\ conn[j].addr = conn[k].addr
      BY <1>2, <3>1 DEF AnswerInv, AnsweringAreKept
    <3>3. Accepted(j)
      BY <1>2, <3>2 DEF Succession, InOrder, Accepted
    <3> QED
      BY <1>2, <1>a, <3>2, <3>3 DEF Remains
  <2> QED
    BY <1>2, <2>1, <2>2
<1>3. ASSUME NEW i \in Conns, NEW a \in Addrs, Accept(i, a)
      PROVE  \E j \in Conns : j < k /\ conn'[j].addr = conn'[k].addr
  <2>1. sockets' = sockets
    BY <1>3 DEF Accept
  <2>2. i # k /\ conn'[k] = conn[k]
    BY <1>3, AcceptIs
  <2>3. conn[k].task = "reading" /\ conn[k].client = "up" /\ conn'[k].addr = conn[k].addr
    BY <2>2
  <2> QED
    BY <1>2, <2>1, <2>3
<1>4. ASSUME NEW i \in Conns,
             Leave(i) \/ GiveUp(i) \/ FallSilent(i) \/ ReadPong(i) \/ ReadEnd(i) \/ Ping(i)
      PROVE  \E j \in Conns : j < k /\ conn'[j].addr = conn'[k].addr
  <2>1. sockets' = sockets
    BY <1>4 DEF Leave, GiveUp, FallSilent, ReadPong, ReadEnd, Ping
  <2>2. conn[k].task = "reading" /\ conn[k].client = "up" /\ conn'[k].addr = conn[k].addr
    <3>1. CASE Leave(i) \/ GiveUp(i)
      BY <3>1, LeaveIs DEF GiveUp, Becomes
    <3>2. CASE FallSilent(i)
      BY <3>2, FallSilentIs DEF Becomes
    <3>3. CASE ReadPong(i) \/ ReadEnd(i)
      BY <3>3, ReadPongIs, ReadEndIs DEF Becomes
    <3>4. CASE Ping(i)
      BY <3>4, PingIs DEF Becomes
    <3> QED
      BY <1>4, <3>1, <3>2, <3>3, <3>4
  <2> QED
    BY <1>2, <2>1, <2>2
<1>5. ASSUME NEW i \in Conns, FirstPing(i)
      PROVE  \E j \in Conns : j < k /\ conn'[j].addr = conn'[k].addr
  <2>1. sockets' = sockets /\ i # k /\ conn'[k] = conn[k]
    BY <1>5, FirstPingIs DEF FirstPing, Becomes
  <2> QED
    BY <1>2, <2>1
<1>6. ASSUME NEW i \in Conns, Register(i)
      PROVE  \E j \in Conns : j < k /\ conn'[j].addr = conn'[k].addr
  <2>1. CASE i = k
    <3>1. sockets' = [sockets EXCEPT ![conn[k].addr] = k] /\ conn'[k].addr = conn[k].addr
      BY <1>6, <2>1, RegisterIs DEF Becomes
    <3> QED
      BY <1>a, <3>1 DEF Registered
  <2>2. CASE i # k
    <3>1. conn'[k] = conn[k] /\ conn[k].task = "reading"
      BY <1>6, <2>2, RegisterIs DEF Becomes
    <3>2. CASE sockets' = sockets
      BY <1>2, <3>1, <3>2
    <3>3. CASE sockets' # sockets
      <4>1. sockets[conn[i].addr] = 0 /\ sockets' = [sockets EXCEPT ![conn[i].addr] = i]
        BY <1>6, <3>3 DEF Register
      <4>2. CASE conn[k].addr # conn[i].addr
        BY <1>a, <1>2, <3>1, <4>1, <4>2
      <4>3. CASE conn[k].addr = conn[i].addr
        <5>1. ~Registered(k)
          BY <4>1, <4>3, TypesAre DEF Registered
        <5>2. PICK j \in Conns : j < k /\ conn[j].addr = conn[k].addr
          BY <3>1, <5>1 DEF AnswerInv, AnsweringAreKept
        <5>3. Accepted(j)
          BY <3>1, <5>2 DEF Succession, InOrder, Accepted
        <5> QED
          BY <1>a, <3>1, <5>2, <5>3 DEF Remains
      <4> QED
        BY <4>2, <4>3
    <3> QED
      BY <3>2, <3>3
  <2> QED
    BY <2>1, <2>2
<1>7. ASSUME NEW i \in Conns, Unregister(i)
      PROVE  \E j \in Conns : j < k /\ conn'[j].addr = conn'[k].addr
  <2>1. /\ sockets' = [sockets EXCEPT ![conn[i].addr] = 0] /\ conn[i].task = "ending"
        /\ i # k /\ conn'[k] = conn[k]
    BY <1>7, UnregisterIs DEF Unregister, Becomes
  <2>2. conn[i].client # "up" /\ Accepted(i)
    BY <1>a, <2>1 DEF LifeOK, Lives, Accepted
  <2>3. conn[k].addr = conn[i].addr => Former(conn[k].addr)
    BY <2>2 DEF Former
  <2>4. conn[k].addr # conn[i].addr => sockets'[conn[k].addr] = sockets[conn[k].addr]
    BY <1>a, <2>1
  <2> QED
    BY <1>2, <2>1, <2>3, <2>4
<1>8. ASSUME NEW a \in Addrs, PingFailed(a) \/ RemoveSocket(a)
      PROVE  \E j \in Conns : j < k /\ conn'[j].addr = conn'[k].addr
  <2>1. /\ sockets' = [sockets EXCEPT ![a] = 0] /\ conn' = conn
        /\ a \in pinger.failed \/ a \in tracker.expired
    BY <1>8 DEF PingFailed, RemoveSocket
  <2>2. Former(a)
    <3>1. CASE a \in pinger.failed
      <4>1. PICK j \in Conns : conn[j].addr = a /\ conn[j].client = "gone"
        BY <3>1 DEF Succession, PingsAreOf
      <4> QED
        BY <1>a, <4>1 DEF Former, LifeOK
    <3>2. CASE a \in tracker.expired
      BY <3>2 DEF AnswerInv, ExpiredAreFormer
    <3> QED
      BY <2>1, <3>1, <3>2
  <2>3. conn[k].addr # a => sockets'[conn[k].addr] = sockets[conn[k].addr]
    BY <1>a, <2>1
  <2>4. conn'[k] = conn[k]
    BY <2>1
  <2> QED
    BY <1>2, <2>2, <2>3, <2>4
<1>9. CASE Tick
  <2>1. /\ sockets' = sockets /\ conn[k].task = "reading" /\ conn[k].client = "up"
        /\ conn'[k].addr = conn[k].addr
    BY <1>9, TickIs DEF Tick
  <2> QED
    BY <1>2, <2>1
<1>10. CASE \/ \E a \in Addrs : RemovePong(a)
            \/ HandlePong \/ PingRound \/ PingsJoined \/ TrackRound \/ TrackEnd \/ UNCHANGED vars
  <2>1. UNCHANGED <<conn, sockets>>
    BY <1>10 DEF RemovePong, HandlePong, PingRound, PingsJoined, TrackRound, TrackEnd, vars
  <2> QED
    BY <1>2, <2>1
<1> QED
  BY <1>3, <1>4, <1>5, <1>6, <1>7, <1>8, <1>9, <1>10 DEF Next

(* A client that answers is not taken out of app_state by any of the three   *)
(* tasks that remove by address, unless an earlier connection had it: the    *)
(* entry of app_pongs cannot become too old while its pings are answered.    *)
THEOREM AnsweringCorrect ==
  ASSUME FineTracker
  PROVE  Spec => []AnsweringAreKept
<1> DEFINE Inv == PartsOK /\ SocketsAreRead /\ Succession /\ AnswerInv
<1>1. Init => Inv
  <2> SUFFICES ASSUME Init PROVE Inv
    OBVIOUS
  <2>1. SocketsAreRead /\ PartsOK /\ Succession
    BY TypeInit, SuccessionInit DEF Init, SocketsAreRead
  <2>2. /\ \A k \in Conns : conn[k].task = "none" /\ conn[k].client = "none"
        /\ \A a \in Addrs : pongs[a] = Never
        /\ channel = <<>> /\ tracker.expired = {}
    BY DEF Init, NoConnection
  <2> QED
    BY <2>1, <2>2
       DEF AnswerInv, PongsAreOf, FirstAreFresh, FirstIsFresh, ExpiredAreFormer,
           AnsweringAreKept, Queued
<1>2. Inv /\ [Next]_vars => Inv'
  <2> SUFFICES ASSUME Inv, [Next]_vars PROVE Inv'
    OBVIOUS
  <2>1. PartsOK' /\ SocketsAreRead' /\ Succession'
    BY TypeNext, ReadNext, SuccessionNext
  <2>2. PongsAreOf' /\ FirstAreFresh'
    BY <2>1, PongsNext, FreshNext DEF AnswerInv
  <2>3. ExpiredAreFormer' /\ AnsweringAreKept'
    BY <2>1, ExpiredNext, AnsweringNext
  <2> QED
    BY <2>1, <2>2, <2>3 DEF AnswerInv
<1>3. Inv => AnsweringAreKept
  BY DEF AnswerInv
<1> QED
  BY <1>1, <1>2, <1>3, PTL DEF Spec
=============================================================================
