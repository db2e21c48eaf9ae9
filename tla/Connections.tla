----------------------------- MODULE Connections ----------------------------
(***************************************************************************)
(* The sockets of the miners in app_state, and who takes one out of it:    *)
(* the task of the connection, ping_check_processor, whose pings fail, and *)
(* pong_tracking_processor, for a client that has long been silent.        *)
(*                                                                         *)
(* A connection is known by the order it was accepted in. What it sends    *)
(* besides a Pong is the subject of MiningRound. Time is counted in half   *)
(* seconds and passes in steps of Step: what is due is done before it      *)
(* passes. A definition whose name ends in Bug is a faulty variant of the  *)
(* one that follows it, for mutation testing.                              *)
(***************************************************************************)
EXTENDS Integers, Sequences, FiniteSets

CONSTANTS
  Addrs,     \* socket addresses of clients; one may be used again
  MaxConns,  \* bound: connections accepted
  SlowPing,  \* bound: time for which sockets hold up a round of pings
  Step       \* time that passes at once

Conns == 1..MaxConns

ASSUME AddrsAssumption == IsFiniteSet(Addrs) /\ Addrs # {}
ASSUME MaxConnsAssumption == MaxConns \in Nat
ASSUME SlowPingAssumption == SlowPing \in Nat
ASSUME StepAssumption == Step \in Nat \ {0}

VARIABLES
  conn,     \* each connection: its task in the server, and its client
  sockets,  \* app_state.sockets: the connection at an address, 0 if none
  pongs,    \* app_pongs: time since the last Pong of an address, Never
  channel,  \* client_channel: the addresses whose Pong is to be handled
  pinger,   \* ping_check_processor
  tracker   \* pong_tracking_processor

vars == <<conn, sockets, pongs, channel, pinger, tracker>>

Never == 0 - 1

PingPeriod == 60   \* 30 s
TrackPeriod == 90  \* 45 s
PongLimit == 181   \* the longest time whose as_secs() is not above 90

(* mine.rs: a client that hears nothing for 45 s connects anew. *)
ClientTimeout == 90

NoConnection == [addr |-> CHOOSE a \in Addrs : TRUE, task |-> "none", client |-> "none",
                 pong |-> FALSE, heard |-> 0, silent |-> 0]

Registered(k) == sockets[conn[k].addr] = k

-----------------------------------------------------------------------------
(* Clients                                                                 *)

(* An address is free for its host again when its last socket is closed. *)
Accept(k, a) ==
  /\ conn[k].task = "none" /\ \A j \in Conns : j < k => conn[j].task # "none"
  /\ \A j \in Conns : conn[j].addr = a => conn[j].client \in {"none", "gone"}
  /\ conn' = [conn EXCEPT ![k] = [NoConnection EXCEPT !.addr = a, !.task = "accepted",
                                                      !.client = "up"]]
  /\ UNCHANGED <<sockets, pongs, channel, pinger, tracker>>

Leave(k) ==
  /\ conn[k].client \in {"up", "silent"}
  /\ conn' = [conn EXCEPT ![k].client = "gone", ![k].heard = 0, ![k].silent = 0]
  /\ UNCHANGED <<sockets, pongs, channel, pinger, tracker>>

(* Its host or its network is lost: nothing it does arrives any more. *)
FallSilent(k) ==
  /\ conn[k].client = "up"
  /\ conn' = [conn EXCEPT ![k].client = "silent", ![k].heard = 0, ![k].pong = FALSE]
  /\ UNCHANGED <<sockets, pongs, channel, pinger, tracker>>

TimesOut(k) == conn[k].client = "up" /\ conn[k].heard >= ClientTimeout

GiveUp(k) == TimesOut(k) /\ Leave(k)

(* A ping that reaches the client is answered at once. *)
Pinged(k) ==
  conn' = [conn EXCEPT ![k] =
             IF @.client = "up" THEN [@ EXCEPT !.heard = 0, !.pong = TRUE] ELSE @]

-----------------------------------------------------------------------------
(* handle_socket and the reader of a connection                            *)

FirstPing(k) ==
  /\ conn[k].task = "accepted"
  /\ \/ /\ conn[k].client # "gone"
        /\ conn' = [conn EXCEPT ![k].task = "pinged", ![k].pong = conn[k].client = "up"]
     \/ /\ conn[k].client = "gone"
        /\ conn' = [conn EXCEPT ![k].task = "closed"]
  /\ UNCHANGED <<sockets, pongs, channel, pinger, tracker>>

(* An address that is taken is refused: the socket is dropped. *)
Register(k) ==
  LET a == conn[k].addr
  IN  /\ conn[k].task = "pinged"
      /\ \/ /\ sockets[a] = 0
            /\ sockets' = [sockets EXCEPT ![a] = k]
            /\ conn' = [conn EXCEPT ![k].task = "reading"]
         \/ /\ sockets[a] # 0
            /\ conn' = [conn EXCEPT ![k].task = "closed", ![k].client = "gone"]
            /\ UNCHANGED sockets
      /\ UNCHANGED <<pongs, channel, pinger, tracker>>

(* process_message; a Pong is for the task that owns app_pongs. *)
ReadPong(k) ==
  /\ conn[k].task = "reading" /\ conn[k].pong
  /\ conn' = [conn EXCEPT ![k].pong = FALSE]
  /\ channel' = Append(channel, conn[k].addr)
  /\ UNCHANGED <<sockets, pongs, pinger, tracker>>

(* A close, an error or the end of the stream. *)
ReadEnd(k) ==
  /\ conn[k].task = "reading" /\ conn[k].client = "gone"
  /\ conn' = [conn EXCEPT ![k].task = "ending", ![k].pong = FALSE]
  /\ UNCHANGED <<sockets, pongs, channel, pinger, tracker>>

(* An address that has never sent a Pong is taken for one that was not registered. *)
UnregisterBug(k) ==
  /\ conn[k].task = "ending"
  /\ sockets' = [a \in Addrs |-> IF pongs[a] # Never /\ sockets[a] = k THEN 0 ELSE sockets[a]]
  /\ conn' = [conn EXCEPT ![k].task = "closed"]
  /\ UNCHANGED <<pongs, channel, pinger, tracker>>

(* Whatever connection the entry of its address is. *)
Unregister(k) ==
  /\ conn[k].task = "ending"
  /\ sockets' = [sockets EXCEPT ![conn[k].addr] = 0]
  /\ conn' = [conn EXCEPT ![k].task = "closed"]
  /\ UNCHANGED <<pongs, channel, pinger, tracker>>

(* An address that has an entry keeps the time of its first Pong. *)
HandlePongBug ==
  /\ channel # <<>>
  /\ pongs' = [pongs EXCEPT ![Head(channel)] = IF @ = Never THEN 0 ELSE @]
  /\ channel' = Tail(channel)
  /\ UNCHANGED <<conn, sockets, pinger, tracker>>

(* client_message_processor. *)
HandlePong ==
  /\ channel # <<>>
  /\ pongs' = [pongs EXCEPT ![Head(channel)] = 0]
  /\ channel' = Tail(channel)
  /\ UNCHANGED <<conn, sockets, pinger, tracker>>

-----------------------------------------------------------------------------
(* ping_check_processor                                                    *)

PingRound ==
  /\ pinger.pc = "sleep" /\ pinger.wait = 0
  /\ pinger' = [pinger EXCEPT !.pc = "join", !.wait = SlowPing,
                               !.pings = {k \in Conns : Registered(k)}]
  /\ UNCHANGED <<conn, sockets, pongs, channel, tracker>>

(* A socket whose client is gone does not take the ping. *)
Ping(k) ==
  /\ k \in pinger.pings
  /\ pinger' = [pinger EXCEPT !.pings = @ \ {k},
                  !.failed = @ \cup {a \in {conn[k].addr} : conn[k].client = "gone"}]
  /\ Pinged(k)
  /\ UNCHANGED <<sockets, pongs, channel, tracker>>

PingFailed(a) ==
  /\ a \in pinger.failed
  /\ pinger' = [pinger EXCEPT !.failed = @ \ {a}]
  /\ sockets' = [sockets EXCEPT ![a] = 0]
  /\ UNCHANGED <<conn, pongs, channel, tracker>>

(* A minute between two rounds. *)
PingsJoinedBug ==
  /\ pinger.pc = "join" /\ pinger.pings = {} /\ pinger.failed = {}
  /\ pinger' = [pinger EXCEPT !.pc = "sleep", !.wait = 2 * PingPeriod]
  /\ UNCHANGED <<conn, sockets, pongs, channel, tracker>>

(* It sleeps once every task has ended, the slowest included. *)
PingsJoined ==
  /\ pinger.pc = "join" /\ pinger.pings = {} /\ pinger.failed = {}
  /\ pinger' = [pinger EXCEPT !.pc = "sleep", !.wait = PingPeriod]
  /\ UNCHANGED <<conn, sockets, pongs, channel, tracker>>

-----------------------------------------------------------------------------
(* pong_tracking_processor                                                 *)

(* After three minutes only. *)
ExpiredBug == {a \in Addrs : pongs[a] > 2 * PongLimit}

Expired == {a \in Addrs : pongs[a] > PongLimit}

(* It goes through a copy of app_pongs. *)
TrackRound ==
  /\ tracker.pc = "sleep" /\ tracker.wait = 0
  /\ tracker' = [tracker EXCEPT !.pc = "loop", !.expired = Expired]
  /\ UNCHANGED <<conn, sockets, pongs, channel, pinger>>

RemoveSocket(a) ==
  /\ tracker.pc = "loop" /\ tracker.socket = {} /\ a \in tracker.expired
  /\ sockets' = [sockets EXCEPT ![a] = 0]
  /\ tracker' = [tracker EXCEPT !.expired = @ \ {a}, !.socket = {a}]
  /\ UNCHANGED <<conn, pongs, channel, pinger>>

RemovePong(a) ==
  /\ a \in tracker.socket
  /\ pongs' = [pongs EXCEPT ![a] = Never]
  /\ tracker' = [tracker EXCEPT !.socket = {}]
  /\ UNCHANGED <<conn, sockets, channel, pinger>>

TrackEnd ==
  /\ tracker.pc = "loop" /\ tracker.socket = {} /\ tracker.expired = {}
  /\ tracker' = [tracker EXCEPT !.pc = "sleep", !.wait = TrackPeriod]
  /\ UNCHANGED <<conn, sockets, pongs, channel, pinger>>

-----------------------------------------------------------------------------
(* Time                                                                    *)

(* Long enough for whatever looks at it. *)
Horizon == PongLimit + TrackPeriod + Step

Later(age) == IF age + Step > Horizon THEN Horizon ELSE age + Step

Sooner(wait) == IF wait < Step THEN 0 ELSE wait - Step

(* A socket takes its ping at once, unless nobody reads at its other end: then *)
(* it may hold it back, and with it the round and the removals left in it.     *)
HeldUp ==
  /\ pinger.pc = "join" /\ pinger.wait >= Step
  /\ pinger.pings # {} /\ \A k \in pinger.pings : conn[k].client = "silent"

NothingIsDue ==
  /\ channel = <<>>
  /\ (pinger.pc = "sleep" /\ pinger.wait > 0) \/ HeldUp
  /\ tracker.pc = "sleep" /\ tracker.wait > 0
  /\ \A k \in Conns : /\ conn[k].task \in {"none", "reading", "closed"}
                      /\ conn[k].task = "reading" => conn[k].client # "gone" /\ ~conn[k].pong
                      /\ ~TimesOut(k)

Tick ==
  /\ NothingIsDue
  /\ conn' = [k \in Conns |->
       [conn[k] EXCEPT !.heard = IF conn[k].client = "up" THEN Later(@) ELSE 0,
                       !.silent = IF conn[k].client = "silent" THEN Later(@) ELSE 0]]
  /\ pongs' = [a \in Addrs |-> IF pongs[a] = Never THEN Never ELSE Later(pongs[a])]
  /\ pinger' = [pinger EXCEPT !.wait = Sooner(@)]
  /\ tracker' = [tracker EXCEPT !.wait = Sooner(@)]
  /\ UNCHANGED <<sockets, channel>>

-----------------------------------------------------------------------------
Init ==
  /\ conn = [k \in Conns |-> NoConnection]
  /\ sockets = [a \in Addrs |-> 0]
  /\ pongs = [a \in Addrs |-> Never]
  /\ channel = <<>>
  /\ pinger = [pc |-> "sleep", wait |-> 0, pings |-> {}, failed |-> {}]
  /\ tracker = [pc |-> "sleep", wait |-> 0, expired |-> {}, socket |-> {}]

Next ==
  \/ \E k \in Conns :
       \/ \E a \in Addrs : Accept(k, a)
       \/ Leave(k) \/ FallSilent(k) \/ GiveUp(k)
       \/ FirstPing(k) \/ Register(k) \/ ReadPong(k) \/ ReadEnd(k) \/ Unregister(k)
       \/ Ping(k)
  \/ \E a \in Addrs : PingFailed(a) \/ RemoveSocket(a) \/ RemovePong(a)
  \/ HandlePong \/ PingRound \/ PingsJoined \/ TrackRound \/ TrackEnd \/ Tick

Spec == Init /\ [][Next]_vars

-----------------------------------------------------------------------------
(* Properties                                                              *)

Times == 0..Horizon

(* The variables have their types. *)
TypeOK ==
  /\ conn \in [Conns -> [addr: Addrs,
                         task: {"none", "accepted", "pinged", "reading", "ending", "closed"},
                         client: {"none", "up", "silent", "gone"},
                         pong: BOOLEAN, heard: Times, silent: Times]]
  /\ sockets \in [Addrs -> 0..MaxConns]
  /\ pongs \in [Addrs -> Times \cup {Never}]
  /\ channel \in Seq(Addrs)
  /\ pinger \in [pc: {"sleep", "join"}, wait: Nat, pings: SUBSET Conns, failed: SUBSET Addrs]
  /\ tracker \in [pc: {"sleep", "loop"}, wait: Times, expired: SUBSET Addrs, socket: SUBSET Addrs]

(* A socket in app_state has a task that reads it: none is left behind when  *)
(* the connection ends, whoever registers at its address meanwhile.          *)
SocketsAreRead ==
  \A a \in Addrs : sockets[a] # 0 =>
    LET k == sockets[a] IN conn[k].addr = a /\ conn[k].task \in {"reading", "ending"}

(* A client that answers is not taken out of app_state, though three tasks   *)
(* remove by address and two of them by what they read before: only where an *)
(* earlier connection had the address may its successor be removed for it.   *)
AnsweringAreKept ==
  \A k \in Conns : conn[k].task = "reading" /\ conn[k].client = "up" /\ ~Registered(k) =>
    \E j \in Conns : j < k /\ conn[j].addr = conn[k].addr

(* The periods fit: a client that is registered hears from the server before *)
(* it gives the connection up, though another's socket holds up the round.   *)
RegisteredAreHeard ==
  \A k \in Conns : ~(Registered(k) /\ TimesOut(k))

(* A client that has answered before is out of app_state two and a quarter   *)
(* minutes after it has fallen silent, but for the fraction of a second that *)
(* as_secs cuts off, whatever becomes of the pings to it.                    *)
SilentAreRemoved ==
  \A k \in Conns : Registered(k) /\ pongs[conn[k].addr] # Never =>
    conn[k].silent <= PongLimit + TrackPeriod
=============================================================================
