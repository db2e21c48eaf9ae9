----------------------------- MODULE ClientMiner ----------------------------
(***************************************************************************)
(* The miner's program: the connection loop of mine.rs, the thread that    *)
(* receives, the task of a mission with its mining threads, and the        *)
(* submission processor. turbomine.rs is the same but for its search.      *)
(*                                                                         *)
(* A connection and a mission are known by the order they were opened in.  *)
(* A solution is what it is worth: which nonces a thread searches, and     *)
(* when the clock ends its search, is the subject of NonceSearch. The      *)
(* server is external: it answers a Ready with a mission at most, as       *)
(* MiningRound shows. A definition whose name ends in Bug is a faulty      *)
(* variant of the one that follows it, for mutation testing.               *)
(***************************************************************************)
EXTENDS Integers, Sequences, SequencesExt, FiniteSets, FiniteSetsExt

CONSTANTS
  Workers,        \* mining threads of a mission
  Difficulties,   \* what a solution above MIN_DIFF may be worth
  MaxConnections, \* bound: connections opened
  MaxMissions     \* bound: missions received

Conns == 1..MaxConnections
Missions == 1..MaxMissions

ASSUME DifficultiesAssumption == Difficulties \subseteq Nat \ {0} /\ IsFiniteSet(Difficulties)
ASSUME WorkersAssumption == IsFiniteSet(Workers)
ASSUME BoundsAssumption == MaxConnections \in Nat /\ MaxMissions \in Nat

VARIABLES
  running,   \* cleared by Ctrl-C
  main,      \* the connection loop
  conn,      \* the socket, its receiver thread and message_sender's channel
  processor, \* submission_processor and its channel, per connection
  mission,   \* the tasks of the missions
  thread,    \* the best that each of their mining threads has found
  sent       \* the solutions on the wire, per connection

vars == <<running, main, conn, processor, mission, thread, sent>>

NoConn == [open |-> FALSE, receiver |-> "off", messages |-> <<>>, ready |-> 0]
NoProcessor == [pc |-> "off", best |-> 0, queue |-> <<>>]
NoMission == [pc |-> "none", c |-> 0, best |-> 0]
NoThreads == [t \in Workers |-> 0]

Finish == [kind |-> "Finish", n |-> 0, difficulty |-> 0]
Reset == [kind |-> "Reset", n |-> 0, difficulty |-> 0]
Submission(n, difficulty) == [kind |-> "Submission", n |-> n, difficulty |-> difficulty]

(* The channel of c's processor with more messages. What is put behind a  *)
(* Finish is never read, and once the processor has returned nothing is.  *)
Closed(c) == processor[c].pc = "done" \/ Finish \in ToSet(processor[c].queue)
Sends(c, items) ==
  processor' = IF Closed(c) THEN processor ELSE [processor EXCEPT ![c].queue = @ \o items]

-----------------------------------------------------------------------------
(* The connection loop                                                     *)

(* A timestamp, a connection, its tasks, and the first Ready. An attempt   *)
(* that fails sleeps and is repeated.                                      *)
Connect ==
  /\ main.pc = "connect" /\ running
  /\ main.c < MaxConnections
  /\ LET c == main.c + 1
     IN  /\ main' = [pc |-> "messages", c |-> c]
         /\ conn' = [conn EXCEPT ![c] = [NoConn EXCEPT !.open = TRUE, !.receiver = "on",
                                                       !.ready = 1]]
         /\ processor' = [processor EXCEPT ![c].pc = "recv"]
  /\ UNCHANGED <<running, mission, thread, sent>>

Exit ==
  /\ main.pc = "connect" /\ ~running
  /\ main' = [main EXCEPT !.pc = "exited"]
  /\ UNCHANGED <<running, conn, processor, mission, thread, sent>>

(* Ready is sent before the mission has ended. *)
TakeMessageBug ==
  /\ main.pc = "messages" /\ conn[main.c].messages # <<>>
  /\ LET n == Head(conn[main.c].messages)
     IN  /\ conn' = [conn EXCEPT ![main.c].messages = Tail(@),
                                 ![main.c].ready = @ + (IF running THEN 1 ELSE 0)]
         /\ mission' = [mission EXCEPT ![n].pc = IF running THEN "mining" ELSE "dropped"]
  /\ UNCHANGED <<running, main, processor, thread, sent>>

(* The task of a mission is spawned, and returns at once after a Ctrl-C. *)
TakeMessage ==
  /\ main.pc = "messages" /\ conn[main.c].messages # <<>>
  /\ LET n == Head(conn[main.c].messages)
     IN  /\ conn' = [conn EXCEPT ![main.c].messages = Tail(@)]
         /\ mission' = [mission EXCEPT ![n].pc = IF running THEN "mining" ELSE "dropped"]
  /\ UNCHANGED <<running, main, processor, thread, sent>>

(* The channel has ended with the receiver thread: reconnect. *)
Reconnect ==
  /\ main.pc = "messages" /\ conn[main.c].messages = <<>> /\ conn[main.c].receiver = "done"
  /\ main' = [main EXCEPT !.pc = "connect"]
  /\ Sends(main.c, <<Finish>>)
  /\ UNCHANGED <<running, conn, mission, thread, sent>>

CtrlC ==
  /\ running
  /\ running' = FALSE
  /\ UNCHANGED <<main, conn, processor, mission, thread, sent>>

-----------------------------------------------------------------------------
(* The receiver thread                                                     *)

(* process_message: StartMining, which the server sends for a Ready. *)
ReceiveStart(c, n) ==
  /\ conn[c].receiver = "on" /\ conn[c].open /\ conn[c].ready > 0
  /\ mission[n].pc = "none" /\ \A k \in Missions : k < n => mission[k].pc # "none"
  /\ conn' = [conn EXCEPT ![c].ready = @ - 1, ![c].messages = Append(@, n)]
  /\ mission' = [mission EXCEPT ![n] = [NoMission EXCEPT !.pc = "offered", !.c = c]]
  /\ UNCHANGED <<running, main, processor, thread, sent>>

ReceiverReturns(c) ==
  /\ conn' = [conn EXCEPT ![c].receiver = "done"]
  /\ Sends(c, <<Finish>>)
  /\ UNCHANGED <<running, main, mission, thread, sent>>

(* The time since the last StartMining is not looked at. *)
ReceiveIdleBug(c) == FALSE /\ ReceiverReturns(c)

(* A ping or a result, WS_IDLE_TIMEOUT after the last StartMining. *)
ReceiveIdle(c) ==
  /\ conn[c].receiver = "on" /\ conn[c].open
  /\ ReceiverReturns(c)

(* A close, an error, the end of the stream, or 45 seconds of silence. *)
ReceiveEnd(c) ==
  /\ conn[c].receiver = "on"
  /\ ReceiverReturns(c)

(* Whether the socket breaks after its receiver has returned is a matter of *)
(* what is lost on it only.                                                 *)
Disconnect(c) ==
  /\ conn[c].open /\ conn[c].receiver = "on"
  /\ conn' = [conn EXCEPT ![c].open = FALSE]
  /\ UNCHANGED <<running, main, processor, mission, thread, sent>>

-----------------------------------------------------------------------------
(* A mission: its threads, then its best solution, Reset and Ready          *)

(* A solution that beats the thread's best is queued. Ctrl-C is looked at   *)
(* before every nonce; when a search ends otherwise (its range, the cutoff, *)
(* stop, which a send that fails sets) is left open.                        *)
Hash(n, t, difficulty) ==
  /\ mission[n].pc = "mining" /\ running
  /\ difficulty > thread[n][t]
  /\ Sends(mission[n].c, <<Submission(n, difficulty)>>)
  /\ thread' = [thread EXCEPT ![n][t] = difficulty]
  /\ UNCHANGED <<running, main, conn, mission, sent>>

BestOf(n, results) == Max({0} \cup {thread[n][t] : t \in results})

(* The threads are joined: the client's best solution once more, and Reset. *)
(* A thread that Ctrl-C has interrupted returns nothing in mine.rs, and     *)
(* what it has found in turbomine.rs.                                       *)
JoinThreads(n) ==
  /\ mission[n].pc = "mining"
  /\ \E results \in SUBSET Workers :
       /\ running => results = Workers
       /\ Sends(mission[n].c, <<Submission(n, BestOf(n, results)), Reset>>)
  /\ mission' = [mission EXCEPT ![n].pc = "ready", ![n].best = BestOf(n, Workers)]
  /\ thread' = [thread EXCEPT ![n] = NoThreads]
  /\ UNCHANGED <<running, main, conn, sent>>

(* A mission whose socket is closed waits for a better one. *)
SendReadyBug(n) ==
  LET c == mission[n].c
  IN  /\ mission[n].pc = "ready" /\ conn[c].open
      /\ mission' = [mission EXCEPT ![n].pc = "done"]
      /\ conn' = [conn EXCEPT ![c].ready = @ + 1]
      /\ UNCHANGED <<running, main, processor, thread, sent>>

(* Ready goes to the socket at once, past the processor's channel. *)
SendReady(n) ==
  LET c == mission[n].c
  IN  /\ mission[n].pc = "ready"
      /\ mission' = [mission EXCEPT ![n].pc = "done"]
      /\ \/ /\ conn[c].open
            /\ conn' = [conn EXCEPT ![c].ready = @ + 1]
            /\ UNCHANGED processor
         \/ /\ ~conn[c].open
            /\ Sends(c, <<Finish>>)
            /\ UNCHANGED conn
      /\ UNCHANGED <<running, main, thread, sent>>

MissionNext(n) ==
  \/ \E t \in Workers, difficulty \in Difficulties : Hash(n, t, difficulty)
  \/ JoinThreads(n) \/ SendReady(n)

-----------------------------------------------------------------------------
(* submission_processor                                                    *)

(* best_diff lives as long as the connection. *)
NextBestBug(p, item) == IF item.kind = "Submission" THEN Max({p.best, item.difficulty}) ELSE p.best

NextBest(p, item) ==
  IF item.kind = "Submission" THEN Max({p.best, item.difficulty}) ELSE 0

IsBetterBug(p, item) == item.difficulty > 0

IsBetter(p, item) == item.difficulty > p.best

(* The messages in their order; a solution goes to the socket when its lock *)
(* is free, and an error is not looked at. A pause (for the lock, two       *)
(* seconds after a Reset) is the time until the next step.                  *)
Process(c) ==
  LET p == processor[c]
      item == Head(p.queue)
      solution == item.kind = "Submission" /\ IsBetter(p, item)
  IN  /\ p.pc = "recv" /\ p.queue # <<>>
      /\ processor' = [processor EXCEPT ![c] =
           [pc |-> IF item.kind = "Finish" THEN "done" ELSE "recv",
            best |-> NextBest(p, item), queue |-> Tail(p.queue)]]
      /\ sent' = IF solution /\ conn[c].open THEN [sent EXCEPT ![c] = Append(@, item)] ELSE sent
      /\ UNCHANGED <<running, main, conn, mission, thread>>

-----------------------------------------------------------------------------
Init ==
  /\ running = TRUE
  /\ main = [pc |-> "connect", c |-> 0]
  /\ conn = [c \in Conns |-> NoConn]
  /\ processor = [c \in Conns |-> NoProcessor]
  /\ mission = [n \in Missions |-> NoMission]
  /\ thread = [n \in Missions |-> NoThreads]
  /\ sent = [c \in Conns |-> <<>>]

MainNext == Connect \/ Exit \/ TakeMessage \/ Reconnect

Next ==
  \/ MainNext \/ CtrlC
  \/ \E c \in Conns :
       \/ \E n \in Missions : ReceiveStart(c, n)
       \/ ReceiveIdle(c) \/ ReceiveEnd(c) \/ Disconnect(c)
       \/ Process(c)
  \/ \E n \in Missions : MissionNext(n)

Spec == Init /\ [][Next]_vars

(* Every thread runs; the server pings its sockets, and a time comes when it   *)
(* has not started a mission for long; one that is closed ends its receiver,   *)
(* after 45 seconds at the latest.                                             *)
FairSpec ==
  /\ Spec
  /\ WF_vars(MainNext)
  /\ \A c \in Conns : /\ WF_vars(ReceiveIdle(c)) /\ WF_vars(~conn[c].open /\ ReceiveEnd(c))
                      /\ WF_vars(Process(c))
  /\ \A n \in Missions : WF_vars(MissionNext(n))

-----------------------------------------------------------------------------
(* Properties                                                               *)

(* What the server relies on: the solutions a connection sends for a mission *)
(* get better and better, though several threads find them, the client's     *)
(* best is queued twice and the processor lags behind the missions.          *)
SentIncreasing ==
  \A c \in Conns : \A i, j \in DOMAIN sent[c] :
    i < j /\ sent[c][i].n = sent[c][j].n => sent[c][i].difficulty < sent[c][j].difficulty

(* A connection does not tell the server that it is ready while it mines: a  *)
(* second range would replace the one its solutions are checked against.     *)
ReadyOnlyBetweenMissions ==
  \A n \in Missions :
    mission[n].pc \in {"offered", "mining", "ready"} =>
      /\ conn[mission[n].c].ready = 0
      /\ \A k \in Missions \ {n} :
           mission[k].pc \in {"offered", "mining", "ready"} => mission[k].c # mission[n].c

Ended(c) == ~conn[c].open \/ conn[c].receiver = "done"

Pending(c, n) == \E item \in ToSet(processor[c].queue) : item.n = n

(* The best solution of a mission reaches the server, unless the connection  *)
(* ends: it may do so after Ready, when the next mission has begun, but no   *)
(* other mission's best keeps it from being sent.                            *)
BestIsSent ==
  \A n \in Missions : LET c == mission[n].c IN
    mission[n].pc = "done" /\ mission[n].best > 0 /\ ~Ended(c) /\ ~Pending(c, n) =>
      \E i \in DOMAIN sent[c] : sent[c][i].n = n /\ sent[c][i].difficulty = mission[n].best

(* Ctrl-C ends the program, though the loop that looks at it waits for the   *)
(* messages of a server that keeps the connection alive.                     *)
CtrlCExits == ~running ~> main.pc = "exited"

(* A mission that was begun ends and is followed by Ready, whatever happens  *)
(* to its connection and to the processor meanwhile.                         *)
MissionsEnd == \A n \in Missions : mission[n].pc = "mining" ~> mission[n].pc = "done"
=============================================================================
