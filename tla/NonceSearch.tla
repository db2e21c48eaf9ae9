----------------------------- MODULE NonceSearch ----------------------------
(***************************************************************************)
(* The search of a mission's nonce range by the threads of the miner's     *)
(* program: the thread closure of mine.rs and the rayon closure of         *)
(* turbomine.rs (optimized_mining_rayon), up to the best solution they     *)
(* return together.                                                        *)
(*                                                                         *)
(* A nonce is worth the difficulty of the best of its hashes. mine's       *)
(* thread has one chunk, from its first nonce to the end of the range and  *)
(* that nonce too; turbomine's has the chunks of its core's part. A step   *)
(* of a thread is one turn of its nonce loop: running, stop and the clock  *)
(* only ever change one way, so that a turn that saw them at different     *)
(* times did as one that saw them at once. A definition whose name ends    *)
(* in Bug is a faulty variant of the one that follows it.                  *)
(***************************************************************************)
EXTENDS Integers, FiniteSets, FiniteSetsExt

CONSTANTS
  Threads,         \* how many threads search
  RangeStart,      \* the nonce range of the mission
  RangeEnd,
  NoncesPerThread, \* nonces_per_thread of mine: how far apart its threads begin
  ChunksPerThread, \* chunks_per_thread of turbomine
  MinChunk,        \* MIN_CHUNK_SIZE and
  MaxChunk,        \* MAX_CHUNK_SIZE of turbomine
  CheckEvery,      \* the clock is looked at when this divides the nonce
  MIN_DIFF,
  Worths           \* what nonces may be worth: functions on Nonces

Ids == 0..(Threads - 1)
Nonces == RangeStart..RangeEnd

ASSUME ThreadsAssumption == Threads \in Nat \ {0}
ASSUME RangeAssumption == RangeStart \in Nat /\ RangeEnd \in Nat /\ RangeStart <= RangeEnd
ASSUME StepsAssumption ==
  /\ {ChunksPerThread, MinChunk, CheckEvery} \subseteq Nat \ {0}
  /\ MaxChunk \in Nat /\ MinChunk <= MaxChunk
ASSUME OffsetsAssumption ==
  NoncesPerThread \in Nat /\ RangeStart + NoncesPerThread * (Threads - 1) <= RangeEnd
ASSUME WorthsAssumption == MIN_DIFF \in Nat /\ Worths \subseteq [Nonces -> Nat]

VARIABLES
  program,  \* which of the two programs this is
  worth,    \* what each nonce is worth
  running,  \* cleared by Ctrl-C
  timeUp,   \* the cutoff has passed
  closed,   \* the submission processor has returned: a send fails
  stop,     \* set by a thread whose send has failed
  thread,   \* each thread's nonce, the end of its chunk and its best
  result,   \* the best solution of the mission, once the threads are joined
  searched, \* history: the nonces each thread has hashed
  late      \* history: those of its chunk that it hashed, holding a solution, after the cutoff

vars == <<program, worth, running, timeUp, closed, stop, thread, result, searched, late>>
flags == <<program, worth, running, timeUp, closed>>

-----------------------------------------------------------------------------
(* Who searches what                                                       *)

FirstNonce(id) == RangeStart + NoncesPerThread * id

(* calculate_dynamic_chunk_size *)
ChunkSize ==
  LET ideal == (RangeEnd - RangeStart) \div (Threads * ChunksPerThread)
  IN  Max({MinChunk, Min({ideal, MaxChunk})})

CoreRangeSize == (RangeEnd - RangeStart) \div Threads
CoreStart(id) == RangeStart + id * CoreRangeSize

(* The remainder of the division is nobody's. *)
CoreEndBug(id) == CoreStart(id) + CoreRangeSize

CoreEnd(id) == IF id = Threads - 1 THEN RangeEnd ELSE CoreStart(id) + CoreRangeSize

ChunkEnd(id, start) == Min({start + ChunkSize, CoreEnd(id)})

(* A thread as it enters its first chunk. *)
Mine(id) ==
  [pc |-> "search", nonce |-> FirstNonce(id), chunk |-> FirstNonce(id), end |-> RangeEnd + 1,
   best |-> [nonce |-> FirstNonce(id), difficulty |-> 0]]

Turbomine(id) ==
  [pc |-> IF CoreStart(id) < CoreEnd(id) THEN "search" ELSE "done",
   nonce |-> CoreStart(id), chunk |-> CoreStart(id), end |-> ChunkEnd(id, CoreStart(id)),
   best |-> [nonce |-> CoreStart(id), difficulty |-> 0]]

-----------------------------------------------------------------------------
(* A turn of the nonce loop                                                *)

Finds(id) ==
  /\ worth[thread[id].nonce] > MIN_DIFF
  /\ worth[thread[id].nonce] > thread[id].best.difficulty

NextBest(id) ==
  IF Finds(id) THEN [nonce |-> thread[id].nonce, difficulty |-> worth[thread[id].nonce]]
  ELSE thread[id].best

(* The cutoff is heeded by a thread that has just found a solution only. *)
CutsBug(id) == timeUp /\ thread[id].nonce % CheckEvery = 0 /\ Finds(id)

Cuts(id) ==
  /\ timeUp /\ thread[id].nonce % CheckEvery = 0
  /\ NextBest(id).difficulty >= MIN_DIFF

(* The next chunk starts over: its best alone is returned. *)
LeaveChunkBug(id, t) ==
  LET start == t.chunk + ChunkSize
  IN  IF program = "mine" \/ start >= CoreEnd(id) THEN [t EXCEPT !.pc = "done"]
      ELSE [t EXCEPT !.nonce = start, !.chunk = start, !.end = ChunkEnd(id, start),
                     !.best = [nonce |-> start, difficulty |-> 0]]

(* The chunk that t is in has been left: mine's only one, or turbomine     *)
(* goes on with the next of its core, whatever the chunk was left for.     *)
LeaveChunk(id, t) ==
  LET start == t.chunk + ChunkSize
  IN  IF program = "mine" \/ start >= CoreEnd(id) THEN [t EXCEPT !.pc = "done"]
      ELSE [t EXCEPT !.nonce = start, !.chunk = start, !.end = ChunkEnd(id, start)]

(* thread[id] becomes t; with another chunk its count of late nonces starts *)
(* anew.                                                                    *)
Become(id, t, count) ==
  /\ thread' = [thread EXCEPT ![id] = t]
  /\ late' = [late EXCEPT ![id] = IF t.chunk = thread[id].chunk THEN count ELSE 0]

(* Ctrl-C: a thread of mine returns nothing, one of turbomine what it has. *)
Interrupt(id) ==
  /\ thread[id].pc = "search" /\ ~running
  /\ Become(id, [thread[id] EXCEPT !.pc = IF program = "mine" THEN "nothing" ELSE "done"], late[id])
  /\ UNCHANGED <<flags, stop, result, searched>>

Stopped(id) ==
  /\ thread[id].pc = "search" /\ running /\ stop
  /\ Become(id, LeaveChunk(id, thread[id]), late[id])
  /\ UNCHANGED <<flags, stop, result, searched>>

Search(id) ==
  LET t == [thread[id] EXCEPT !.best = NextBest(id)]
  IN  /\ thread[id].pc = "search" /\ running /\ ~stop
      /\ searched' = [searched EXCEPT ![id] = @ \cup {t.nonce}]
      /\ stop' = (Finds(id) /\ closed)
      /\ Become(id,
           IF Cuts(id) \/ t.nonce + 1 = t.end THEN LeaveChunk(id, t) ELSE [t EXCEPT !.nonce = @ + 1],
           IF timeUp /\ thread[id].best.difficulty >= MIN_DIFF THEN late[id] + 1 ELSE late[id])
      /\ UNCHANGED <<flags, result>>

-----------------------------------------------------------------------------
(* The mission                                                             *)

Ended == \A id \in Ids : thread[id].pc \in {"done", "nothing"}

(* The best of the threads that have returned one, of equals the first;    *)
(* what none of them beats is nonce 0 in mine, core 0's in turbomine.      *)
Join ==
  LET returned == {id \in Ids : thread[id].pc = "done"}
      difficulty(id) == thread[id].best.difficulty
  IN  /\ Ended /\ result.pc = "mining"
      /\ \/ /\ program = "mine" /\ \A id \in returned : difficulty(id) = 0
            /\ result' = [pc |-> "joined", best |-> [nonce |-> 0, difficulty |-> 0]]
         \/ \E id \in returned :
              /\ program = "turbomine" \/ difficulty(id) > 0
              /\ \A other \in returned :
                   difficulty(other) < difficulty(id) \/ (difficulty(other) = difficulty(id) /\ id <= other)
              /\ result' = [pc |-> "joined", best |-> thread[id].best]
      /\ UNCHANGED <<flags, stop, thread, searched, late>>

TimeUp ==
  /\ ~timeUp /\ timeUp' = TRUE
  /\ UNCHANGED <<program, worth, running, closed, stop, thread, result, searched, late>>

CtrlC ==
  /\ running /\ running' = FALSE
  /\ UNCHANGED <<program, worth, timeUp, closed, stop, thread, result, searched, late>>

ProcessorReturns ==
  /\ ~closed /\ closed' = TRUE
  /\ UNCHANGED <<program, worth, running, timeUp, stop, thread, result, searched, late>>

Init ==
  /\ program \in {"mine", "turbomine"}
  /\ worth \in Worths
  /\ running = TRUE /\ timeUp = FALSE /\ closed = FALSE /\ stop = FALSE
  /\ thread = [id \in Ids |-> IF program = "mine" THEN Mine(id) ELSE Turbomine(id)]
  /\ result = [pc |-> "mining", best |-> [nonce |-> 0, difficulty |-> 0]]
  /\ searched = [id \in Ids |-> {}]
  /\ late = [id \in Ids |-> 0]

(* The flags matter while a mission is on. *)
Environment == result.pc = "mining" /\ (TimeUp \/ CtrlC \/ ProcessorReturns)

Next ==
  \/ \E id \in Ids : Interrupt(id) \/ Stopped(id) \/ Search(id)
  \/ Join \/ Environment

Spec == Init /\ [][Next]_vars

-----------------------------------------------------------------------------
(* Properties                                                               *)

Solutions == [nonce: 0..RangeEnd, difficulty: Nat]

(* The variables have their types; a thread is inside its chunk. *)
TypeOK ==
  /\ program \in {"mine", "turbomine"} /\ worth \in [Nonces -> Nat]
  /\ {running, timeUp, closed, stop} \subseteq BOOLEAN
  /\ thread \in [Ids -> [pc: {"search", "done", "nothing"}, nonce: Nonces, chunk: Nonces,
                         end: RangeStart..(RangeEnd + 1), best: Solutions]]
  /\ result \in [pc: {"mining", "joined"}, best: Solutions]
  /\ searched \in [Ids -> SUBSET Nonces] /\ late \in [Ids -> Nat]

(* The search is not cut short by anything but its range. *)
Undisturbed == running /\ ~timeUp /\ ~stop

(* The cores of turbomine share the range out: no nonce is hashed by two of  *)
(* them, none outside the range, which the pool would refuse, and when       *)
(* nothing has cut the search short none is left out, whatever the range and *)
(* the chunks leave as remainders. (The threads of mine begin apart and then *)
(* do each other's nonces again.)                                            *)
RangeIsSharedOut ==
  program = "turbomine" =>
    /\ \A i, j \in Ids : i # j => searched[i] \cap searched[j] = {}
    /\ UNION {searched[id] : id \in Ids} \subseteq RangeStart..(RangeEnd - 1)
    /\ Undisturbed /\ Ended =>
         UNION {searched[id] : id \in Ids} = RangeStart..(RangeEnd - 1)

(* The solutions among the nonces of the threads that return their best. *)
Found ==
  {nonce \in UNION {searched[id] : id \in {i \in Ids : thread[i].pc = "done"}} :
     worth[nonce] > MIN_DIFF}

(* The result of the mission is the best solution hashed by a thread that    *)
(* returns one, through all its chunks and after the cutoff; without any, it *)
(* is worth nothing.                                                         *)
BestIsReturned ==
  result.pc = "joined" =>
    IF Found = {} THEN result.best.difficulty = 0
    ELSE /\ result.best.nonce \in Found
         /\ result.best.difficulty = worth[result.best.nonce]
         /\ \A nonce \in Found : worth[nonce] <= result.best.difficulty

(* Once the time is up, a thread that holds a solution leaves its chunk      *)
(* within the nonces between two looks at the clock.                         *)
CutoffIsKept == \A id \in Ids : late[id] <= CheckEvery
=============================================================================
