------------------------- MODULE NonceSearchProofs --------------------------
(***************************************************************************)
(* Proofs about NonceSearch, for any number of threads, any range, chunks  *)
(* and worths, and any order of Ctrl-C, the cutoff and a closed channel.   *)
(*                                                                         *)
(* First the arithmetic: the parts of the cores do not overlap, fill the   *)
(* range, and have room for every chunk. Then an inductive invariant that  *)
(* says how far each thread is (SearchInv), and what follows from it.      *)
(***************************************************************************)
EXTENDS NonceSearch, TLAPS

-----------------------------------------------------------------------------
(* Arithmetic                                                              *)

(* The smaller and the larger of two numbers. *)
LEMMA OfTwo ==
  ASSUME NEW a \in Int, NEW b \in Int
  PROVE  /\ Min({a, b}) = IF a <= b THEN a ELSE b
         /\ Max({a, b}) = IF a >= b THEN a ELSE b
<1>1. PICK x \in {a, b} : \A y \in {a, b} : x <= y
  OBVIOUS
<1>2. Min({a, b}) \in {a, b} /\ \A y \in {a, b} : Min({a, b}) <= y
  BY <1>1 DEF Min
<1>3. PICK z \in {a, b} : \A y \in {a, b} : z >= y
  OBVIOUS
<1>4. Max({a, b}) \in {a, b} /\ \A y \in {a, b} : Max({a, b}) >= y
  BY <1>3 DEF Max
<1> QED
  BY <1>2, <1>4

(* More of the same size are longer. *)
LEMMA Longer ==
  ASSUME NEW i \in Nat, NEW j \in Nat, NEW c \in Nat, i <= j
  PROVE  i * c \in Nat /\ i * c <= j * c
<1>1. PICK k \in Nat : j = i + k
  <2>1. j - i \in Nat /\ j = i + (j - i)
    OBVIOUS
  <2> QED
    BY <2>1
<1>2. j * c = i * c + k * c
  BY <1>1
<1>3. i * c \in Nat /\ k * c \in Nat
  OBVIOUS
<1> QED
  BY <1>2, <1>3

(* calculate_dynamic_chunk_size never returns 0. *)
LEMMA ChunkSizeType == ChunkSize \in Nat \ {0}
<1> DEFINE ideal == (RangeEnd - RangeStart) \div (Threads * ChunksPerThread)
<1>1. Threads * ChunksPerThread \in Nat \ {0} /\ RangeEnd - RangeStart \in Nat
  BY ThreadsAssumption, StepsAssumption, RangeAssumption
<1>2. ideal \in Int
  BY <1>1
<1> HIDE DEF ideal
<1>3. Min({ideal, MaxChunk}) \in Int
  BY <1>2, OfTwo, StepsAssumption
<1>4. MinChunk \in Nat \ {0}
  BY StepsAssumption
<1>5. \A b \in Int : Max({MinChunk, b}) \in Int /\ Max({MinChunk, b}) >= MinChunk
  <2> TAKE b \in Int
  <2>1. Max({MinChunk, b}) = IF MinChunk >= b THEN MinChunk ELSE b
    BY <1>4, OfTwo
  <2> QED
    BY <1>4, <2>1
<1>6. Max({MinChunk, Min({ideal, MaxChunk})}) \in Nat \ {0}
  BY <1>3, <1>4, <1>5
<1> QED
  BY <1>6 DEF ChunkSize, ideal

(* The cores' parts are in the range, as many times as there are cores. *)
LEMMA CoreRangeSizeFits ==
  CoreRangeSize \in Nat /\ RangeStart + Threads * CoreRangeSize <= RangeEnd
<1>1. RangeEnd - RangeStart \in Nat /\ Threads \in Nat \ {0}
  BY RangeAssumption, ThreadsAssumption
<1>2. \A w \in Nat, n \in Nat \ {0} : w \div n \in Nat /\ n * (w \div n) <= w
  OBVIOUS
<1> QED
  BY <1>1, <1>2, RangeAssumption DEF CoreRangeSize

(* A core's part is a part of the range. *)
LEMMA CoreInRange ==
  ASSUME NEW id \in Ids
  PROVE  /\ CoreStart(id) \in Nat /\ CoreEnd(id) \in Nat
         /\ RangeStart <= CoreStart(id) /\ CoreStart(id) <= CoreEnd(id)
         /\ CoreEnd(id) <= RangeEnd
<1>1. id \in Nat /\ id + 1 \in Nat /\ id + 1 <= Threads /\ Threads \in Nat
  BY ThreadsAssumption DEF Ids
<1>2. /\ id * CoreRangeSize \in Nat
      /\ (id + 1) * CoreRangeSize <= Threads * CoreRangeSize
  BY <1>1, CoreRangeSizeFits, Longer
<1>3. (id + 1) * CoreRangeSize = id * CoreRangeSize + CoreRangeSize
  BY <1>1, CoreRangeSizeFits
<1>4. Threads * CoreRangeSize \in Nat
  BY <1>1, CoreRangeSizeFits, Longer
<1> QED
  BY <1>2, <1>3, <1>4, CoreRangeSizeFits, RangeAssumption DEF CoreStart, CoreEnd

(* One core's part ends before the next one's begins. *)
LEMMA CoresApart ==
  ASSUME NEW i \in Ids, NEW j \in Ids, i < j
  PROVE  CoreEnd(i) <= CoreStart(j)
<1>1. i + 1 \in Nat /\ j \in Nat /\ i + 1 <= j /\ i # Threads - 1
  BY ThreadsAssumption DEF Ids
<1>2. (i + 1) * CoreRangeSize <= j * CoreRangeSize
  BY <1>1, CoreRangeSizeFits, Longer
<1>3. (i + 1) * CoreRangeSize = i * CoreRangeSize + CoreRangeSize
  BY CoreRangeSizeFits, ThreadsAssumption DEF Ids
<1>4. /\ i * CoreRangeSize \in Nat /\ (i + 1) * CoreRangeSize \in Nat
      /\ j * CoreRangeSize \in Nat
  BY <1>1, CoreRangeSizeFits, Longer DEF Ids
<1> QED
  BY <1>1, <1>2, <1>3, <1>4, CoreRangeSizeFits, RangeAssumption DEF CoreStart, CoreEnd

(* Every nonce of the range, but its last one, is in a core's part. *)
LEMMA CoresCover ==
  ASSUME NEW nonce \in RangeStart..(RangeEnd - 1)
  PROVE  \E id \in Ids : nonce \in CoreStart(id)..(CoreEnd(id) - 1)
<1> DEFINE last == Threads - 1
<1>1. last \in Ids /\ CoreEnd(last) = RangeEnd
  BY ThreadsAssumption DEF Ids, CoreEnd
<1>2. nonce \in Nat /\ RangeStart <= nonce /\ nonce < RangeEnd
  BY RangeAssumption
<1>3. CASE CoreStart(last) <= nonce
  BY <1>1, <1>2, <1>3, CoreInRange
<1>4. CASE nonce < CoreStart(last)
  <2> DEFINE offset == nonce - RangeStart
             id == offset \div CoreRangeSize
  <2>1. offset \in Nat /\ offset < last * CoreRangeSize
    <3>1. last * CoreRangeSize \in Nat
      BY <1>1, CoreRangeSizeFits, Longer DEF Ids
    <3> QED
      BY <1>2, <1>4, <3>1, RangeAssumption DEF CoreStart
  <2>2. CoreRangeSize \in Nat \ {0} /\ last \in Nat
    BY <1>1, <2>1, CoreRangeSizeFits DEF Ids
  <2>3. /\ id \in Nat /\ id * CoreRangeSize <= offset
        /\ offset < id * CoreRangeSize + CoreRangeSize
    <3>1. \A w \in Nat, n \in Nat \ {0} :
            /\ w \div n \in Nat
            /\ (w \div n) * n <= w /\ w < (w \div n) * n + n
      OBVIOUS
    <3> QED
      BY <2>1, <2>2, <3>1
  <2> HIDE DEF id
  <2>4. id < last
    <3>1. SUFFICES ASSUME last <= id PROVE FALSE
      BY <2>2, <2>3
    <3>2. last * CoreRangeSize <= id * CoreRangeSize
          /\ last * CoreRangeSize \in Nat /\ id * CoreRangeSize \in Nat
      BY <2>2, <2>3, <3>1, Longer
    <3> QED
      BY <2>1, <2>3, <3>2
  <2>5. id \in Ids
    BY <2>2, <2>3, <2>4, <1>1 DEF Ids
  <2>6. id * CoreRangeSize \in Nat
    BY <2>2, <2>3, Longer
  <2>7. CoreStart(id) <= nonce /\ nonce < CoreEnd(id)
    BY <1>2, <2>2, <2>3, <2>4, <2>6, RangeAssumption DEF CoreStart, CoreEnd
  <2> QED
    BY <1>2, <2>5, <2>7, CoreInRange
<1> QED
  BY <1>1, <1>2, <1>3, <1>4, CoreInRange

(* A chunk that begins in a core's part ends there. *)
LEMMA ChunkInCore ==
  ASSUME NEW id \in Ids, NEW start \in Nat
  PROVE  /\ ChunkEnd(id, start) \in Nat
         /\ ChunkEnd(id, start) <= CoreEnd(id)
         /\ start < CoreEnd(id) => start < ChunkEnd(id, start)
         /\ start + ChunkSize < CoreEnd(id) => ChunkEnd(id, start) = start + ChunkSize
         /\ start + ChunkSize >= CoreEnd(id) => ChunkEnd(id, start) = CoreEnd(id)
<1>1. start + ChunkSize \in Nat /\ CoreEnd(id) \in Nat /\ ChunkSize \in Nat \ {0}
  BY ChunkSizeType, CoreInRange
<1>2. ChunkEnd(id, start) = IF start + ChunkSize <= CoreEnd(id) THEN start + ChunkSize
                            ELSE CoreEnd(id)
  BY <1>1, OfTwo DEF ChunkEnd
<1> QED
  BY <1>1, <1>2

(* The threads of mine begin in the range. *)
LEMMA FirstInRange ==
  ASSUME NEW id \in Ids
  PROVE  FirstNonce(id) \in Nonces
<1>1. id \in Nat /\ Threads - 1 \in Nat /\ id <= Threads - 1
  BY ThreadsAssumption DEF Ids
<1>2. id * NoncesPerThread <= (Threads - 1) * NoncesPerThread
      /\ id * NoncesPerThread \in Nat
  BY <1>1, OffsetsAssumption, Longer
<1>3. id * NoncesPerThread = NoncesPerThread * id
      /\ (Threads - 1) * NoncesPerThread = NoncesPerThread * (Threads - 1)
  BY <1>1, OffsetsAssumption
<1>4. (Threads - 1) * NoncesPerThread \in Nat
  BY <1>1, OffsetsAssumption, Longer
<1> QED
  BY <1>2, <1>3, <1>4, OffsetsAssumption, RangeAssumption DEF FirstNonce, Nonces

(* A number that the clock's period does not divide is one more in it than *)
(* its predecessor.                                                        *)
LEMMA NotDivided ==
  ASSUME NEW n \in Nat, n % CheckEvery # 0
  PROVE  n % CheckEvery = ((n - 1) % CheckEvery) + 1
<1>1. CheckEvery \in Nat \ {0}
  BY StepsAssumption
<1>2. n % CheckEvery \in 1..(CheckEvery - 1)
  BY <1>1
<1>3. PICK q \in Int : n = CheckEvery * q + (n % CheckEvery)
  <2>1. n \div CheckEvery \in Int /\ n = CheckEvery * (n \div CheckEvery) + (n % CheckEvery)
    BY <1>1
  <2> QED
    BY <2>1
<1>4. \A d \in Nat \ {0}, k \in Int, r \in Nat : r < d => (d * k + r) % d = r
  OBVIOUS
<1>5. (n % CheckEvery) - 1 \in 0..(CheckEvery - 1)
  BY <1>1, <1>2
<1>6. n - 1 = CheckEvery * q + ((n % CheckEvery) - 1)
  BY <1>1, <1>2, <1>3
<1>7. (CheckEvery * q + ((n % CheckEvery) - 1)) % CheckEvery = (n % CheckEvery) - 1
  BY <1>1, <1>4, <1>5
<1> QED
  BY <1>2, <1>6, <1>7

-----------------------------------------------------------------------------
(* A chunk that is left                                                    *)

ThreadRecord ==
  [pc: {"search", "done", "nothing"}, nonce: Nonces, chunk: Nonces,
   end: RangeStart..(RangeEnd + 1), best: Solutions]

(* A thread that is in a chunk of its part. *)
InPart(id, t) ==
  program = "turbomine" => CoreStart(id) <= t.chunk /\ t.end = ChunkEnd(id, t.chunk)

(* A thread goes on at the first nonce of its next chunk, or is done. *)
LEMMA LeaveChunkResult ==
  ASSUME program \in {"mine", "turbomine"}, NEW id \in Ids, NEW t \in ThreadRecord,
         t.pc = "search", InPart(id, t), NEW left, left = LeaveChunk(id, t)
  PROVE  /\ left \in ThreadRecord
         /\ left.best = t.best
         /\ left.pc # "nothing"
         /\ left.pc = "search" =>
              /\ program = "turbomine" /\ InPart(id, left)
              /\ left.chunk > t.chunk
              /\ left.nonce = left.chunk /\ left.nonce = t.chunk + ChunkSize
              /\ left.nonce < CoreEnd(id) /\ left.nonce < left.end
         /\ left.pc = "done" =>
              (program = "turbomine" => t.chunk + ChunkSize >= CoreEnd(id))
<1> DEFINE start == t.chunk + ChunkSize
<1>1. t.chunk \in Nat /\ start \in Nat /\ start > t.chunk
  BY ChunkSizeType, RangeAssumption DEF ThreadRecord, Nonces
<1>2. CoreStart(id) \in Nat /\ CoreEnd(id) \in Nat /\ CoreEnd(id) <= RangeEnd
      /\ RangeStart <= CoreStart(id)
  BY CoreInRange
<1>3. CASE program = "mine" \/ start >= CoreEnd(id)
  <2>1. left = [t EXCEPT !.pc = "done"]
    BY <1>3 DEF LeaveChunk
  <2> QED
    BY <1>3, <2>1 DEF ThreadRecord
<1>4. CASE program = "turbomine" /\ start < CoreEnd(id)
  <2>1. left = [t EXCEPT !.nonce = start, !.chunk = start, !.end = ChunkEnd(id, start)]
    BY <1>1, <1>2, <1>4 DEF LeaveChunk
  <2>2. /\ ChunkEnd(id, start) \in Nat /\ ChunkEnd(id, start) <= CoreEnd(id)
        /\ start < ChunkEnd(id, start)
    BY <1>1, <1>4, ChunkInCore
  <2>3. CoreStart(id) <= t.chunk
    BY <1>4 DEF InPart
  <2>4. start \in Nonces /\ ChunkEnd(id, start) \in RangeStart..(RangeEnd + 1)
    BY <1>1, <1>2, <1>4, <2>2, <2>3, RangeAssumption DEF Nonces
  <2>5. left \in ThreadRecord
    BY <2>1, <2>4 DEF ThreadRecord
  <2>6. /\ left.nonce = start /\ left.chunk = start /\ left.end = ChunkEnd(id, start)
        /\ left.best = t.best /\ left.pc = "search"
    BY <2>1 DEF ThreadRecord
  <2> QED
    BY <1>1, <1>2, <1>4, <2>2, <2>3, <2>5, <2>6 DEF InPart
<1> QED
  BY <1>1, <1>2, <1>3, <1>4

-----------------------------------------------------------------------------
(* The invariant                                                           *)

(* A thread that searches is inside its chunk, and its chunk in its part; *)
(* what it has hashed is its part up to where it is.                      *)
Position(id) ==
  /\ thread[id].pc = "search" =>
       /\ thread[id].chunk <= thread[id].nonce /\ thread[id].nonce < thread[id].end
       /\ InPart(id, thread[id])
  /\ program = "turbomine" =>
       /\ searched[id] \subseteq CoreStart(id)..(CoreEnd(id) - 1)
       /\ Undisturbed => /\ thread[id].pc # "nothing"
                         /\ searched[id] = CoreStart(id)..(IF thread[id].pc = "search"
                                                           THEN thread[id].nonce - 1
                                                           ELSE CoreEnd(id) - 1)

(* A thread's best is the best solution it has hashed. *)
Best(id) ==
  /\ \/ thread[id].best.difficulty = 0
     \/ /\ thread[id].best.nonce \in searched[id]
        /\ thread[id].best.difficulty = worth[thread[id].best.nonce]
        /\ thread[id].best.difficulty > MIN_DIFF
  /\ \A nonce \in searched[id] :
       worth[nonce] > MIN_DIFF => worth[nonce] <= thread[id].best.difficulty

(* The late nonces of a chunk are no more than those since the clock was due. *)
Late(id) ==
  /\ late[id] <= CheckEvery
  /\ thread[id].pc = "search" =>
       \/ late[id] = 0
       \/ /\ timeUp /\ thread[id].best.difficulty >= MIN_DIFF
          /\ late[id] <= (thread[id].nonce - 1) % CheckEvery

ThreadInv(id) == Position(id) /\ Best(id) /\ Late(id)

SearchInv ==
  /\ TypeOK
  /\ \A id \in Ids : ThreadInv(id)
  /\ result.pc = "joined" => Ended
  /\ BestIsReturned

LEMMA SearchInit == Init => SearchInv
<1> SUFFICES ASSUME Init PROVE SearchInv
  OBVIOUS
<1>1. worth \in [Nonces -> Nat] /\ RangeStart \in Nat /\ RangeEnd \in Nat
  BY WorthsAssumption, RangeAssumption DEF Init
<1>2. ASSUME NEW id \in Ids, program = "mine"
      PROVE  thread[id] \in ThreadRecord /\ ThreadInv(id)
  <2>1. thread[id] = Mine(id) /\ searched[id] = {} /\ late[id] = 0
    BY <1>2 DEF Init
  <2>2. FirstNonce(id) \in Nonces /\ FirstNonce(id) \in 0..RangeEnd
        /\ FirstNonce(id) < RangeEnd + 1
    BY <1>1, FirstInRange DEF Nonces
  <2>3. thread[id] \in ThreadRecord
    BY <1>1, <2>1, <2>2, RangeAssumption DEF Mine, ThreadRecord, Solutions
  <2>4. Position(id) /\ Best(id) /\ Late(id)
    BY <1>2, <2>1, <2>2, StepsAssumption DEF Mine, Position, Best, Late, InPart
  <2> QED
    BY <2>3, <2>4 DEF ThreadInv
<1>3. ASSUME NEW id \in Ids, program = "turbomine"
      PROVE  thread[id] \in ThreadRecord /\ ThreadInv(id)
  <2> DEFINE start == CoreStart(id)
             end == ChunkEnd(id, start)
  <2>1. /\ thread[id] = [pc |-> IF start < CoreEnd(id) THEN "search" ELSE "done",
                         nonce |-> start, chunk |-> start, end |-> end,
                         best |-> [nonce |-> start, difficulty |-> 0]]
        /\ searched[id] = {} /\ late[id] = 0
    BY <1>3 DEF Init, Turbomine
  <2>2. /\ start \in Nat /\ CoreEnd(id) \in Nat /\ RangeStart <= start
        /\ start <= CoreEnd(id) /\ CoreEnd(id) <= RangeEnd
    BY CoreInRange
  <2>3. /\ end \in Nat /\ end <= CoreEnd(id) /\ (start < CoreEnd(id) => start < end)
    BY <2>2, ChunkInCore
  <2>4. start \in Nonces /\ start \in 0..RangeEnd
    BY <1>1, <2>2 DEF Nonces
  <2>5. end \in RangeStart..(RangeEnd + 1)
    <3>1. start = CoreEnd(id) => end = CoreEnd(id)
      BY <2>2, ChunkInCore, ChunkSizeType
    <3> QED
      BY <1>1, <2>2, <2>3, <3>1
  <2> HIDE DEF start, end
  <2>6. thread[id] \in ThreadRecord
    BY <2>1, <2>4, <2>5 DEF ThreadRecord, Solutions
  <2>7. Position(id)
    BY <1>3, <2>1, <2>2, <2>3 DEF Position, InPart, start, end
  <2>8. Best(id) /\ Late(id)
    BY <2>1, StepsAssumption DEF Best, Late
  <2> QED
    BY <2>6, <2>7, <2>8 DEF ThreadInv
<1>4. program \in {"mine", "turbomine"}
  BY DEF Init
<1>5. \A id \in Ids : thread[id] \in ThreadRecord /\ ThreadInv(id)
  BY <1>2, <1>3, <1>4
<1>6. thread \in [Ids -> ThreadRecord]
  BY <1>5 DEF Init
<1>7. result \in [pc: {"mining", "joined"}, best: Solutions]
  BY <1>1 DEF Init, Solutions
<1>8. searched \in [Ids -> SUBSET Nonces] /\ late \in [Ids -> Nat]
  BY DEF Init
<1>9. TypeOK
  BY <1>1, <1>4, <1>6, <1>7, <1>8 DEF Init, TypeOK, ThreadRecord
<1> QED
  BY <1>5, <1>9 DEF Init, SearchInv, BestIsReturned

(* A step that is not a thread's own leaves it where it is. *)
LEMMA OthersKeep ==
  ASSUME NEW id \in Ids, ThreadInv(id), TypeOK,
         UNCHANGED <<program, worth, thread[id], searched[id], late[id]>>,
         Undisturbed' => Undisturbed, timeUp => timeUp'
  PROVE  ThreadInv(id)'
<1>1. Position(id)'
  BY DEF ThreadInv, Position, InPart, CoreStart, CoreEnd, ChunkEnd, ChunkSize, CoreRangeSize
<1>2. Best(id)' /\ Late(id)'
  BY DEF ThreadInv, Best, Late
<1> QED
  BY <1>1, <1>2 DEF ThreadInv

(* A thread's own step leaves the others where they are, and what is proved *)
(* of it and its type is all that the step can change of the invariant.     *)
LEMMA ThreadSteps ==
  ASSUME SearchInv, NEW id \in Ids, thread[id].pc = "search",
         NEW t \in ThreadRecord, NEW nonces \in SUBSET Nonces, NEW count \in Nat,
         UNCHANGED <<flags, result>>, stop' \in BOOLEAN, Undisturbed' => Undisturbed,
         thread' = [thread EXCEPT ![id] = t],
         searched' = [searched EXCEPT ![id] = nonces],
         late' = [late EXCEPT ![id] = count],
         ThreadInv(id)'
  PROVE  SearchInv'
<1>1. TypeOK /\ result.pc # "joined"
  BY DEF SearchInv, Ended
<1>2. thread \in [Ids -> ThreadRecord]
  BY <1>1 DEF TypeOK, ThreadRecord
<1>3. thread' \in [Ids -> ThreadRecord]
  BY <1>2
<1>4. searched' \in [Ids -> SUBSET Nonces] /\ late' \in [Ids -> Nat]
  BY <1>1 DEF TypeOK
<1>5. TypeOK'
  <2>1. worth' \in [Nonces -> Nat] /\ program' \in {"mine", "turbomine"}
        /\ {running', timeUp', closed', stop'} \subseteq BOOLEAN
    BY <1>1 DEF TypeOK, flags
  <2>2. result' \in [pc: {"mining", "joined"}, best: Solutions]
    BY <1>1 DEF TypeOK
  <2> QED
    BY <1>3, <1>4, <2>1, <2>2 DEF TypeOK, ThreadRecord
<1>6. ASSUME NEW other \in Ids, other # id PROVE ThreadInv(other)'
  <2>1. UNCHANGED <<program, worth, thread[other], searched[other], late[other]>>
    BY <1>1, <1>2, <1>6 DEF TypeOK, flags
  <2>2. timeUp => timeUp'
    BY DEF flags
  <2> QED
    BY <1>1, <2>1, <2>2, OthersKeep DEF SearchInv
<1> QED
  BY <1>1, <1>5, <1>6 DEF SearchInv, BestIsReturned

LEMMA InterruptStep ==
  ASSUME SearchInv, NEW id \in Ids, Interrupt(id)
  PROVE  SearchInv'
<1> DEFINE t == [thread[id] EXCEPT !.pc = IF program = "mine" THEN "nothing" ELSE "done"]
<1>1. TypeOK /\ ThreadInv(id)
  BY DEF SearchInv
<1>2. thread[id] \in ThreadRecord /\ late[id] \in Nat /\ searched[id] \in SUBSET Nonces
  BY <1>1 DEF TypeOK, ThreadRecord
<1>3. /\ t \in ThreadRecord /\ t.pc # "search" /\ t.chunk = thread[id].chunk
      /\ t.best = thread[id].best
  BY <1>2 DEF ThreadRecord
<1> HIDE DEF t
<1>4. /\ thread[id].pc = "search" /\ ~running /\ UNCHANGED <<flags, stop, result, searched>>
      /\ Become(id, t, late[id])
  BY DEF Interrupt, t
<1>5. thread' = [thread EXCEPT ![id] = t] /\ late' = [late EXCEPT ![id] = late[id]]
  BY <1>3, <1>4 DEF Become
<1>6. searched' = [searched EXCEPT ![id] = searched[id]]
  BY <1>1, <1>4 DEF TypeOK
<1>7. /\ UNCHANGED <<program, worth, searched[id], late[id]>> /\ thread'[id] = t
      /\ ~Undisturbed /\ ~Undisturbed'
  BY <1>1, <1>4, <1>5 DEF TypeOK, flags, Undisturbed
<1>8. Position(id)'
  BY <1>1, <1>3, <1>7
     DEF ThreadInv, Position, CoreStart, CoreEnd, CoreRangeSize
<1>9. Best(id)' /\ Late(id)'
  BY <1>1, <1>3, <1>7 DEF ThreadInv, Best, Late
<1>10. ThreadInv(id)' /\ stop' \in BOOLEAN
  BY <1>1, <1>4, <1>8, <1>9 DEF ThreadInv, TypeOK
<1> QED
  BY <1>2, <1>3, <1>4, <1>5, <1>6, <1>7, <1>10, ThreadSteps

LEMMA StoppedStep ==
  ASSUME SearchInv, NEW id \in Ids, Stopped(id)
  PROVE  SearchInv'
<1> DEFINE t == LeaveChunk(id, thread[id])
           count == IF t.chunk = thread[id].chunk THEN late[id] ELSE 0
<1>1. TypeOK /\ ThreadInv(id) /\ thread[id].pc = "search" /\ stop
  BY DEF SearchInv, Stopped
<1>2. thread[id] \in ThreadRecord /\ late[id] \in Nat /\ searched[id] \in SUBSET Nonces
      /\ program \in {"mine", "turbomine"}
  BY <1>1 DEF TypeOK, ThreadRecord
<1>3. InPart(id, thread[id])
  BY <1>1 DEF ThreadInv, Position
<1>4. /\ t \in ThreadRecord /\ t.best = thread[id].best
      /\ t.pc = "search" => t.chunk > thread[id].chunk /\ InPart(id, t)
                           /\ t.chunk <= t.nonce /\ t.nonce < t.end
  <2>1. /\ t \in ThreadRecord /\ t.best = thread[id].best
        /\ t.pc = "search" => t.chunk > thread[id].chunk /\ InPart(id, t)
                             /\ t.chunk = t.nonce /\ t.nonce < t.end
    BY <1>1, <1>2, <1>3, LeaveChunkResult
  <2>2. t.chunk \in Nat
    BY <2>1, RangeAssumption DEF ThreadRecord, Nonces
  <2> HIDE DEF t
  <2> QED
    BY <2>1, <2>2
<1>5. count \in Nat /\ count <= CheckEvery /\ (t.pc = "search" => count = 0)
  <2>1. late[id] <= CheckEvery /\ CheckEvery \in Nat
    BY <1>1, StepsAssumption DEF ThreadInv, Late
  <2>2. thread[id].chunk \in Nat
    BY <1>2, RangeAssumption DEF ThreadRecord, Nonces
  <2> QED
    BY <1>2, <1>4, <2>1, <2>2
<1>6. thread' = [thread EXCEPT ![id] = t] /\ late' = [late EXCEPT ![id] = count]
      /\ UNCHANGED <<flags, stop, result, searched>>
  BY DEF Stopped, Become
<1> HIDE DEF t, count
<1>7. searched' = [searched EXCEPT ![id] = searched[id]]
  BY <1>1, <1>6 DEF TypeOK
<1>8. /\ UNCHANGED <<program, worth, searched[id]>> /\ thread'[id] = t /\ late'[id] = count
      /\ ~Undisturbed /\ ~Undisturbed'
  BY <1>1, <1>6 DEF TypeOK, flags, Undisturbed
<1>9. Position(id)'
  BY <1>1, <1>4, <1>8
     DEF ThreadInv, Position, InPart, CoreStart, CoreEnd, ChunkEnd, ChunkSize, CoreRangeSize
<1>10. Best(id)' /\ Late(id)'
  BY <1>1, <1>4, <1>5, <1>8 DEF ThreadInv, Best, Late
<1>11. ThreadInv(id)' /\ stop' \in BOOLEAN
  BY <1>1, <1>6, <1>9, <1>10 DEF ThreadInv, TypeOK
<1> QED
  BY <1>1, <1>2, <1>4, <1>5, <1>6, <1>7, <1>8, <1>11, ThreadSteps
(* What a turn makes of a thread's best. *)
LEMMA TurnBest ==
  ASSUME TypeOK, NEW id \in Ids, Best(id)
  PROVE  /\ NextBest(id) \in Solutions
         /\ NextBest(id).difficulty >= thread[id].best.difficulty
         /\ \/ NextBest(id).difficulty = 0
            \/ /\ NextBest(id).nonce \in searched[id] \cup {thread[id].nonce}
               /\ NextBest(id).difficulty = worth[NextBest(id).nonce]
               /\ NextBest(id).difficulty > MIN_DIFF
         /\ \A nonce \in searched[id] \cup {thread[id].nonce} :
              worth[nonce] > MIN_DIFF => worth[nonce] <= NextBest(id).difficulty
<1>1. /\ thread[id].nonce \in Nonces /\ thread[id].best \in Solutions
      /\ worth \in [Nonces -> Nat] /\ MIN_DIFF \in Nat /\ searched[id] \subseteq Nonces
  BY WorthsAssumption DEF TypeOK
<1>2. /\ worth[thread[id].nonce] \in Nat /\ thread[id].nonce \in 0..RangeEnd
      /\ thread[id].best.difficulty \in Nat
      /\ \A nonce \in searched[id] : worth[nonce] \in Nat
  BY <1>1, RangeAssumption DEF Nonces, Solutions
<1>3. CASE Finds(id)
  <2>1. NextBest(id) = [nonce |-> thread[id].nonce, difficulty |-> worth[thread[id].nonce]]
    BY <1>3 DEF NextBest
  <2> QED
    BY <1>1, <1>2, <1>3, <2>1 DEF Finds, Best, Solutions
<1>4. CASE ~Finds(id)
  <2>1. NextBest(id) = thread[id].best
    BY <1>4 DEF NextBest
  <2> QED
    BY <1>1, <1>2, <1>4, <2>1 DEF Finds, Best
<1> QED
  BY <1>3, <1>4

LEMMA SearchStep ==
  ASSUME SearchInv, NEW id \in Ids, Search(id)
  PROVE  SearchInv'
<1> DEFINE n == thread[id].nonce
           t == [thread[id] EXCEPT !.best = NextBest(id)]
           leaves == Cuts(id) \/ n + 1 = t.end
           next == IF leaves THEN LeaveChunk(id, t) ELSE [t EXCEPT !.nonce = @ + 1]
           counted == IF timeUp /\ thread[id].best.difficulty >= MIN_DIFF
                      THEN late[id] + 1 ELSE late[id]
           count == IF next.chunk = thread[id].chunk THEN counted ELSE 0
           nonces == searched[id] \cup {n}
<1>1. TypeOK /\ ThreadInv(id) /\ thread[id].pc = "search" /\ ~stop /\ running
  BY DEF SearchInv, Search
<1>2. /\ thread[id] \in ThreadRecord /\ late[id] \in Nat /\ nonces \in SUBSET Nonces
      /\ program \in {"mine", "turbomine"} /\ timeUp \in BOOLEAN
  BY <1>1 DEF TypeOK, ThreadRecord
<1>3. thread[id].chunk <= n /\ n < thread[id].end /\ InPart(id, thread[id])
  BY <1>1 DEF ThreadInv, Position
<1>4. /\ n \in Nonces /\ n \in Nat /\ thread[id].chunk \in Nonces /\ thread[id].chunk \in Nat
      /\ thread[id].end \in RangeStart..(RangeEnd + 1)
  BY <1>2, RangeAssumption DEF ThreadRecord, Nonces
<1>5. /\ NextBest(id) \in Solutions
      /\ NextBest(id).difficulty >= thread[id].best.difficulty
      /\ \/ NextBest(id).difficulty = 0
         \/ /\ NextBest(id).nonce \in nonces
            /\ NextBest(id).difficulty = worth[NextBest(id).nonce]
            /\ NextBest(id).difficulty > MIN_DIFF
      /\ \A nonce \in nonces : worth[nonce] > MIN_DIFF => worth[nonce] <= NextBest(id).difficulty
  BY <1>1, TurnBest DEF ThreadInv
<1>6. /\ t \in ThreadRecord /\ t.pc = "search" /\ t.nonce = n /\ t.chunk = thread[id].chunk
      /\ t.end = thread[id].end /\ t.best = NextBest(id) /\ InPart(id, t)
  BY <1>1, <1>2, <1>3, <1>5 DEF ThreadRecord, InPart
<1>7. /\ thread' = [thread EXCEPT ![id] = next] /\ late' = [late EXCEPT ![id] = count]
      /\ searched' = [searched EXCEPT ![id] = nonces]
      /\ UNCHANGED <<flags, result>> /\ stop' \in BOOLEAN
  BY <1>6 DEF Search, Become
<1>8. leaves =>
        /\ next \in ThreadRecord /\ next.best = NextBest(id) /\ next.pc # "nothing"
        /\ next.pc = "search" =>
             /\ program = "turbomine" /\ InPart(id, next) /\ next.chunk > t.chunk
             /\ next.nonce = t.chunk + ChunkSize /\ next.chunk = next.nonce
             /\ next.nonce < CoreEnd(id) /\ next.nonce < next.end
        /\ next.pc = "done" => (program = "turbomine" => t.chunk + ChunkSize >= CoreEnd(id))
  <2>1. leaves => next = LeaveChunk(id, t)
    OBVIOUS
  <2> HIDE DEF next, leaves, t
  <2> QED
    BY <1>2, <1>6, <2>1, LeaveChunkResult
<1>9. ~leaves =>
        /\ next \in ThreadRecord /\ next.best = NextBest(id) /\ next.pc = "search"
        /\ next.nonce = n + 1 /\ next.chunk = t.chunk /\ next.end = t.end /\ n + 1 < t.end
  <2> SUFFICES ASSUME ~leaves
               PROVE  /\ next \in ThreadRecord /\ next.best = NextBest(id) /\ next.pc = "search"
                      /\ next.nonce = n + 1 /\ next.chunk = t.chunk /\ next.end = t.end
                      /\ n + 1 < t.end
    OBVIOUS
  <2>1. n + 1 < t.end /\ n + 1 \in Nonces
    BY <1>3, <1>4, <1>6, RangeAssumption DEF Nonces
  <2>2. next = [t EXCEPT !.nonce = n + 1]
    BY <1>6
  <2> QED
    BY <1>6, <2>1, <2>2 DEF ThreadRecord
<1>10. next \in ThreadRecord /\ next.best = NextBest(id)
  BY <1>8, <1>9
<1>11. /\ counted \in Nat /\ counted <= CheckEvery
       /\ ~leaves => counted = 0 \/ (timeUp /\ NextBest(id).difficulty >= MIN_DIFF
                                     /\ counted <= n % CheckEvery)
  <2>1. /\ late[id] <= CheckEvery /\ CheckEvery \in Nat \ {0}
        /\ \/ late[id] = 0
           \/ timeUp /\ thread[id].best.difficulty >= MIN_DIFF /\ late[id] <= (n - 1) % CheckEvery
    BY <1>1, StepsAssumption DEF ThreadInv, Late
  <2>2. n % CheckEvery \in 0..(CheckEvery - 1) /\ (n - 1) % CheckEvery \in 0..(CheckEvery - 1)
    BY <1>4, <2>1
  <2>3. counted \in Nat /\ counted <= CheckEvery
    BY <1>2, <2>1, <2>2
  <2>4. ASSUME ~leaves, counted # 0
        PROVE  timeUp /\ NextBest(id).difficulty >= MIN_DIFF /\ counted <= n % CheckEvery
    <3>1. timeUp /\ thread[id].best.difficulty >= MIN_DIFF /\ counted = late[id] + 1
      BY <1>2, <2>1, <2>4
    <3>2. NextBest(id).difficulty >= MIN_DIFF
      BY <1>2, <1>5, <3>1, WorthsAssumption DEF ThreadRecord, Solutions
    <3>3. n % CheckEvery # 0
      BY <2>4, <3>1, <3>2 DEF Cuts
    <3>4. n % CheckEvery = ((n - 1) % CheckEvery) + 1
      BY <1>4, <3>3, NotDivided
    <3> QED
      BY <1>2, <2>1, <2>2, <3>1, <3>2, <3>4
  <2> QED
    BY <2>3, <2>4
<1>12. count \in Nat /\ count <= CheckEvery
  BY <1>11, StepsAssumption
<1>13. next.pc = "search" =>
         count = 0 \/ (timeUp /\ NextBest(id).difficulty >= MIN_DIFF
                       /\ count <= (next.nonce - 1) % CheckEvery)
  <2>1. leaves /\ next.pc = "search" => count = 0
    BY <1>4, <1>6, <1>8
  <2>2. ~leaves => next.nonce - 1 = n /\ count = counted
    BY <1>4, <1>6, <1>9
  <2> QED
    BY <1>11, <2>1, <2>2
<1>14. /\ next.pc = "search" => /\ next.chunk <= next.nonce /\ next.nonce < next.end
                               /\ InPart(id, next)
       /\ next.pc # "nothing"
  BY <1>3, <1>4, <1>6, <1>8, <1>9, ChunkSizeType DEF InPart
<1>15. program = "turbomine" =>
         /\ nonces \subseteq CoreStart(id)..(CoreEnd(id) - 1)
         /\ Undisturbed => nonces = CoreStart(id)..(IF next.pc = "search" THEN next.nonce - 1
                                                    ELSE CoreEnd(id) - 1)
  <2> SUFFICES ASSUME program = "turbomine"
               PROVE  /\ nonces \subseteq CoreStart(id)..(CoreEnd(id) - 1)
                      /\ Undisturbed => nonces = CoreStart(id)..(IF next.pc = "search"
                                                                 THEN next.nonce - 1
                                                                 ELSE CoreEnd(id) - 1)
    OBVIOUS
  <2>1. /\ searched[id] \subseteq CoreStart(id)..(CoreEnd(id) - 1)
        /\ Undisturbed => searched[id] = CoreStart(id)..(n - 1)
    BY <1>1 DEF ThreadInv, Position
  <2>2. /\ t.end = ChunkEnd(id, t.chunk) /\ t.chunk \in Nat /\ t.end \in Nat /\ n < t.end
        /\ t.end <= CoreEnd(id) /\ CoreStart(id) <= t.chunk
        /\ CoreStart(id) \in Nat /\ CoreEnd(id) \in Nat
    BY <1>3, <1>4, <1>6, ChunkInCore, CoreInRange DEF InPart
  <2>3. CoreStart(id) <= n /\ n <= CoreEnd(id) - 1
    BY <1>3, <1>4, <1>6, <2>2
  <2>4. nonces \subseteq CoreStart(id)..(CoreEnd(id) - 1)
    BY <1>4, <2>1, <2>2, <2>3
  <2>5. Undisturbed => nonces = CoreStart(id)..n
    <3>1. \A a \in Nat : a <= n => (a..(n - 1)) \cup {n} = a..n
      BY <1>4
    <3> QED
      BY <2>1, <2>2, <2>3, <3>1
  <2>6. ASSUME Undisturbed
        PROVE  n = IF next.pc = "search" THEN next.nonce - 1 ELSE CoreEnd(id) - 1
    <3>1. CASE leaves
      <4>1. n + 1 = t.end
        BY <2>6, <3>1 DEF Cuts, Undisturbed
      <4>2. next.pc = "search" => t.end = next.nonce
        BY <1>8, <2>2, <3>1, ChunkInCore
      <4>3. next.pc # "search" => t.end = CoreEnd(id)
        BY <1>8, <1>10, <2>2, <3>1, ChunkInCore DEF ThreadRecord
      <4> QED
        BY <1>4, <4>1, <4>2, <4>3
    <3>2. CASE ~leaves
      BY <1>4, <1>9, <3>2
    <3> QED
      BY <3>1, <3>2
  <2> QED
    BY <2>4, <2>5, <2>6
<1> HIDE DEF next, count, nonces, t, leaves
<1>16. UNCHANGED <<program, worth, running, timeUp>> /\ (Undisturbed' => Undisturbed)
  BY <1>1, <1>7 DEF flags, Undisturbed
<1>17. thread'[id] = next /\ late'[id] = count /\ searched'[id] = nonces
  BY <1>1, <1>7 DEF TypeOK
<1>18. Position(id)'
  BY <1>14, <1>15, <1>16, <1>17
     DEF Position, InPart, CoreStart, CoreEnd, ChunkEnd, ChunkSize, CoreRangeSize
<1>19. Best(id)'
  BY <1>5, <1>10, <1>16, <1>17 DEF Best
<1>20. Late(id)'
  BY <1>10, <1>12, <1>13, <1>16, <1>17 DEF Late
<1> QED
  BY <1>1, <1>2, <1>7, <1>10, <1>12, <1>16, <1>18, <1>19, <1>20, ThreadSteps DEF ThreadInv, nonces

LEMMA JoinStep ==
  ASSUME SearchInv, Join
  PROVE  SearchInv'
<1> DEFINE returned == {id \in Ids : thread[id].pc = "done"}
           difficulty(id) == thread[id].best.difficulty
<1>1. TypeOK /\ \A id \in Ids : ThreadInv(id)
  BY DEF SearchInv
<1>2. UNCHANGED <<flags, stop, thread, searched, late>> /\ Ended
  BY DEF Join
<1>3. /\ \A id \in Ids : thread[id].best \in Solutions /\ difficulty(id) \in Nat
      /\ \A id \in Ids : \A nonce \in searched[id] : worth[nonce] \in Nat
      /\ MIN_DIFF \in Nat /\ RangeEnd \in Nat
  BY <1>1, WorthsAssumption, RangeAssumption DEF TypeOK, Solutions
<1>4. ASSUME NEW nonce \in Found
      PROVE  \E id \in returned : /\ worth[nonce] \in Nat /\ MIN_DIFF < worth[nonce]
                                 /\ worth[nonce] <= difficulty(id)
  BY <1>1, <1>3 DEF Found, ThreadInv, Best
<1>5. ASSUME NEW id \in returned
      PROVE  \/ difficulty(id) = 0
             \/ thread[id].best.nonce \in Found /\ difficulty(id) = worth[thread[id].best.nonce]
  BY <1>1 DEF Found, ThreadInv, Best
<1>6. UNCHANGED <<Found, worth>>
  BY <1>2 DEF Found, flags
<1>7. ASSUME \A id \in returned : difficulty(id) = 0,
             result' = [pc |-> "joined", best |-> [nonce |-> 0, difficulty |-> 0]]
      PROVE  BestIsReturned' /\ result' \in [pc: {"mining", "joined"}, best: Solutions]
  <2>1. Found = {}
    BY <1>3, <1>4, <1>7
  <2>2. BestIsReturned'
    BY <1>6, <1>7, <2>1 DEF BestIsReturned
  <2>3. result' \in [pc: {"mining", "joined"}, best: Solutions]
    BY <1>3, <1>7 DEF Solutions
  <2> QED
    BY <2>2, <2>3
<1>8. ASSUME NEW id \in returned,
             \A other \in returned :
               difficulty(other) < difficulty(id) \/ (difficulty(other) = difficulty(id) /\ id <= other),
             result' = [pc |-> "joined", best |-> thread[id].best]
      PROVE  BestIsReturned' /\ result' \in [pc: {"mining", "joined"}, best: Solutions]
  <2>1. \A other \in returned : difficulty(other) <= difficulty(id)
    BY <1>3, <1>8
  <2>2. \A nonce \in Found : worth[nonce] <= difficulty(id) /\ difficulty(id) > 0
    BY <1>3, <1>4, <2>1
  <2>3. Found = {} => difficulty(id) = 0
    BY <1>5
  <2>4. Found # {} => /\ thread[id].best.nonce \in Found
                      /\ difficulty(id) = worth[thread[id].best.nonce]
    BY <1>3, <1>5, <2>2
  <2>5. BestIsReturned'
    BY <1>6, <1>8, <2>2, <2>3, <2>4 DEF BestIsReturned
  <2> QED
    BY <1>3, <1>8, <2>5
<1>9. BestIsReturned' /\ result' \in [pc: {"mining", "joined"}, best: Solutions]
  BY <1>7, <1>8 DEF Join
<1>10. TypeOK' /\ Ended'
  BY <1>1, <1>2, <1>9 DEF TypeOK, flags, Ended
<1>11. ASSUME NEW id \in Ids PROVE ThreadInv(id)'
  BY <1>1, <1>2, OthersKeep DEF flags, Undisturbed
<1> QED
  BY <1>9, <1>10, <1>11 DEF SearchInv

LEMMA EnvironmentStep ==
  ASSUME SearchInv, Environment
  PROVE  SearchInv'
<1>1. TypeOK /\ \A id \in Ids : ThreadInv(id)
  BY DEF SearchInv
<1>2. /\ UNCHANGED <<program, worth, stop, thread, result, searched, late>>
      /\ {running', timeUp', closed'} \subseteq BOOLEAN
      /\ running' => running
      /\ timeUp => timeUp'
  <2>1. running \in BOOLEAN /\ timeUp \in BOOLEAN /\ closed \in BOOLEAN
    BY <1>1 DEF TypeOK
  <2>2. CASE TimeUp
    BY <2>1, <2>2 DEF TimeUp
  <2>3. CASE CtrlC
    BY <2>1, <2>3 DEF CtrlC
  <2>4. CASE ProcessorReturns
    BY <2>1, <2>4 DEF ProcessorReturns
  <2> QED
    BY <2>2, <2>3, <2>4 DEF Environment
<1>3. TypeOK'
  BY <1>1, <1>2 DEF TypeOK
<1>4. ASSUME NEW id \in Ids PROVE ThreadInv(id)'
  BY <1>1, <1>2, OthersKeep DEF Undisturbed
<1>5. result'.pc # "joined"
  BY <1>2 DEF Environment
<1> QED
  BY <1>3, <1>4, <1>5 DEF SearchInv, BestIsReturned

LEMMA SearchNext == SearchInv /\ [Next]_vars => SearchInv'
<1> SUFFICES ASSUME SearchInv, [Next]_vars PROVE SearchInv'
  OBVIOUS
<1>1. ASSUME NEW id \in Ids, Interrupt(id) \/ Stopped(id) \/ Search(id) PROVE SearchInv'
  BY <1>1, InterruptStep, StoppedStep, SearchStep
<1>2. CASE Join
  BY <1>2, JoinStep
<1>3. CASE Environment
  BY <1>3, EnvironmentStep
<1>4. CASE UNCHANGED vars
  <2>1. TypeOK /\ \A id \in Ids : ThreadInv(id)
    BY DEF SearchInv
  <2>2. ASSUME NEW id \in Ids PROVE ThreadInv(id)'
    BY <1>4, <2>1, OthersKeep DEF vars, Undisturbed
  <2>3. TypeOK' /\ UNCHANGED <<result, Ended, Found, worth>>
    BY <1>4, <2>1 DEF vars, TypeOK, Ended, Found
  <2> QED
    BY <2>2, <2>3 DEF SearchInv, BestIsReturned
<1> QED
  BY <1>1, <1>2, <1>3, <1>4 DEF Next

LEMMA SearchInvariant == Spec => []SearchInv
  BY SearchInit, SearchNext, PTL DEF Spec

-----------------------------------------------------------------------------
(* What follows                                                            *)

(* Every variable has its type; a thread is inside the mission's range. *)
THEOREM TypeCorrect == Spec => []TypeOK
  BY SearchInvariant, PTL DEF SearchInv

(* turbomine's cores share the range out, whatever the division leaves over: *)
(* the parts are disjoint, in the range, and together all of it.             *)
THEOREM RangeCorrect == Spec => []RangeIsSharedOut
<1>1. SearchInv => RangeIsSharedOut
  <2> SUFFICES ASSUME SearchInv, program = "turbomine"
               PROVE  /\ \A i, j \in Ids : i # j => searched[i] \cap searched[j] = {}
                      /\ UNION {searched[id] : id \in Ids} \subseteq RangeStart..(RangeEnd - 1)
                      /\ Undisturbed /\ Ended =>
                           RangeStart..(RangeEnd - 1) \subseteq UNION {searched[id] : id \in Ids}
    BY DEF RangeIsSharedOut
  <2>1. \A id \in Ids :
          /\ searched[id] \subseteq CoreStart(id)..(CoreEnd(id) - 1)
          /\ Undisturbed /\ thread[id].pc \in {"done", "nothing"} =>
               searched[id] = CoreStart(id)..(CoreEnd(id) - 1)
    BY DEF SearchInv, ThreadInv, Position
  <2>2. \A id \in Ids : /\ CoreStart(id) \in Nat /\ CoreEnd(id) \in Nat
                        /\ RangeStart <= CoreStart(id) /\ CoreEnd(id) <= RangeEnd
    BY CoreInRange
  <2>3. ASSUME NEW i \in Ids, NEW j \in Ids, i < j PROVE searched[i] \cap searched[j] = {}
    <3>1. CoreEnd(i) <= CoreStart(j)
      BY <2>3, CoresApart
    <3> QED
      BY <2>1, <2>2, <3>1
  <2>4. \A i, j \in Ids : i # j => i < j \/ j < i
    BY ThreadsAssumption DEF Ids
  <2>5. \A i, j \in Ids : i # j => searched[i] \cap searched[j] = {}
    BY <2>3, <2>4
  <2>6. ASSUME NEW id \in Ids PROVE searched[id] \subseteq RangeStart..(RangeEnd - 1)
    BY <2>1, <2>2, RangeAssumption
  <2>7. ASSUME Undisturbed, Ended, NEW nonce \in RangeStart..(RangeEnd - 1)
        PROVE  \E id \in Ids : nonce \in searched[id]
    BY <2>1, <2>7, CoresCover DEF Ended
  <2> QED
    BY <2>5, <2>6, <2>7
<1> QED
  BY <1>1, SearchInvariant, PTL

(* The result is the best solution any returning thread has hashed. *)
THEOREM BestCorrect == Spec => []BestIsReturned
  BY SearchInvariant, PTL DEF SearchInv

(* A thread with a solution notices within CheckEvery nonces that its time *)
(* is up.                                                                  *)
THEOREM CutoffCorrect == Spec => []CutoffIsKept
<1>1. SearchInv => CutoffIsKept
  BY DEF SearchInv, ThreadInv, Late, CutoffIsKept
<1> QED
  BY <1>1, SearchInvariant, PTL
=============================================================================
