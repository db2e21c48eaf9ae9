-------------------------- MODULE ClientMinerProofs ---------------------------
(***************************************************************************)
(* Proofs about ClientMiner, for every number of mining threads, of        *)
(* connections and of missions, and all that a solution may be worth.      *)
(***************************************************************************)
EXTENDS ClientMiner, SumProofs, SequenceTheorems

-----------------------------------------------------------------------------
(* What a queue of the submission processor may look like: values q of the *)
(* queue, b of the processor's best, and s of what its connection has sent.*)

Submissions == [kind: {"Submission"}, n: Missions, difficulty: Nat]
Item == Submissions \cup {Reset, Finish}

IsSub(item) == item.kind = "Submission"
NoReset(q, i, j) == \A k \in (i + 1)..(j - 1) : q[k].kind # "Reset"

(* Nothing sent for n is worth more than b. *)
AtMost(s, n, b) == \A k \in DOMAIN s : s[k].n = n => s[k].difficulty <= b
NoneOf(s, n) == \A k \in DOMAIN s : s[k].n # n
Has(s, n, b) == \E k \in DOMAIN s : s[k].n = n /\ s[k].difficulty = b

Increasing(s) ==
  \A i, j \in DOMAIN s : (i < j /\ s[i].n = s[j].n) => s[i].difficulty < s[j].difficulty

(* A submission of n may be put at i of the queue. *)
MayFollow(q, b, s, n, i) ==
  /\ NoReset(q, 0, i) => AtMost(s, n, b)
  /\ ~NoReset(q, 0, i) => NoneOf(s, n)
  /\ \A j \in 1..(i - 1) : (IsSub(q[j]) /\ q[j].n = n) => NoReset(q, j, i)

InOrder(q, b, s) ==
  /\ Increasing(s)
  /\ \A i \in DOMAIN q : IsSub(q[i]) => MayFollow(q, b, s, q[i].n, i)

(* What is needed of a connection that lasts *)
BestIsOf(q, b, s) ==
  \A i \in DOMAIN q : IsSub(q[i]) =>
     /\ (NoReset(q, 0, i) /\ b > 0) => Has(s, q[i].n, b)
     /\ \A j \in 1..(i - 1) : (IsSub(q[j]) /\ NoReset(q, j, i)) => q[j].n = q[i].n

TipIs(q, b, s, n) ==
  /\ \A i \in DOMAIN q : (IsSub(q[i]) /\ NoReset(q, i, Len(q) + 1)) => q[i].n = n
  /\ (NoReset(q, 0, Len(q) + 1) /\ b > 0) => Has(s, n, b)

NoTip(q, b) ==
  /\ \A i \in DOMAIN q : IsSub(q[i]) => ~NoReset(q, i, Len(q) + 1)
  /\ NoReset(q, 0, Len(q) + 1) => b = 0

Covered(q, s, n, v) ==
  \/ v = 0
  \/ \E k \in DOMAIN s : s[k].n = n /\ s[k].difficulty >= v
  \/ \E k \in DOMAIN q : IsSub(q[k]) /\ q[k].n = n /\ q[k].difficulty >= v

Bounded(q, s, n, v) ==
  /\ AtMost(s, n, v)
  /\ \A k \in DOMAIN q : (IsSub(q[k]) /\ q[k].n = n) => q[k].difficulty <= v


-----------------------------------------------------------------------------
(* How queues change.                                                      *)

Extended(q, r, item) ==
  /\ Len(q) \in Nat /\ DOMAIN q = 1..Len(q)
  /\ Len(r) = Len(q) + 1 /\ DOMAIN r = 1..(Len(q) + 1)
  /\ \A i \in 1..Len(q) : r[i] = q[i]
  /\ r[Len(q) + 1] = item

Popped(q, r) ==
  /\ Len(q) \in Nat \ {0} /\ DOMAIN q = 1..Len(q)
  /\ Len(r) = Len(q) - 1 /\ DOMAIN r = 1..(Len(q) - 1)
  /\ \A i \in 1..(Len(q) - 1) : r[i] = q[i + 1]

LEMMA AppendExtends ==
  ASSUME NEW T, NEW q \in Seq(T), NEW item \in T
  PROVE  Append(q, item) \in Seq(T) /\ Extended(q, Append(q, item), item)
  BY DEF Extended

LEMMA TailPops ==
  ASSUME NEW T, NEW q \in Seq(T), q # <<>>
  PROVE  Tail(q) \in Seq(T) /\ Popped(q, Tail(q)) /\ Head(q) = q[1] /\ Head(q) \in T
  BY EmptySeq DEF Popped

LEMMA ResetsExtended ==
  ASSUME NEW q, NEW r, NEW item, Extended(q, r, item)
  PROVE  /\ \A i, j \in Nat : j <= Len(q) + 1 => (NoReset(r, i, j) <=> NoReset(q, i, j))
         /\ \A i \in Nat : i <= Len(q) =>
              (NoReset(r, i, Len(r) + 1) <=>
                 (NoReset(q, i, Len(q) + 1) /\ item.kind # "Reset"))
         /\ NoReset(r, Len(q) + 1, Len(r) + 1)
  <1>1. ASSUME NEW i \in Nat, NEW j \in Nat, j <= Len(q) + 1
        PROVE  NoReset(r, i, j) <=> NoReset(q, i, j)
    <2>1. \A k \in (i + 1)..(j - 1) : r[k] = q[k]
      BY <1>1 DEF Extended
    <2> QED
      BY <2>1 DEF NoReset
  <1>2. ASSUME NEW i \in Nat, i <= Len(q)
        PROVE  NoReset(r, i, Len(r) + 1) <=> (NoReset(q, i, Len(q) + 1) /\ item.kind # "Reset")
    <2>1. \A k \in (i + 1)..Len(q) : r[k] = q[k]
      BY <1>2 DEF Extended
    <2>2. /\ Len(r) + 1 - 1 = Len(q) + 1 /\ Len(q) + 1 - 1 = Len(q)
          /\ \A k \in (i + 1)..(Len(q) + 1) : k \in (i + 1)..Len(q) \/ k = Len(q) + 1
          /\ Len(q) + 1 \in (i + 1)..(Len(q) + 1)
          /\ \A k \in (i + 1)..Len(q) : k \in (i + 1)..(Len(q) + 1)
      BY <1>2 DEF Extended
    <2>3. r[Len(q) + 1] = item
      BY DEF Extended
    <2> QED
      BY <2>1, <2>2, <2>3 DEF NoReset
  <1>3. NoReset(r, Len(q) + 1, Len(r) + 1)
    BY DEF NoReset, Extended
  <1> QED
    BY <1>1, <1>2, <1>3

LEMMA ResetsPopped ==
  ASSUME NEW q, NEW r, Popped(q, r)
  PROVE  \A i \in Nat, j \in 1..Len(q) :
           /\ NoReset(r, i, j) <=> NoReset(q, i + 1, j + 1)
           /\ NoReset(q, 0, j + 1) <=> (q[1].kind # "Reset" /\ NoReset(r, 0, j))
  <1> SUFFICES ASSUME NEW i \in Nat, NEW j \in 1..Len(q)
               PROVE  /\ NoReset(r, i, j) <=> NoReset(q, i + 1, j + 1)
                      /\ NoReset(q, 0, j + 1) <=> (q[1].kind # "Reset" /\ NoReset(r, 0, j))
    OBVIOUS
  <1>1. \A l \in Nat : \A k \in (l + 1)..(j - 1) : k \in Nat /\ r[k] = q[k + 1]
    BY DEF Popped
  <1>2. \A l \in Nat : \A k \in ((l + 1) + 1)..((j + 1) - 1) :
          k - 1 \in (l + 1)..(j - 1) /\ q[k] = r[k - 1]
    BY DEF Popped
  <1>3. \A l \in Nat : NoReset(r, l, j) <=> NoReset(q, l + 1, j + 1)
    <2> SUFFICES ASSUME NEW l \in Nat
                 PROVE  NoReset(r, l, j) <=> NoReset(q, l + 1, j + 1)
      OBVIOUS
    <2>1. ASSUME NoReset(r, l, j), NEW k \in ((l + 1) + 1)..((j + 1) - 1)
          PROVE  q[k].kind # "Reset"
      BY <1>2, <2>1 DEF NoReset
    <2>2. ASSUME NoReset(q, l + 1, j + 1), NEW k \in (l + 1)..(j - 1)
          PROVE  r[k].kind # "Reset"
      <3>1. k + 1 \in ((l + 1) + 1)..((j + 1) - 1)
        BY DEF Popped
      <3> QED
        BY <1>1, <2>2, <3>1 DEF NoReset
    <2> QED
      BY <2>1, <2>2 DEF NoReset
  <1>4. NoReset(q, 0, j + 1) <=> (q[1].kind # "Reset" /\ NoReset(q, 1, j + 1))
    <2>1. \A k \in (0 + 1)..((j + 1) - 1) : k = 1 \/ k \in (1 + 1)..((j + 1) - 1)
      BY DEF Popped
    <2>2. 1 \in (0 + 1)..((j + 1) - 1) /\ \A k \in (1 + 1)..((j + 1) - 1) : k \in (0 + 1)..((j + 1) - 1)
      BY DEF Popped
    <2> QED
      BY <2>1, <2>2 DEF NoReset
  <1>5. NoReset(r, 0, j) <=> NoReset(q, 1, j + 1)
    BY <1>3
  <1> QED
    BY <1>3, <1>4, <1>5

-----------------------------------------------------------------------------
(* The order of what is sent: a queue grows at its end, and loses its head. *)

(* What Process does with a solution: it is sent when it is better, unless *)
(* the socket is closed.                                                   *)
Sent(b, b2, s, s2, head) ==
  /\ b2 = IF head.difficulty > b THEN head.difficulty ELSE b
  /\ \/ s2 = s
     \/ s2 = Append(s, head) /\ head.difficulty > b

LEMMA OrderExtended ==
  ASSUME NEW q, NEW r, NEW b, NEW s, NEW item, Extended(q, r, item), InOrder(q, b, s),
         IsSub(item) => MayFollow(q, b, s, item.n, Len(q) + 1)
  PROVE  InOrder(r, b, s)
  <1>1. \A i \in 1..(Len(q) + 1) : \A n : MayFollow(r, b, s, n, i) <=> MayFollow(q, b, s, n, i)
    <2> SUFFICES ASSUME NEW i \in 1..(Len(q) + 1), NEW n
                 PROVE  MayFollow(r, b, s, n, i) <=> MayFollow(q, b, s, n, i)
      OBVIOUS
    <2>1. NoReset(r, 0, i) <=> NoReset(q, 0, i)
      BY ResetsExtended DEF Extended
    <2>2. \A j \in 1..(i - 1) : r[j] = q[j] /\ (NoReset(r, j, i) <=> NoReset(q, j, i))
      BY ResetsExtended DEF Extended
    <2> QED
      BY <2>1, <2>2 DEF MayFollow
  <1>2. \A i \in 1..Len(q) : i \in 1..(Len(q) + 1) /\ r[i] = q[i]
    BY DEF Extended
  <1>3. \A i \in 1..(Len(q) + 1) : i \in 1..Len(q) \/ i = Len(q) + 1
    BY DEF Extended
  <1>4. ASSUME NEW i \in 1..(Len(q) + 1), IsSub(r[i])
        PROVE  MayFollow(r, b, s, r[i].n, i)
    <2>1. CASE i \in 1..Len(q)
      BY <1>1, <1>2, <1>4, <2>1 DEF InOrder, Extended
    <2>2. CASE i = Len(q) + 1
      BY <1>1, <1>4, <2>2 DEF Extended
    <2> QED
      BY <1>3, <2>1, <2>2
  <1> QED
    BY <1>4 DEF InOrder, Extended

(* A mission goes on submitting behind its own solution. *)
LEMMA FollowExtended ==
  ASSUME NEW q, NEW r, NEW b, NEW s, NEW item, Extended(q, r, item), item.kind # "Reset",
         NEW n, MayFollow(q, b, s, n, Len(q) + 1)
  PROVE  MayFollow(r, b, s, n, Len(r) + 1)
  <1>1. NoReset(r, 0, Len(r) + 1) <=> NoReset(q, 0, Len(q) + 1)
    BY ResetsExtended DEF Extended
  <1>2. \A j \in 1..Len(q) : /\ r[j] = q[j]
                             /\ NoReset(r, j, Len(r) + 1) <=> NoReset(q, j, Len(q) + 1)
    BY ResetsExtended DEF Extended
  <1>3. NoReset(r, Len(q) + 1, Len(r) + 1)
    BY ResetsExtended
  <1>4. \A j \in 1..(Len(r) + 1 - 1) : j \in 1..(Len(q) + 1 - 1) \/ j = Len(q) + 1
    BY DEF Extended
  <1>5. \A j \in 1..(Len(q) + 1 - 1) : j \in 1..Len(q)
    BY DEF Extended
  <1> QED
    BY <1>1, <1>2, <1>3, <1>4, <1>5 DEF MayFollow

LEMMA FollowPopped ==
  ASSUME NEW q, NEW r, Popped(q, r), NEW s \in Seq(Submissions), NEW s2, NEW b \in Nat, NEW b2,
         q[1] \in Item,
         \/ IsSub(q[1]) /\ q[1].n \in Missions /\ Sent(b, b2, s, s2, q[1])
         \/ q[1].kind = "Reset" /\ s2 = s /\ b2 = 0,
         NEW n, NEW i \in 1..Len(q), MayFollow(q, b, s, n, i + 1)
  PROVE  MayFollow(r, b2, s2, n, i)
  <1>1. /\ NoReset(q, 0, i + 1) <=> (q[1].kind # "Reset" /\ NoReset(r, 0, i))
        /\ \A j \in Nat : NoReset(r, j, i) <=> NoReset(q, j + 1, i + 1)
    BY ResetsPopped
  <1>2. \A j \in 1..(i - 1) : (IsSub(r[j]) /\ r[j].n = n) => NoReset(r, j, i)
    <2> SUFFICES ASSUME NEW j \in 1..(i - 1), IsSub(r[j]), r[j].n = n
                 PROVE  NoReset(r, j, i)
      OBVIOUS
    <2>1. j \in Nat /\ j + 1 \in 1..((i + 1) - 1) /\ r[j] = q[j + 1]
      BY DEF Popped
    <2> QED
      BY <1>1, <2>1 DEF MayFollow
  <1>3. CASE q[1].kind = "Reset" /\ s2 = s /\ b2 = 0
    <2>1. NoneOf(s, n)
      BY <1>1, <1>3 DEF MayFollow
    <2>2. AtMost(s2, n, b2) /\ NoneOf(s2, n)
      BY <1>3, <2>1 DEF NoneOf, AtMost
    <2> QED
      BY <1>2, <2>2 DEF MayFollow
  <1>4. CASE IsSub(q[1]) /\ q[1].n \in Missions /\ Sent(b, b2, s, s2, q[1])
    <2> DEFINE head == q[1]
    <2>1. head.difficulty \in Nat /\ b2 \in Nat /\ b <= b2 /\ head.difficulty <= b2
      <3>1. head \in Submissions
        BY <1>4 DEF IsSub, Item, Reset, Finish
      <3>2. head.difficulty \in Nat
        BY <3>1 DEF Submissions
      <3> QED
        BY <1>4, <3>2 DEF Sent
    <2>2. head.kind # "Reset"
      BY <1>4 DEF IsSub
    <2>3. head \in Submissions
      BY <1>4 DEF IsSub, Item, Reset, Finish
    <2>4. s2 = s \/ (DOMAIN s2 = 1..(Len(s) + 1) /\ DOMAIN s = 1..Len(s) /\ Len(s) \in Nat
                     /\ (\A k \in 1..Len(s) : s2[k] = s[k]) /\ s2[Len(s) + 1] = head)
      BY <1>4, <2>3 DEF Sent
    <2> HIDE DEF head
    <2>5. \A k \in DOMAIN s : s[k].difficulty \in Nat
      <3>1. \A k \in DOMAIN s : s[k] \in Submissions
        OBVIOUS
      <3> QED
        BY <3>1 DEF Submissions
    <2>6. NoReset(r, 0, i) => AtMost(s2, n, b2)
      <3> SUFFICES ASSUME NoReset(r, 0, i)
                   PROVE  AtMost(s2, n, b2)
        OBVIOUS
      <3>1. AtMost(s, n, b)
        BY <1>1, <2>2 DEF MayFollow, head
      <3>2. \A k \in DOMAIN s : s[k].n = n => s[k].difficulty <= b2
        BY <2>1, <2>5, <3>1 DEF AtMost
      <3>3. CASE s2 = s
        BY <3>2, <3>3 DEF AtMost
      <3>4. CASE s2 # s
        <4>1. \A k \in DOMAIN s2 : s2[k] = head \/ (k \in DOMAIN s /\ s2[k] = s[k])
          BY <2>4, <3>4
        <4> QED
          BY <2>1, <3>2, <4>1 DEF AtMost
      <3> QED
        BY <3>3, <3>4
    <2>7. ~NoReset(r, 0, i) => NoneOf(s2, n)
      <3> SUFFICES ASSUME ~NoReset(r, 0, i)
                   PROVE  NoneOf(s2, n)
        OBVIOUS
      <3>1. NoneOf(s, n)
        BY <1>1 DEF MayFollow
      <3>2. head.n # n
        <4>1. 1 \in 1..((i + 1) - 1) /\ 0 \in Nat
          BY DEF Popped
        <4>2. ~NoReset(q, 0 + 1, i + 1)
          BY <1>1, <4>1
        <4> QED
          BY <1>4, <4>1, <4>2 DEF MayFollow, head
      <3>3. CASE s2 = s
        BY <3>1, <3>3
      <3>4. CASE s2 # s
        <4>1. \A k \in DOMAIN s2 : s2[k] = head \/ (k \in DOMAIN s /\ s2[k] = s[k])
          BY <2>4, <3>4
        <4> QED
          BY <3>1, <3>2, <4>1 DEF NoneOf
      <3> QED
        BY <3>3, <3>4
    <2> QED
      BY <1>2, <2>6, <2>7 DEF MayFollow
  <1> QED
    BY <1>3, <1>4

LEMMA OrderPopped ==
  ASSUME NEW q, NEW r, Popped(q, r), NEW s \in Seq(Submissions), NEW s2, NEW b \in Nat, NEW b2,
         q[1] \in Item, InOrder(q, b, s),
         \/ IsSub(q[1]) /\ q[1].n \in Missions /\ Sent(b, b2, s, s2, q[1])
         \/ q[1].kind = "Reset" /\ s2 = s /\ b2 = 0
  PROVE  InOrder(r, b2, s2)
  <1>1. ASSUME NEW i \in DOMAIN r, IsSub(r[i])
        PROVE  MayFollow(r, b2, s2, r[i].n, i)
    <2>1. i + 1 \in DOMAIN q /\ r[i] = q[i + 1] /\ i \in 1..Len(q)
      BY DEF Popped
    <2>2. MayFollow(q, b, s, r[i].n, i + 1)
      BY <1>1, <2>1 DEF InOrder
    <2> QED
      BY <2>1, <2>2, FollowPopped
  <1>2. Increasing(s2)
    <2>1. CASE s2 = s
      BY <2>1 DEF InOrder
    <2>2. CASE s2 # s
      <3> DEFINE head == q[1]
      <3>1. head \in Submissions /\ s2 = Append(s, head) /\ head.difficulty > b /\ IsSub(head)
        <4>1. IsSub(head) /\ Sent(b, b2, s, s2, head)
          BY <2>2
        <4>2. head \in Submissions
          BY <4>1 DEF IsSub, Item, Reset, Finish
        <4> QED
          BY <2>2, <4>1, <4>2 DEF Sent
      <3>2. /\ DOMAIN s2 = 1..(Len(s) + 1) /\ DOMAIN s = 1..Len(s) /\ Len(s) \in Nat
            /\ (\A k \in 1..Len(s) : s2[k] = s[k]) /\ s2[Len(s) + 1] = head
        BY <3>1
      <3>3. 1 \in DOMAIN q /\ NoReset(q, 0, 1)
        BY DEF Popped, NoReset
      <3>4. AtMost(s, head.n, b)
        BY <3>1, <3>3 DEF InOrder, MayFollow
      <3>5. \A k \in DOMAIN s : s[k].difficulty \in Nat
        <4>1. \A k \in DOMAIN s : s[k] \in Submissions
          OBVIOUS
        <4> QED
          BY <4>1 DEF Submissions
      <3>6. head.difficulty \in Nat
        BY <3>1 DEF Submissions
      <3> HIDE DEF head
      <3>7. \A k \in DOMAIN s : s[k].n = head.n => s[k].difficulty < head.difficulty
        BY <3>1, <3>4, <3>5, <3>6 DEF AtMost
      <3>8. Increasing(s)
        BY DEF InOrder
      <3> SUFFICES ASSUME NEW i \in DOMAIN s2, NEW j \in DOMAIN s2, i < j, s2[i].n = s2[j].n
                   PROVE  s2[i].difficulty < s2[j].difficulty
        BY DEF Increasing
      <3>9. i \in DOMAIN s /\ s2[i] = s[i]
        BY <3>2
      <3>10. (j \in DOMAIN s /\ s2[j] = s[j]) \/ s2[j] = head
        BY <3>2
      <3> QED
        BY <3>7, <3>8, <3>9, <3>10 DEF Increasing
    <2> QED
      BY <2>1, <2>2
  <1> QED
    BY <1>1, <1>2 DEF InOrder

-----------------------------------------------------------------------------
(* What a connection that lasts sends: the best of what it has queued.     *)

(* What Process does while the socket is open. *)
SentOpen(b, b2, s, s2, head) ==
  IF head.difficulty > b THEN b2 = head.difficulty /\ s2 = Append(s, head) ELSE b2 = b /\ s2 = s

LEMMA BestExtended ==
  ASSUME NEW q, NEW r, NEW b, NEW s, NEW item, Extended(q, r, item), BestIsOf(q, b, s),
         IsSub(item) => TipIs(q, b, s, item.n)
  PROVE  BestIsOf(r, b, s)
  <1> SUFFICES ASSUME NEW i \in DOMAIN r, IsSub(r[i])
               PROVE  /\ (NoReset(r, 0, i) /\ b > 0) => Has(s, r[i].n, b)
                      /\ \A j \in 1..(i - 1) :
                           (IsSub(r[j]) /\ NoReset(r, j, i)) => r[j].n = r[i].n
    BY DEF BestIsOf
  <1>1. i \in 1..(Len(q) + 1) /\ Len(q) \in Nat
    BY DEF Extended
  <1>2. NoReset(r, 0, i) <=> NoReset(q, 0, i)
    BY <1>1, ResetsExtended
  <1>3. \A j \in 1..(i - 1) : /\ j \in DOMAIN q /\ r[j] = q[j]
                              /\ NoReset(r, j, i) <=> NoReset(q, j, i)
    BY <1>1, ResetsExtended DEF Extended
  <1>4. CASE i \in 1..Len(q)
    <2>1. r[i] = q[i] /\ i \in DOMAIN q
      BY <1>4 DEF Extended
    <2> QED
      BY <1>2, <1>3, <2>1 DEF BestIsOf
  <1>5. CASE i = Len(q) + 1
    <2>1. r[i] = item
      BY <1>5 DEF Extended
    <2> QED
      BY <1>2, <1>3, <1>5, <2>1 DEF TipIs
  <1> QED
    BY <1>1, <1>4, <1>5

LEMMA TipExtended ==
  ASSUME NEW q, NEW r, NEW b, NEW s, NEW item, Extended(q, r, item), IsSub(item),
         TipIs(q, b, s, item.n)
  PROVE  TipIs(r, b, s, item.n)
  <1>1. /\ NoReset(r, 0, Len(r) + 1) <=> NoReset(q, 0, Len(q) + 1)
        /\ \A i \in 1..Len(q) : NoReset(r, i, Len(r) + 1) <=> NoReset(q, i, Len(q) + 1)
    BY ResetsExtended DEF Extended, IsSub
  <1>2. ASSUME NEW i \in DOMAIN r, IsSub(r[i]), NoReset(r, i, Len(r) + 1)
        PROVE  r[i].n = item.n
    <2>1. CASE i \in 1..Len(q)
      BY <1>1, <1>2, <2>1 DEF TipIs, Extended
    <2>2. CASE i \notin 1..Len(q)
      BY <2>2 DEF Extended
    <2> QED
      BY <2>1, <2>2
  <1> QED
    BY <1>1, <1>2 DEF TipIs

LEMMA TipReset ==
  ASSUME NEW q, NEW r, NEW b, NEW item, Extended(q, r, item), item.kind = "Reset"
  PROVE  NoTip(r, b)
  <1>1. \A i \in Nat : i <= Len(q) => ~NoReset(r, i, Len(r) + 1)
    BY ResetsExtended
  <1>2. ASSUME NEW i \in DOMAIN r, IsSub(r[i])
        PROVE  ~NoReset(r, i, Len(r) + 1)
    <2>1. i # Len(q) + 1
      BY <1>2 DEF Extended, IsSub
    <2>2. i \in Nat /\ i <= Len(q)
      BY <2>1 DEF Extended
    <2> QED
      BY <1>1, <2>2
  <1>3. ~NoReset(r, 0, Len(r) + 1)
    BY <1>1 DEF Extended
  <1> QED
    BY <1>2, <1>3 DEF NoTip

LEMMA NoTipIsAny ==
  ASSUME NEW q, NEW b \in Nat, NEW s, NEW n, NoTip(q, b)
  PROVE  TipIs(q, b, s, n)
  BY DEF NoTip, TipIs

(* The two ways in which a queue loses its head. *)
OpenStep(q, b, b2, s, s2) ==
  \/ IsSub(q[1]) /\ SentOpen(b, b2, s, s2, q[1])
  \/ q[1].kind = "Reset" /\ s2 = s /\ b2 = 0

LEMMA HasSent ==
  ASSUME NEW s \in Seq(Submissions), NEW b, NEW b2, NEW s2, NEW head \in Submissions,
         SentOpen(b, b2, s, s2, head)
  PROVE  /\ \A n, v : Has(s, n, v) => Has(s2, n, v)
         /\ \A k \in DOMAIN s : k \in DOMAIN s2 /\ s2[k] = s[k]
         /\ \A k \in DOMAIN s2 : s2[k] = head \/ (k \in DOMAIN s /\ s2[k] = s[k])
         /\ head.difficulty > b => Has(s2, head.n, b2)
  <1>1. CASE ~(head.difficulty > b)
    BY <1>1 DEF SentOpen
  <1>2. CASE head.difficulty > b
    <2>1. b2 = head.difficulty /\ s2 = Append(s, head)
      BY <1>2 DEF SentOpen
    <2>2. /\ DOMAIN s2 = 1..(Len(s) + 1) /\ DOMAIN s = 1..Len(s) /\ Len(s) \in Nat
          /\ (\A k \in 1..Len(s) : s2[k] = s[k]) /\ s2[Len(s) + 1] = head
      BY <2>1
    <2>3. \A k \in DOMAIN s : k \in DOMAIN s2 /\ s2[k] = s[k]
      BY <2>2
    <2>4. \A k \in DOMAIN s2 : s2[k] = head \/ (k \in DOMAIN s /\ s2[k] = s[k])
      BY <2>2
    <2>5. Len(s) + 1 \in DOMAIN s2 /\ s2[Len(s) + 1] = head
      BY <2>2
    <2>6. \A n, v : Has(s, n, v) => Has(s2, n, v)
      BY <2>3 DEF Has
    <2>7. Has(s2, head.n, b2)
      BY <2>1, <2>5 DEF Has
    <2> QED
      BY <2>3, <2>4, <2>6, <2>7
  <1> QED
    BY <1>1, <1>2

LEMMA BestPopped ==
  ASSUME NEW q, NEW r, Popped(q, r), NEW s \in Seq(Submissions), NEW s2, NEW b \in Nat, NEW b2,
         IsSub(q[1]) => q[1] \in Submissions, OpenStep(q, b, b2, s, s2), BestIsOf(q, b, s)
  PROVE  /\ BestIsOf(r, b2, s2)
         /\ \A n : TipIs(q, b, s, n) => TipIs(r, b2, s2, n)
         /\ NoTip(q, b) => NoTip(r, b2)
  <1>1. /\ Len(q) \in Nat \ {0} /\ DOMAIN q = 1..Len(q) /\ Len(r) + 1 = Len(q)
        /\ \A i \in DOMAIN r : i \in 1..Len(q) /\ i + 1 \in DOMAIN q /\ r[i] = q[i + 1]
        /\ 1 \in DOMAIN q /\ NoReset(q, 0, 1)
    BY DEF Popped, NoReset
  <1>2. \A i \in Nat, j \in 1..Len(q) :
          /\ NoReset(r, i, j) <=> NoReset(q, i + 1, j + 1)
          /\ NoReset(q, 0, j + 1) <=> (q[1].kind # "Reset" /\ NoReset(r, 0, j))
    BY ResetsPopped
  <1>3. \A j \in 1..Len(q) : NoReset(r, 0, j) <=> NoReset(q, 1, j + 1)
    <2>1. 0 \in Nat /\ 0 + 1 = 1
      OBVIOUS
    <2> QED
      BY <1>2, <2>1
  (* What comes before a Reset is of the mission of the head. *)
  <1>4. ASSUME IsSub(q[1]), NEW n, q[1].n = n, b2 > 0,
               b > 0 => Has(s, n, b)
        PROVE  Has(s2, n, b2)
    <2>1. SentOpen(b, b2, s, s2, q[1]) /\ q[1] \in Submissions
      BY <1>4 DEF OpenStep, IsSub
    <2>2. CASE q[1].difficulty > b
      BY <1>4, <2>1, <2>2, HasSent
    <2>3. CASE ~(q[1].difficulty > b)
      BY <1>4, <2>1, <2>3 DEF SentOpen
    <2> QED
      BY <2>2, <2>3
  <1>5. b > 0 => (IsSub(q[1]) => Has(s, q[1].n, b))
    BY <1>1 DEF BestIsOf
  <1>6. ASSUME IsSub(q[1]), b2 > 0
        PROVE  Has(s2, q[1].n, b2)
    BY <1>4, <1>5, <1>6
  <1>7. ~IsSub(q[1]) => b2 = 0
    BY DEF OpenStep
  <1>8. BestIsOf(r, b2, s2)
    <2> SUFFICES ASSUME NEW i \in DOMAIN r, IsSub(r[i])
                 PROVE  /\ (NoReset(r, 0, i) /\ b2 > 0) => Has(s2, r[i].n, b2)
                        /\ \A j \in 1..(i - 1) :
                             (IsSub(r[j]) /\ NoReset(r, j, i)) => r[j].n = r[i].n
      BY DEF BestIsOf
    <2>1. i \in 1..Len(q) /\ i + 1 \in DOMAIN q /\ r[i] = q[i + 1]
      BY <1>1
    <2>2. ASSUME NoReset(r, 0, i), b2 > 0
          PROVE  Has(s2, r[i].n, b2)
      <3>1. IsSub(q[1])
        BY <1>7, <2>2
      <3>2. 1 \in 1..((i + 1) - 1) /\ NoReset(q, 1, i + 1)
        BY <1>3, <2>1, <2>2
      <3>3. q[1].n = r[i].n
        BY <2>1, <3>1, <3>2 DEF BestIsOf
      <3> QED
        BY <1>6, <2>2, <3>1, <3>3
    <2>3. ASSUME NEW j \in 1..(i - 1), IsSub(r[j]), NoReset(r, j, i)
          PROVE  r[j].n = r[i].n
      <3>1. j \in Nat /\ j + 1 \in 1..((i + 1) - 1) /\ r[j] = q[j + 1]
        BY <2>1 DEF Popped
      <3>2. NoReset(q, j + 1, i + 1)
        BY <1>2, <2>1, <2>3, <3>1
      <3> QED
        BY <2>1, <2>3, <3>1, <3>2 DEF BestIsOf
    <2> QED
      BY <2>2, <2>3
  <1>9. /\ \A i \in DOMAIN r : NoReset(r, i, Len(r) + 1) <=> NoReset(q, i + 1, Len(q) + 1)
        /\ NoReset(r, 0, Len(r) + 1) <=> NoReset(q, 1, Len(q) + 1)
        /\ NoReset(q, 0, Len(q) + 1) <=> (q[1].kind # "Reset" /\ NoReset(r, 0, Len(r) + 1))
    <2>1. Len(r) + 1 \in 1..Len(q) /\ \A i \in DOMAIN r : i \in Nat
      BY <1>1
    <2> QED
      BY <1>1, <1>2, <1>3, <2>1
  <1>10. ASSUME NEW n, TipIs(q, b, s, n)
         PROVE  TipIs(r, b2, s2, n)
    <2>1. \A i \in DOMAIN r : (IsSub(r[i]) /\ NoReset(r, i, Len(r) + 1)) => r[i].n = n
      BY <1>1, <1>9, <1>10 DEF TipIs
    <2>2. ASSUME NoReset(r, 0, Len(r) + 1), b2 > 0
          PROVE  Has(s2, n, b2)
      <3>1. IsSub(q[1])
        BY <1>7, <2>2
      <3>2. q[1].n = n
        BY <1>1, <1>9, <1>10, <2>2, <3>1 DEF TipIs
      <3> QED
        BY <1>6, <2>2, <3>1, <3>2
    <2> QED
      BY <2>1, <2>2 DEF TipIs
  <1>11. ASSUME NoTip(q, b)
         PROVE  NoTip(r, b2)
    <2>1. \A i \in DOMAIN r : IsSub(r[i]) => ~NoReset(r, i, Len(r) + 1)
      BY <1>1, <1>9, <1>11 DEF NoTip
    <2>2. NoReset(r, 0, Len(r) + 1) => b2 = 0
      <3>1. NoReset(r, 0, Len(r) + 1) => ~IsSub(q[1])
        BY <1>1, <1>9, <1>11 DEF NoTip
      <3> QED
        BY <1>7, <3>1
    <2> QED
      BY <2>1, <2>2 DEF NoTip
  <1> QED
    BY <1>8, <1>10, <1>11

LEMMA CoveredExtended ==
  ASSUME NEW q, NEW r, NEW item, Extended(q, r, item), NEW s
  PROVE  /\ \A n, v : Covered(q, s, n, v) => Covered(r, s, n, v)
         /\ \A n, v : (IsSub(item) /\ item.n = n /\ item.difficulty >= v) => Covered(r, s, n, v)
         /\ \A n, v : /\ Bounded(q, s, n, v)
                      /\ (IsSub(item) /\ item.n = n) => item.difficulty <= v
                      => Bounded(r, s, n, v)
  <1>1. /\ \A k \in DOMAIN q : k \in DOMAIN r /\ r[k] = q[k]
        /\ Len(q) + 1 \in DOMAIN r /\ r[Len(q) + 1] = item
        /\ \A k \in DOMAIN r : r[k] = item \/ (k \in DOMAIN q /\ r[k] = q[k])
    BY DEF Extended
  <1>2. \A n, v : Covered(q, s, n, v) => Covered(r, s, n, v)
    BY <1>1 DEF Covered
  <1>3. \A n, v : (IsSub(item) /\ item.n = n /\ item.difficulty >= v) => Covered(r, s, n, v)
    BY <1>1 DEF Covered
  <1>4. ASSUME NEW n, NEW v, Bounded(q, s, n, v), (IsSub(item) /\ item.n = n) => item.difficulty <= v
        PROVE  Bounded(r, s, n, v)
    BY <1>1, <1>4 DEF Bounded
  <1> QED
    BY <1>2, <1>3, <1>4

LEMMA CoveredPopped ==
  ASSUME NEW q, NEW r, Popped(q, r), NEW s \in Seq(Submissions), NEW s2, NEW b \in Nat, NEW b2,
         IsSub(q[1]) => q[1] \in Submissions, OpenStep(q, b, b2, s, s2), BestIsOf(q, b, s),
         NEW n, NEW v \in Nat
  PROVE  /\ Covered(q, s, n, v) => Covered(r, s2, n, v)
         /\ Bounded(q, s, n, v) => Bounded(r, s2, n, v)
  <1>1. /\ Len(q) \in Nat \ {0} /\ DOMAIN q = 1..Len(q)
        /\ 1 \in DOMAIN q /\ NoReset(q, 0, 1)
        /\ \A k \in DOMAIN q : k = 1 \/ (k - 1 \in DOMAIN r /\ r[k - 1] = q[k])
        /\ \A k \in DOMAIN r : k + 1 \in DOMAIN q /\ r[k] = q[k + 1]
    BY DEF Popped, NoReset
  <1>2. /\ \A k \in DOMAIN s : k \in DOMAIN s2 /\ s2[k] = s[k]
        /\ \A k \in DOMAIN s2 : (s2[k] = q[1] /\ IsSub(q[1])) \/ (k \in DOMAIN s /\ s2[k] = s[k])
        /\ (IsSub(q[1]) /\ q[1].difficulty > b) => Has(s2, q[1].n, q[1].difficulty)
    <2>1. CASE IsSub(q[1]) /\ SentOpen(b, b2, s, s2, q[1])
      <3>1. q[1].difficulty > b => b2 = q[1].difficulty
        BY <2>1 DEF SentOpen
      <3> QED
        BY <2>1, <3>1, HasSent
    <2>2. CASE q[1].kind = "Reset" /\ s2 = s
      BY <2>2 DEF IsSub
    <2> QED
      BY <2>1, <2>2 DEF OpenStep
  <1>3. ASSUME Bounded(q, s, n, v)
        PROVE  Bounded(r, s2, n, v)
    <2>1. AtMost(s2, n, v)
      BY <1>1, <1>2, <1>3 DEF Bounded, AtMost
    <2>2. \A k \in DOMAIN r : (IsSub(r[k]) /\ r[k].n = n) => r[k].difficulty <= v
      BY <1>1, <1>3 DEF Bounded
    <2> QED
      BY <2>1, <2>2 DEF Bounded
  <1>4. ASSUME Covered(q, s, n, v), v # 0
        PROVE  Covered(r, s2, n, v)
    <2>1. CASE \E k \in DOMAIN s : s[k].n = n /\ s[k].difficulty >= v
      BY <1>2, <2>1 DEF Covered
    <2>2. ASSUME NEW k \in DOMAIN q, IsSub(q[k]), q[k].n = n, q[k].difficulty >= v
          PROVE  Covered(r, s2, n, v)
      <3>1. CASE k # 1
        BY <1>1, <2>2, <3>1 DEF Covered
      <3>2. CASE k = 1 /\ q[1].difficulty > b
        BY <1>2, <2>2, <3>2 DEF Covered, Has
      <3>3. CASE k = 1 /\ ~(q[1].difficulty > b)
        <4>1. q[1].difficulty \in Nat
          BY <2>2, <3>3 DEF Submissions
        <4>2. b > 0 /\ b >= v
          BY <1>4, <2>2, <3>3, <4>1
        <4>3. Has(s, n, b)
          BY <1>1, <2>2, <3>3, <4>2 DEF BestIsOf
        <4> QED
          BY <1>2, <4>2, <4>3 DEF Has, Covered
      <3> QED
        BY <3>1, <3>2, <3>3
    <2> QED
      BY <1>4, <2>1, <2>2 DEF Covered
  <1>5. v = 0 => Covered(r, s2, n, v)
    BY DEF Covered
  <1> QED
    BY <1>3, <1>4, <1>5

-----------------------------------------------------------------------------
(* The inductive invariant.                                                *)

MissionPcs == {"none", "offered", "mining", "dropped", "ready", "done"}
ConnType == [open: BOOLEAN, receiver: {"off", "on", "done"}, messages: Seq(Missions), ready: Nat]
ProcessorType == [pc: {"off", "recv", "done"}, best: Nat, queue: Seq(Item)]
MissionType == [pc: MissionPcs, c: 0..MaxConnections, best: Nat]

Types ==
  /\ running \in BOOLEAN
  /\ main \in [pc: {"connect", "messages", "exited"}, c: 0..MaxConnections]
  /\ main.pc = "messages" => main.c \in Conns
  /\ conn \in [Conns -> ConnType]
  /\ processor \in [Conns -> ProcessorType]
  /\ mission \in [Missions -> MissionType]
  /\ thread \in [Missions -> [Workers -> Nat]]
  /\ sent \in [Conns -> Seq(Submissions)]

(* The connections that have not been opened yet. *)
FutureIsNew ==
  /\ \A c \in Conns : c > main.c =>
       conn[c] = NoConn /\ processor[c] = NoProcessor /\ sent[c] = <<>>
  /\ \A n \in Missions : mission[n].pc # "none" => mission[n].c \in 1..main.c
  /\ \A c \in Conns : c <= main.c => processor[c].pc # "off"

Active(n) == mission[n].pc \in {"offered", "mining", "ready"}

(* A Ready, a mission on its way and a mission that is worked on are one. *)
OneAtATime ==
  /\ \A c \in Conns : conn[c].ready <= 1
  /\ \A n \in Missions : Active(n) => conn[mission[n].c].ready = 0
  /\ \A k, n \in Missions : (Active(k) /\ Active(n) /\ mission[k].c = mission[n].c) => k = n
  /\ \A c \in Conns : conn[c].messages # <<>> =>
       /\ Len(conn[c].messages) = 1
       /\ mission[conn[c].messages[1]].pc = "offered" /\ mission[conn[c].messages[1]].c = c

Q(c) == processor[c].queue
B(c) == processor[c].best

Begun(n) == mission[n].pc \in {"mining", "ready", "done"}

(* What is queued or sent is a solution of a mission of this connection. *)
OwnOnly ==
  \A c \in Conns :
    /\ \A k \in DOMAIN sent[c] : Begun(sent[c][k].n) /\ mission[sent[c][k].n].c = c
    /\ \A k \in DOMAIN Q(c) :
         IsSub(Q(c)[k]) => (Begun(Q(c)[k].n) /\ mission[Q(c)[k].n].c = c)

Mines(n, c) == mission[n].pc = "mining" /\ mission[n].c = c

Ordered ==
  \A c \in Conns :
    /\ Increasing(sent[c])
    /\ processor[c].pc # "done" =>
         /\ InOrder(Q(c), B(c), sent[c])
         /\ \A n \in Missions : Mines(n, c) => MayFollow(Q(c), B(c), sent[c], n, Len(Q(c)) + 1)

ClosedEnds == \A c \in Conns : Closed(c) => Ended(c)

BestKept ==
  \A c \in Conns : ~Ended(c) =>
    /\ BestIsOf(Q(c), B(c), sent[c])
    /\ \A n \in Missions : Mines(n, c) => TipIs(Q(c), B(c), sent[c], n)
    /\ (\A n \in Missions : ~Mines(n, c)) => NoTip(Q(c), B(c))

ThreadsIdle == \A n \in Missions : mission[n].pc # "mining" => thread[n] = NoThreads

(* What a mission has found is on its way, or has been sent. *)
Kept(n) ==
  LET c == mission[n].c
  IN  /\ mission[n].pc = "mining" =>
           /\ \A t \in Workers : Covered(Q(c), sent[c], n, thread[n][t])
           /\ \A v \in Nat : (\A t \in Workers : thread[n][t] <= v) => Bounded(Q(c), sent[c], n, v)
      /\ mission[n].pc # "mining" =>
           /\ Covered(Q(c), sent[c], n, mission[n].best)
           /\ Bounded(Q(c), sent[c], n, mission[n].best)

AllKept == \A n \in Missions : (Begun(n) /\ ~Ended(mission[n].c)) => Kept(n)

RoundInv == Types /\ FutureIsNew /\ OneAtATime
PipeInv == OwnOnly /\ Ordered /\ ClosedEnds /\ BestKept /\ ThreadsIdle /\ AllKept

-----------------------------------------------------------------------------
(* Sending to the processor.                                               *)

LEMMA ItemsHaveType ==
  /\ Finish \in Item /\ Reset \in Item /\ Finish.kind = "Finish" /\ Reset.kind = "Reset"
  /\ ~IsSub(Finish) /\ ~IsSub(Reset)
  /\ \A n \in Missions, d \in Nat :
       /\ Submission(n, d) \in Item /\ Submission(n, d) \in Submissions /\ IsSub(Submission(n, d))
       /\ Submission(n, d).n = n /\ Submission(n, d).difficulty = d
  BY BoundsAssumption DEF Finish, Reset, Submission, Item, Submissions, Missions, IsSub

LEMMA SendsIs ==
  ASSUME Types, NEW c \in Conns, NEW items \in Seq(Item), Sends(c, items)
  PROVE  /\ processor' \in [Conns -> ProcessorType]
         /\ \A d \in Conns : /\ processor'[d].pc = processor[d].pc
                             /\ processor'[d].best = processor[d].best
                             /\ d # c => processor'[d] = processor[d]
         /\ Closed(c) => processor' = processor
         /\ ~Closed(c) => processor'[c].queue = processor[c].queue \o items
  <1>1. processor \in [Conns -> ProcessorType] /\ processor[c] \in ProcessorType
    BY DEF Types
  <1>2. CASE Closed(c)
    BY <1>1, <1>2 DEF Sends
  <1>3. CASE ~Closed(c)
    <2>1. processor[c].queue \in Seq(Item)
      BY <1>1 DEF ProcessorType
    <2>2. processor[c].queue \o items \in Seq(Item)
      BY <2>1
    <2>3. processor' = [processor EXCEPT ![c] = [processor[c] EXCEPT !.queue = processor[c].queue \o items]]
      BY <1>1, <1>3 DEF Sends, ProcessorType
    <2> DEFINE p == [processor[c] EXCEPT !.queue = processor[c].queue \o items]
    <2>4. /\ p \in ProcessorType /\ p.pc = processor[c].pc /\ p.best = processor[c].best
          /\ p.queue = processor[c].queue \o items
      BY <1>1, <2>2 DEF ProcessorType
    <2> HIDE DEF p
    <2>5. processor' = [processor EXCEPT ![c] = p]
      BY <2>3 DEF p
    <2> QED
      BY <1>1, <1>3, <2>4, <2>5
  <1> QED
    BY <1>2, <1>3

LEMMA FinishIsSent ==
  ASSUME Types, NEW c \in Conns, Sends(c, <<Finish>>)
  PROVE  /\ processor' \in [Conns -> ProcessorType]
         /\ \A d \in Conns : /\ processor'[d].pc = processor[d].pc
                             /\ processor'[d].best = processor[d].best
                             /\ d # c => processor'[d] = processor[d]
         /\ processor' = processor \/ Extended(Q(c), Q(c)', Finish)
  <1>1. <<Finish>> \in Seq(Item)
    BY ItemsHaveType
  <1>2. processor[c].queue \in Seq(Item)
    BY DEF Types, ProcessorType
  <1>3. processor[c].queue \o <<Finish>> = Append(processor[c].queue, Finish)
    BY <1>2, ItemsHaveType, AppendIsConcat
  <1>4. Extended(processor[c].queue, Append(processor[c].queue, Finish), Finish)
    BY <1>2, ItemsHaveType, AppendExtends
  <1> QED
    BY <1>1, <1>3, <1>4, SendsIs DEF Q

-----------------------------------------------------------------------------
(* Connections, their missions and their Readys.                           *)

LEMMA RoundInit == Init => RoundInv
  <1> SUFFICES ASSUME Init
               PROVE  RoundInv
    OBVIOUS
  <1>1. NoConn \in ConnType /\ NoConn.messages = <<>> /\ NoConn.ready = 0
    BY DEF NoConn, ConnType
  <1>2. NoProcessor \in ProcessorType
    BY DEF NoProcessor, ProcessorType
  <1>3. NoMission \in MissionType /\ NoMission.pc = "none"
    BY BoundsAssumption DEF NoMission, MissionType, MissionPcs
  <1>4. NoThreads \in [Workers -> Nat]
    BY DEF NoThreads
  <1>5. Types
    BY <1>1, <1>2, <1>3, <1>4, BoundsAssumption DEF Init, Types
  <1>6. FutureIsNew
    BY <1>3 DEF Init, FutureIsNew, Conns
  <1>7. OneAtATime
    BY <1>1, <1>3 DEF Init, OneAtATime, Active
  <1> QED
    BY <1>5, <1>6, <1>7 DEF RoundInv

LEMMA ConnectRound ==
  ASSUME RoundInv, Connect
  PROVE  RoundInv'
  <1> DEFINE c == main.c + 1
             new == [NoConn EXCEPT !.open = TRUE, !.receiver = "on", !.ready = 1]
  <1>1. c \in Conns /\ main.c \in 0..MaxConnections /\ c > main.c
    BY BoundsAssumption DEF Connect, RoundInv, Types, Conns
  <1>2. new \in ConnType /\ new.ready = 1 /\ new.messages = <<>>
    <2>1. <<>> \in Seq(Missions)
      OBVIOUS
    <2>2. NoConn \in ConnType /\ NoConn.messages = <<>>
      BY <2>1 DEF NoConn, ConnType
    <2>3. new.ready = 1 /\ new.messages = <<>>
      BY <2>2 DEF ConnType
    <2> QED
      BY <2>2, <2>3 DEF ConnType
  <1>3. processor[c] = NoProcessor
    BY <1>1 DEF RoundInv, FutureIsNew
  <1> DEFINE p == [NoProcessor EXCEPT !.pc = "recv"]
  <1>4. p \in ProcessorType /\ p.pc = "recv"
    <2>1. <<>> \in Seq(Item)
      OBVIOUS
    <2>2. p = [pc |-> "recv", best |-> 0, queue |-> <<>>]
      BY DEF NoProcessor
    <2> HIDE DEF p
    <2> QED
      BY <2>1, <2>2 DEF ProcessorType
  <1>5. /\ main' = [pc |-> "messages", c |-> c]
        /\ conn' = [conn EXCEPT ![c] = new]
        /\ processor' = [processor EXCEPT ![c] = p]
        /\ UNCHANGED <<running, mission, thread, sent>>
    BY <1>3 DEF Connect
  <1> HIDE DEF new, p
  <1>6. Types'
    <2>1. Types
      BY DEF RoundInv
    <2>2. c \in 0..MaxConnections
      BY <1>1, BoundsAssumption DEF Conns
    <2>a. c \in Conns
      BY <1>1
    <2> HIDE DEF c
    <2>3. main' \in [pc: {"connect", "messages", "exited"}, c: 0..MaxConnections] /\ main'.c = c
      BY <1>5, <2>2
    <2>4. conn' \in [Conns -> ConnType]
      BY <1>2, <1>5, <2>1 DEF Types
    <2>5. processor' \in [Conns -> ProcessorType]
      BY <1>4, <1>5, <2>1 DEF Types
    <2> QED
      BY <1>5, <2>a, <2>1, <2>3, <2>4, <2>5 DEF Types
  <1> HIDE DEF c
  <1>7. main'.c = c
    BY <1>5
  <1>8. \A d \in Conns : d # c => conn'[d] = conn[d] /\ processor'[d] = processor[d]
    BY <1>5 DEF RoundInv, Types
  <1>9. conn'[c] = new /\ processor'[c] = p
    BY <1>1, <1>5 DEF RoundInv, Types
  <1>10. FutureIsNew'
    <2>1. \A d \in Conns : d > c => (conn[d] = NoConn /\ processor[d] = NoProcessor /\ sent[d] = <<>>)
      BY <1>1 DEF RoundInv, FutureIsNew, Conns, c
    <2>2. \A n \in Missions : mission[n].pc # "none" => mission[n].c \in 1..c
      BY <1>1 DEF RoundInv, FutureIsNew, c
    <2>3. \A d \in Conns : d <= c => d <= main.c \/ d = c
      BY <1>1 DEF Conns, c
    <2>4. \A d \in Conns : d <= c => processor'[d].pc # "off"
      BY <1>4, <1>8, <1>9, <2>3 DEF RoundInv, FutureIsNew
    <2>5. \A d \in Conns : d > c => d # c
      BY <1>1 DEF Conns
    <2> QED
      BY <1>5, <1>7, <1>8, <2>1, <2>2, <2>4, <2>5 DEF FutureIsNew
  <1>11. OneAtATime'
    <2>1. ASSUME NEW n \in Missions, Active(n)
          PROVE  mission[n].c \in Conns /\ mission[n].c # c
      <3>1. mission[n].c \in 1..main.c
        BY <2>1 DEF RoundInv, FutureIsNew, Active
      <3>2. main.c \in Nat /\ main.c < c /\ c <= MaxConnections /\ MaxConnections \in Nat /\ c \in Nat
        BY <1>1, BoundsAssumption DEF Conns, c
      <3> QED
        BY <3>1, <3>2 DEF Conns
    <2>2. \A n \in Missions : Active(n)' <=> Active(n)
      BY <1>5 DEF Active
    <2>3. \A n \in Missions : Active(n) => conn'[mission'[n].c].ready = 0
      BY <1>5, <1>8, <2>1 DEF RoundInv, OneAtATime
    <2>4. \A d \in Conns : conn'[d].ready <= 1
      BY <1>2, <1>8, <1>9 DEF RoundInv, OneAtATime
    <2>5. \A d \in Conns : conn'[d].messages # <<>> => d # c
      BY <1>2, <1>9
    <2>6. \A d \in Conns : conn'[d].messages # <<>> =>
            /\ Len(conn'[d].messages) = 1
            /\ mission'[conn'[d].messages[1]].pc = "offered"
            /\ mission'[conn'[d].messages[1]].c = d
      BY <1>5, <1>8, <2>5 DEF RoundInv, OneAtATime
    <2> QED
      BY <1>5, <2>2, <2>3, <2>4, <2>6 DEF RoundInv, OneAtATime
  <1> QED
    BY <1>6, <1>10, <1>11 DEF RoundInv

(* Steps that leave connections, missions and processors with their parts. *)
LEMMA KeptRound ==
  ASSUME RoundInv, Types', main'.c = main.c,
         \A c \in Conns : conn'[c].ready = conn[c].ready /\ conn'[c].messages = conn[c].messages,
         \A c \in Conns : c > main.c =>
           (conn'[c] = NoConn /\ processor'[c] = NoProcessor /\ sent'[c] = <<>>),
         \A c \in Conns : processor[c].pc # "off" => processor'[c].pc # "off",
         \A n \in Missions : /\ Active(n)' => Active(n)
                             /\ mission'[n].pc # "none" => mission[n].pc # "none"
                             /\ mission[n].pc = "offered" => mission'[n].pc = "offered"
                             /\ mission'[n].c = mission[n].c
  PROVE  RoundInv'
  <1>1. FutureIsNew'
    BY DEF RoundInv, FutureIsNew
  <1>2. \A n \in Missions : Active(n) => mission[n].c \in Conns
    BY BoundsAssumption DEF RoundInv, Types, FutureIsNew, Active, Conns
  <1>3. \A c \in Conns : conn[c].messages # <<>> => conn[c].messages[1] \in Missions
    BY EmptySeq DEF RoundInv, Types, ConnType
  <1>4. OneAtATime'
    BY <1>2, <1>3 DEF RoundInv, OneAtATime
  <1> QED
    BY <1>1, <1>4 DEF RoundInv

LEMMA MissionsConn ==
  ASSUME RoundInv, NEW n \in Missions, mission[n].pc # "none"
  PROVE  mission[n].c \in Conns /\ mission[n].c <= main.c
  <1>1. mission[n].c \in 1..main.c /\ main.c \in 0..MaxConnections
    BY DEF RoundInv, Types, FutureIsNew
  <1> QED
    BY <1>1, BoundsAssumption DEF Conns

(* A connection that has not been opened has nothing to lose. *)
LEMMA UsedConns ==
  ASSUME RoundInv, NEW c \in Conns,
         \/ conn[c].receiver # "off" \/ conn[c].open \/ processor[c].pc # "off"
         \/ conn[c].messages # <<>> \/ c = main.c
  PROVE  c <= main.c
  <1>1. main.c \in Nat /\ c \in Nat
    BY BoundsAssumption DEF RoundInv, Types, Conns
  <1>2. c > main.c => (conn[c] = NoConn /\ processor[c] = NoProcessor)
    BY DEF RoundInv, FutureIsNew
  <1>3. /\ NoConn.receiver = "off" /\ ~NoConn.open /\ NoConn.messages = <<>>
        /\ NoProcessor.pc = "off"
    BY DEF NoConn, NoProcessor
  <1> QED
    BY <1>1, <1>2, <1>3

LEMMA FutureUnchanged ==
  ASSUME RoundInv, NEW c \in Conns, c <= main.c,
         \A d \in Conns : d # c =>
           (conn'[d] = conn[d] /\ processor'[d] = processor[d] /\ sent'[d] = sent[d])
  PROVE  \A d \in Conns : d > main.c =>
           (conn'[d] = NoConn /\ processor'[d] = NoProcessor /\ sent'[d] = <<>>)
  <1>1. main.c \in Nat /\ Conns \subseteq Nat
    BY BoundsAssumption DEF RoundInv, Types, Conns
  <1>2. \A d \in Conns : d > main.c => d # c
    BY <1>1
  <1> QED
    BY <1>2 DEF RoundInv, FutureIsNew

LEMMA MainRound ==
  ASSUME RoundInv, Exit \/ Reconnect \/ CtrlC
  PROVE  RoundInv'
  <1>1. CASE Exit
    <2>1. Types'
      BY <1>1 DEF Exit, RoundInv, Types
    <2>2. main'.c = main.c
      BY <1>1 DEF Exit, RoundInv, Types
    <2>3. RoundInv
      OBVIOUS
    <2> QED
      BY <1>1, <2>1, <2>2, <2>3, KeptRound DEF Exit, Active, RoundInv, FutureIsNew
  <1>2. CASE CtrlC
    <2>1. Types'
      BY <1>2 DEF CtrlC, RoundInv, Types
    <2> QED
      BY <1>2, <2>1, KeptRound DEF CtrlC, Active, RoundInv, FutureIsNew
  <1>3. CASE Reconnect
    <2>1. Types /\ main.c \in Conns /\ main.pc = "messages"
      BY <1>3 DEF Reconnect, RoundInv, Types
    <2>2. main'.c = main.c
      BY <1>3, <2>1 DEF Reconnect, Types
    <2>3. /\ processor' \in [Conns -> ProcessorType]
          /\ \A d \in Conns : /\ processor'[d].pc = processor[d].pc
                              /\ d # main.c => processor'[d] = processor[d]
      BY <1>3, <2>1, FinishIsSent DEF Reconnect
    <2>4. Types'
      BY <1>3, <2>1, <2>2, <2>3 DEF Reconnect, Types
    <2>5. main.c <= main.c
      BY <2>1, BoundsAssumption DEF Conns
    <2>6. \A d \in Conns : d > main.c =>
            (conn'[d] = NoConn /\ processor'[d] = NoProcessor /\ sent'[d] = <<>>)
      BY <1>3, <2>1, <2>3, <2>5, FutureUnchanged DEF Reconnect
    <2> QED
      BY <1>3, <2>2, <2>3, <2>4, <2>6, KeptRound DEF Reconnect, Active
  <1> QED
    BY <1>1, <1>2, <1>3

LEMMA TakeRound ==
  ASSUME RoundInv, TakeMessage
  PROVE  /\ RoundInv'
         /\ \E n \in Missions :
              /\ mission[n].pc = "offered"
              /\ mission' = [mission EXCEPT ![n].pc = IF running THEN "mining" ELSE "dropped"]
              /\ \A d \in Conns : /\ conn'[d].open = conn[d].open
                                  /\ conn'[d].receiver = conn[d].receiver
  <1> DEFINE c == main.c
             n == Head(conn[c].messages)
  <1>1. Types /\ c \in Conns /\ conn[c] \in ConnType /\ conn[c].messages # <<>>
    BY DEF TakeMessage, RoundInv, Types
  <1>2. conn[c].messages \in Seq(Missions)
    BY <1>1 DEF ConnType
  <1>3. /\ n \in Missions /\ n = conn[c].messages[1]
        /\ Tail(conn[c].messages) \in Seq(Missions)
        /\ Len(Tail(conn[c].messages)) = Len(conn[c].messages) - 1
    BY <1>1, <1>2, TailPops DEF Popped
  <1>4. Len(conn[c].messages) = 1 /\ mission[n].pc = "offered" /\ mission[n].c = c
    BY <1>1, <1>3 DEF RoundInv, OneAtATime
  <1>5. Tail(conn[c].messages) = <<>>
    <2>1. Len(Tail(conn[c].messages)) = 0
      BY <1>3, <1>4
    <2> DEFINE tail == Tail(conn[c].messages)
    <2>2. tail \in Seq(Missions) /\ Len(tail) = 0
      BY <1>3, <2>1
    <2> HIDE DEF tail
    <2>3. tail = <<>>
      BY <2>2, EmptySeq
    <2> QED
      BY <2>3 DEF tail
  <1> DEFINE cc == [conn[c] EXCEPT !.messages = <<>>]
             pc == IF running THEN "mining" ELSE "dropped"
             m == [mission[n] EXCEPT !.pc = pc]
  <1>6. /\ cc \in ConnType /\ cc.open = conn[c].open /\ cc.receiver = conn[c].receiver
        /\ cc.ready = conn[c].ready /\ cc.messages = <<>>
    <2>1. <<>> \in Seq(Missions)
      OBVIOUS
    <2> QED
      BY <1>1, <2>1 DEF ConnType
  <1>7. mission[n] \in MissionType
    BY <1>1, <1>3 DEF Types
  <1>8. m \in MissionType /\ m.pc = pc /\ m.c = mission[n].c
    BY <1>7 DEF MissionType, MissionPcs
  <1>9. pc \in {"mining", "dropped"}
    OBVIOUS
  <1>10. conn' = [conn EXCEPT ![c] = cc]
    BY <1>5 DEF TakeMessage
  <1>11. mission' = [mission EXCEPT ![n] = m]
    BY DEF TakeMessage
  <1>12. UNCHANGED <<running, main, processor, thread, sent>>
    BY DEF TakeMessage
  <1>13. mission' = [mission EXCEPT ![n].pc = IF running THEN "mining" ELSE "dropped"]
    BY DEF TakeMessage
  <1> HIDE DEF c, n, cc, pc, m
  <1>14. Types'
    BY <1>1, <1>3, <1>6, <1>8, <1>10, <1>11, <1>12 DEF Types
  <1>15. /\ \A d \in Conns : d # c => conn'[d] = conn[d]
         /\ conn'[c] = cc
         /\ \A k \in Missions : k # n => mission'[k] = mission[k]
         /\ mission'[n] = m
    BY <1>1, <1>3, <1>10, <1>11 DEF Types
  <1>16. c <= main.c /\ main'.c = main.c
    BY <1>1, <1>12, UsedConns DEF c
  <1>17. FutureIsNew'
    <2>1. \A d \in Conns : d > main.c =>
            (conn'[d] = NoConn /\ processor'[d] = NoProcessor /\ sent'[d] = <<>>)
      BY <1>1, <1>12, <1>15, <1>16, FutureUnchanged
    <2>2. \A k \in Missions : mission'[k].pc # "none" => (mission[k].pc # "none" /\ mission'[k].c = mission[k].c)
      BY <1>4, <1>8, <1>15
    <2> QED
      BY <1>12, <1>16, <2>1, <2>2 DEF RoundInv, FutureIsNew
  <1>18. OneAtATime'
    <2>1. \A d \in Conns : conn'[d].ready = conn[d].ready
      BY <1>6, <1>15
    <2>2. \A k \in Missions : Active(k)' => (Active(k) /\ mission'[k].c = mission[k].c)
      BY <1>4, <1>8, <1>15 DEF Active
    <2>3. \A k \in Missions : Active(k) => mission[k].c \in Conns
      BY MissionsConn DEF Active
    <2>4. ASSUME NEW d \in Conns, conn'[d].messages # <<>>
          PROVE  /\ Len(conn'[d].messages) = 1
                 /\ mission'[conn'[d].messages[1]].pc = "offered"
                 /\ mission'[conn'[d].messages[1]].c = d
      <3>1. d # c
        BY <1>6, <1>15, <2>4
      <3>2. conn'[d] = conn[d]
        BY <1>15, <3>1
      <3> DEFINE k == conn[d].messages[1]
      <3>3. Len(conn[d].messages) = 1 /\ mission[k].pc = "offered" /\ mission[k].c = d
        BY <2>4, <3>2 DEF RoundInv, OneAtATime
      <3>4. k # n
        BY <1>4, <3>1, <3>3
      <3>5. k \in Missions
        BY <1>1, <3>3, EmptySeq DEF Types, ConnType
      <3> QED
        BY <1>15, <3>2, <3>3, <3>4, <3>5
    <2> QED
      BY <2>1, <2>2, <2>3, <2>4 DEF RoundInv, OneAtATime
  <1>19. RoundInv'
    BY <1>14, <1>17, <1>18 DEF RoundInv
  <1>20. \A d \in Conns : conn'[d].open = conn[d].open /\ conn'[d].receiver = conn[d].receiver
    BY <1>6, <1>15
  <1> QED
    BY <1>3, <1>4, <1>13, <1>19, <1>20

LEMMA ReceiveStartRound ==
  ASSUME RoundInv, NEW c \in Conns, NEW n \in Missions, ReceiveStart(c, n)
  PROVE  RoundInv'
  <1>1. Types /\ conn[c] \in ConnType /\ mission[n].pc = "none" /\ conn[c].ready > 0
    BY DEF ReceiveStart, RoundInv, Types
  <1>2. conn[c].messages \in Seq(Missions) /\ conn[c].ready \in Nat /\ conn[c].ready <= 1
    BY <1>1 DEF ConnType, RoundInv, OneAtATime
  <1>3. \A k \in Missions : Active(k) => mission[k].c # c
    BY <1>1, <1>2 DEF RoundInv, OneAtATime
  <1>4. conn[c].messages = <<>>
    <2> SUFFICES ASSUME conn[c].messages # <<>>
                 PROVE  FALSE
      OBVIOUS
    <2> DEFINE k == conn[c].messages[1]
    <2>1. k \in Missions
      BY <1>2, EmptySeq
    <2>2. mission[k].pc = "offered" /\ mission[k].c = c
      BY DEF RoundInv, OneAtATime
    <2> QED
      BY <1>3, <2>1, <2>2 DEF Active
  <1> DEFINE queue == Append(conn[c].messages, n)
             cc == [conn[c] EXCEPT !.ready = conn[c].ready - 1, !.messages = queue]
             m == [NoMission EXCEPT !.pc = "offered", !.c = c]
  <1>5. queue \in Seq(Missions) /\ Len(queue) = 1 /\ queue[1] = n
    BY <1>2, <1>4
  <1>6. m \in MissionType /\ m.pc = "offered" /\ m.c = c
    <2>1. NoMission \in MissionType
      BY BoundsAssumption DEF NoMission, MissionType, MissionPcs
    <2>2. c \in 0..MaxConnections
      BY BoundsAssumption DEF Conns
    <2> QED
      BY <2>1, <2>2 DEF MissionType, MissionPcs
  <1>7. conn' = [conn EXCEPT ![c] = cc]
    BY <1>1 DEF ReceiveStart
  <1>8. mission' = [mission EXCEPT ![n] = m] /\ UNCHANGED <<running, main, processor, thread, sent>>
    BY DEF ReceiveStart
  <1> HIDE DEF queue
  <1>9. cc \in ConnType /\ cc.ready = 0 /\ cc.messages = queue
    <2>1. conn[c].ready = 1
      BY <1>1, <1>2
    <2>2. conn[c].ready - 1 = 0
      BY <2>1
    <2>3. cc = [conn[c] EXCEPT !.ready = 0, !.messages = queue]
      BY <2>2
    <2> HIDE DEF cc
    <2> QED
      BY <1>1, <1>5, <2>3 DEF ConnType
  <1> HIDE DEF cc, m
  <1>10. Types'
    BY <1>1, <1>6, <1>7, <1>8, <1>9 DEF Types
  <1>11. /\ \A d \in Conns : d # c => conn'[d] = conn[d]
         /\ conn'[c] = cc
         /\ \A k \in Missions : k # n => mission'[k] = mission[k]
         /\ mission'[n] = m
    BY <1>1, <1>7, <1>8 DEF Types
  <1>12. c <= main.c /\ main'.c = main.c
    BY <1>8, UsedConns DEF ReceiveStart
  <1>13. FutureIsNew'
    <2>1. \A d \in Conns : d > main.c =>
            (conn'[d] = NoConn /\ processor'[d] = NoProcessor /\ sent'[d] = <<>>)
      BY <1>8, <1>11, <1>12, FutureUnchanged
    <2>2. c \in 1..main.c
      BY <1>12, BoundsAssumption DEF Conns, RoundInv, Types
    <2>3. \A k \in Missions : mission'[k].pc # "none" => mission'[k].c \in 1..main.c
      BY <1>6, <1>11, <2>2 DEF RoundInv, FutureIsNew
    <2> QED
      BY <1>8, <1>12, <2>1, <2>3 DEF RoundInv, FutureIsNew
  <1>14. OneAtATime'
    <2>1. \A d \in Conns : conn'[d].ready <= 1 /\ (conn[d].ready = 0 => conn'[d].ready = 0)
      BY <1>9, <1>11 DEF RoundInv, OneAtATime
    <2>2. \A k \in Missions : Active(k)' => (k = n \/ (Active(k) /\ mission'[k].c = mission[k].c))
      BY <1>11 DEF Active
    <2>3. \A k \in Missions : Active(k) => mission[k].c \in Conns
      BY MissionsConn DEF Active
    <2>4. ASSUME NEW k \in Missions, Active(k)'
          PROVE  conn'[mission'[k].c].ready = 0
      BY <1>6, <1>9, <1>11, <2>1, <2>2, <2>3, <2>4 DEF RoundInv, OneAtATime
    <2>5. ASSUME NEW k \in Missions, NEW l \in Missions, Active(k)', Active(l)',
                 mission'[k].c = mission'[l].c
          PROVE  k = l
      BY <1>3, <1>6, <1>11, <2>2, <2>5 DEF RoundInv, OneAtATime
    <2>6. ASSUME NEW d \in Conns, conn'[d].messages # <<>>
          PROVE  /\ Len(conn'[d].messages) = 1
                 /\ mission'[conn'[d].messages[1]].pc = "offered"
                 /\ mission'[conn'[d].messages[1]].c = d
      <3>1. CASE d = c
        BY <1>5, <1>6, <1>9, <1>11, <3>1
      <3>2. CASE d # c
        <4>1. conn'[d] = conn[d]
          BY <1>11, <3>2
        <4> DEFINE k == conn[d].messages[1]
        <4>2. Len(conn[d].messages) = 1 /\ mission[k].pc = "offered" /\ mission[k].c = d
          BY <2>6, <4>1 DEF RoundInv, OneAtATime
        <4>3. k # n
          BY <1>1, <4>2
        <4>4. k \in Missions
          BY <1>1, <4>2, EmptySeq DEF Types, ConnType
        <4> QED
          BY <1>11, <4>1, <4>2, <4>3, <4>4
      <3> QED
        BY <3>1, <3>2
    <2> QED
      BY <2>1, <2>4, <2>5, <2>6 DEF OneAtATime
  <1> QED
    BY <1>10, <1>13, <1>14 DEF RoundInv

LEMMA ReceiverRound ==
  ASSUME RoundInv, NEW c \in Conns, ReceiveIdle(c) \/ ReceiveEnd(c) \/ Disconnect(c)
  PROVE  RoundInv'
  <1>1. Types /\ conn[c] \in ConnType /\ c <= main.c
    BY UsedConns DEF RoundInv, Types, ReceiveIdle, ReceiveEnd, Disconnect
  <1>2. /\ processor' \in [Conns -> ProcessorType]
        /\ \A d \in Conns : /\ processor'[d].pc = processor[d].pc
                            /\ d # c => processor'[d] = processor[d]
    BY <1>1, FinishIsSent DEF ReceiveIdle, ReceiveEnd, ReceiverReturns, Disconnect, Types
  <1>3. conn' \in [Conns -> ConnType]
    <2> DEFINE d == [conn[c] EXCEPT !.receiver = "done"]
               e == [conn[c] EXCEPT !.open = FALSE]
    <2>1. d \in ConnType /\ e \in ConnType
      BY <1>1 DEF ConnType
    <2>2. conn' = [conn EXCEPT ![c] = d] \/ conn' = [conn EXCEPT ![c] = e]
      BY <1>1 DEF ReceiveIdle, ReceiveEnd, ReceiverReturns, Disconnect
    <2> HIDE DEF d, e
    <2> QED
      BY <1>1, <2>1, <2>2 DEF Types
  <1>4. \A d \in Conns : /\ conn'[d].ready = conn[d].ready /\ conn'[d].messages = conn[d].messages
                         /\ d # c => conn'[d] = conn[d]
    BY <1>1 DEF ReceiveIdle, ReceiveEnd, ReceiverReturns, Disconnect, Types, ConnType
  <1>5. UNCHANGED <<running, main, mission, thread, sent>>
    BY DEF ReceiveIdle, ReceiveEnd, ReceiverReturns, Disconnect
  <1>6. Types'
    BY <1>1, <1>2, <1>3, <1>5 DEF Types
  <1>7. \A d \in Conns : d > main.c =>
          (conn'[d] = NoConn /\ processor'[d] = NoProcessor /\ sent'[d] = <<>>)
    BY <1>1, <1>2, <1>4, <1>5, FutureUnchanged
  <1> QED
    BY <1>2, <1>4, <1>5, <1>6, <1>7, KeptRound DEF Active

(* The best solution of the threads whose results are looked at. *)
LEMMA BestOfIs ==
  ASSUME Types, NEW n \in Missions, NEW results \in SUBSET Workers
  PROVE  /\ BestOf(n, results) \in Nat
         /\ BestOf(n, results) = 0 \/ \E t \in results : BestOf(n, results) = thread[n][t]
         /\ \A t \in results : thread[n][t] <= BestOf(n, results)
  <1> DEFINE T == {thread[n][t] : t \in results}
             S == {0} \cup T
  <1>1. IsFiniteSet(results)
    BY WorkersAssumption, FS_Subset
  <1>2. IsFiniteSet(T)
    <2> DEFINE f == [t \in results |-> thread[n][t]]
    <2>1. f \in Surjection(results, T)
      BY DEF Surjection
    <2> HIDE DEF f
    <2> QED
      BY <1>1, <2>1, FS_Surjection
  <1>3. IsFiniteSet(S)
    BY <1>2, FS_Singleton, FS_Union
  <1>4. S \subseteq Nat /\ S # {}
    BY DEF Types
  <1>5. Max(S) \in S /\ \A x \in S : x <= Max(S)
    BY <1>3, <1>4, FiniteMax
  <1>6. BestOf(n, results) = Max(S)
    BY DEF BestOf
  <1> QED
    BY <1>4, <1>5, <1>6

LEMMA MineRound ==
  ASSUME RoundInv, NEW n \in Missions,
         JoinThreads(n) \/ \E t \in Workers, difficulty \in Difficulties : Hash(n, t, difficulty)
  PROVE  RoundInv'
  <1> DEFINE c == mission[n].c
  <1>1. Types /\ mission[n] \in MissionType /\ mission[n].pc = "mining" /\ c \in Conns /\ c <= main.c
    BY MissionsConn DEF RoundInv, Types, Hash, JoinThreads
  <1>2. /\ processor' \in [Conns -> ProcessorType]
        /\ \A d \in Conns : /\ processor'[d].pc = processor[d].pc
                            /\ d # c => processor'[d] = processor[d]
    <2>1. \A t \in Workers, difficulty \in Difficulties :
            /\ <<Submission(n, difficulty)>> \in Seq(Item)
      BY ItemsHaveType, DifficultiesAssumption
    <2>2. \A results \in SUBSET Workers :
            <<Submission(n, BestOf(n, results)), Reset>> \in Seq(Item)
      BY <1>1, ItemsHaveType, BestOfIs
    <2>3. PICK items \in Seq(Item) : Sends(c, items)
      BY <2>1, <2>2 DEF Hash, JoinThreads
    <2> QED
      BY <1>1, <2>3, SendsIs
  <1>3. \A t \in Workers : thread[n][t] \in Nat
    BY <1>1 DEF Types
  <1>4. /\ mission' \in [Missions -> MissionType]
        /\ \A k \in Missions : mission'[k].c = mission[k].c
        /\ \A k \in Missions : k # n => mission'[k] = mission[k]
        /\ mission'[n].pc \in {"mining", "ready"}
        /\ UNCHANGED <<running, main, conn, sent>>
    <2>1. CASE JoinThreads(n)
      <3>1. BestOf(n, Workers) \in Nat
        BY <1>1, BestOfIs
      <3> DEFINE m == [mission[n] EXCEPT !.pc = "ready", !.best = BestOf(n, Workers)]
      <3>2. mission' = [mission EXCEPT ![n] = m]
        BY <1>1, <2>1 DEF JoinThreads, Types
      <3>3. m \in MissionType /\ m.c = mission[n].c /\ m.pc = "ready"
        BY <1>1, <3>1 DEF MissionType, MissionPcs
      <3> HIDE DEF m
      <3> QED
        BY <1>1, <2>1, <3>2, <3>3 DEF JoinThreads, Types
    <2>2. CASE ~JoinThreads(n)
      BY <1>1, <2>2 DEF Hash, Types
    <2> QED
      BY <2>1, <2>2
  <1>5. thread' \in [Missions -> [Workers -> Nat]]
    <2>1. CASE JoinThreads(n)
      BY <1>1, <2>1 DEF JoinThreads, Types, NoThreads
    <2>2. CASE \E t \in Workers, difficulty \in Difficulties : Hash(n, t, difficulty)
      <3>1. PICK t \in Workers, difficulty \in Difficulties : Hash(n, t, difficulty)
        BY <2>2
      <3>2. thread' = [thread EXCEPT ![n] = [thread[n] EXCEPT ![t] = difficulty]] /\ difficulty \in Nat
        BY <3>1, DifficultiesAssumption DEF Hash
      <3>3. [thread[n] EXCEPT ![t] = difficulty] \in [Workers -> Nat]
        BY <1>1, <3>2 DEF Types
      <3> QED
        BY <1>1, <3>2, <3>3 DEF Types
    <2> QED
      BY <2>1, <2>2
  <1>6. Types'
    BY <1>1, <1>2, <1>4, <1>5 DEF Types
  <1>7. \A d \in Conns : d > main.c =>
          (conn'[d] = NoConn /\ processor'[d] = NoProcessor /\ sent'[d] = <<>>)
    BY <1>1, <1>2, <1>4, FutureUnchanged
  <1> QED
    BY <1>1, <1>2, <1>4, <1>6, <1>7, KeptRound DEF Active

LEMMA SendReadyRound ==
  ASSUME RoundInv, NEW n \in Missions, SendReady(n)
  PROVE  RoundInv'
  <1> DEFINE c == mission[n].c
             m == [mission[n] EXCEPT !.pc = "done"]
             cc == [conn[c] EXCEPT !.ready = 1]
  <1>1. /\ Types /\ mission[n] \in MissionType /\ mission[n].pc = "ready"
        /\ c \in Conns /\ c <= main.c /\ conn[c] \in ConnType
    BY MissionsConn DEF RoundInv, Types, SendReady
  <1>2. conn[c].ready = 0
    BY <1>1 DEF RoundInv, OneAtATime, Active
  <1>3. conn' = [conn EXCEPT ![c] = cc] \/ UNCHANGED conn
    BY <1>2 DEF SendReady
  <1>4. cc \in ConnType /\ cc.ready = 1 /\ cc.messages = conn[c].messages
    BY <1>1 DEF ConnType
  <1>5. m \in MissionType /\ m.pc = "done" /\ m.c = c
    BY <1>1 DEF MissionType, MissionPcs
  <1>6. mission' = [mission EXCEPT ![n] = m] /\ UNCHANGED <<running, main, thread, sent>>
    BY DEF SendReady
  <1>7. /\ processor' \in [Conns -> ProcessorType]
        /\ \A d \in Conns : /\ processor'[d].pc = processor[d].pc
                            /\ d # c => processor'[d] = processor[d]
    <2>1. CASE UNCHANGED processor
      BY <1>1, <2>1 DEF Types
    <2>2. CASE Sends(c, <<Finish>>)
      BY <1>1, <2>2, FinishIsSent
    <2> QED
      BY <2>1, <2>2 DEF SendReady
  <1> HIDE DEF m, cc
  <1>8. /\ \A k \in Missions : k # n => mission'[k] = mission[k]
        /\ mission'[n] = m
        /\ \A d \in Conns : conn'[d] = conn[d] \/ (d = c /\ conn'[d] = cc)
    BY <1>1, <1>3, <1>6 DEF Types
  <1>9. Types'
    <2>1. conn' \in [Conns -> ConnType]
      BY <1>1, <1>3, <1>4 DEF Types
    <2>2. mission' \in [Missions -> MissionType]
      BY <1>1, <1>5, <1>6 DEF Types
    <2> QED
      BY <1>1, <1>6, <1>7, <2>1, <2>2 DEF Types
  <1>10. \A d \in Conns : d > main.c =>
           (conn'[d] = NoConn /\ processor'[d] = NoProcessor /\ sent'[d] = <<>>)
    BY <1>1, <1>6, <1>7, <1>8, FutureUnchanged
  <1>11. FutureIsNew'
    BY <1>1, <1>5, <1>6, <1>7, <1>8, <1>10 DEF RoundInv, FutureIsNew
  <1>12. OneAtATime'
    <2>1. \A k \in Missions : Active(k)' => (Active(k) /\ k # n /\ mission'[k] = mission[k])
      BY <1>5, <1>8 DEF Active
    <2>2. ASSUME NEW k \in Missions, Active(k)'
          PROVE  conn'[mission'[k].c].ready = 0
      <3>1. Active(k) /\ k # n /\ mission'[k] = mission[k]
        BY <2>1, <2>2
      <3>2. mission[k].c # c
        BY <1>1, <3>1 DEF RoundInv, OneAtATime, Active
      <3>3. mission[k].c \in Conns
        BY <3>1, MissionsConn DEF Active
      <3> QED
        BY <1>8, <3>1, <3>2, <3>3 DEF RoundInv, OneAtATime
    <2>3. \A d \in Conns : conn'[d].ready <= 1 /\ conn'[d].messages = conn[d].messages
      BY <1>4, <1>8 DEF RoundInv, OneAtATime
    <2>4. ASSUME NEW d \in Conns, conn[d].messages # <<>>
          PROVE  /\ Len(conn[d].messages) = 1
                 /\ mission'[conn[d].messages[1]].pc = "offered"
                 /\ mission'[conn[d].messages[1]].c = d
      <3> DEFINE k == conn[d].messages[1]
      <3>1. Len(conn[d].messages) = 1 /\ mission[k].pc = "offered" /\ mission[k].c = d
        BY <2>4 DEF RoundInv, OneAtATime
      <3>2. k \in Missions /\ k # n
        BY <1>1, <2>4, <3>1, EmptySeq DEF Types, ConnType
      <3> QED
        BY <1>8, <3>1, <3>2
    <2> QED
      BY <2>1, <2>2, <2>3, <2>4 DEF RoundInv, OneAtATime
  <1> QED
    BY <1>9, <1>11, <1>12 DEF RoundInv

(* What submission_processor makes of a connection's channel *)
LEMMA ProcessIs ==
  ASSUME RoundInv, NEW c \in Conns, Process(c)
  PROVE  /\ Types' /\ UNCHANGED <<running, main, conn, mission, thread>>
         /\ \A d \in Conns : d # c => (processor'[d] = processor[d] /\ sent'[d] = sent[d])
         /\ processor[c].pc = "recv" /\ c <= main.c
         /\ Popped(Q(c), Q(c)') /\ Q(c)[1] \in Item
         /\ IsSub(Q(c)[1]) => Q(c)[1] \in Submissions
         /\ processor'[c].pc = IF Q(c)[1].kind = "Finish" THEN "done" ELSE "recv"
         /\ \/ IsSub(Q(c)[1]) /\ Sent(B(c), B(c)', sent[c], sent'[c], Q(c)[1])
            \/ ~IsSub(Q(c)[1]) /\ sent'[c] = sent[c] /\ B(c)' = 0
         /\ (IsSub(Q(c)[1]) /\ conn[c].open) => SentOpen(B(c), B(c)', sent[c], sent'[c], Q(c)[1])
  <1> DEFINE p == processor[c]
             head == Head(p.queue)
             next == [pc |-> IF head.kind = "Finish" THEN "done" ELSE "recv",
                      best |-> NextBest(p, head), queue |-> Tail(p.queue)]
             solution == head.kind = "Submission" /\ IsBetter(p, head)
             more == IF solution /\ conn[c].open THEN Append(sent[c], head) ELSE sent[c]
  <1>1. /\ Types /\ p \in ProcessorType /\ p.pc = "recv" /\ p.queue # <<>>
        /\ sent[c] \in Seq(Submissions) /\ c <= main.c
    BY UsedConns DEF RoundInv, Types, Process
  <1>2. p.queue \in Seq(Item) /\ p.best \in Nat
    BY <1>1 DEF ProcessorType
  <1>3. /\ Tail(p.queue) \in Seq(Item) /\ Popped(p.queue, Tail(p.queue))
        /\ head = p.queue[1] /\ head \in Item
    BY <1>1, <1>2, TailPops
  <1>4. 1 \in DOMAIN p.queue
    BY <1>3 DEF Popped
  <1>5. IsSub(head) => head \in Submissions
    BY <1>3 DEF IsSub, Item, Reset, Finish
  <1>6. head.difficulty \in Nat
    BY <1>3 DEF Item, Submissions, Reset, Finish
  <1>7. /\ IsSub(head) => NextBest(p, head) = IF head.difficulty > p.best THEN head.difficulty ELSE p.best
        /\ ~IsSub(head) => NextBest(p, head) = 0
        /\ NextBest(p, head) \in Nat
    <2> DEFINE S == {p.best, head.difficulty}
    <2>1. IsFiniteSet(S)
      <3>1. S = {p.best} \cup {head.difficulty}
        OBVIOUS
      <3> HIDE DEF S
      <3> QED
        BY <3>1, FS_AddElement, FS_Singleton
    <2>2. Max(S) \in S /\ \A x \in S : Max(S) >= x
      BY <1>2, <1>6, <2>1, FiniteMax
    <2>3. Max(S) = IF head.difficulty > p.best THEN head.difficulty ELSE p.best
      BY <1>2, <1>6, <2>2
    <2> QED
      BY <1>2, <1>6, <2>3 DEF NextBest, IsSub
  <1>8. next \in ProcessorType
    BY <1>3, <1>7 DEF ProcessorType
  <1>9. more \in Seq(Submissions)
    BY <1>1, <1>5 DEF IsSub
  <1>10. processor' = [processor EXCEPT ![c] = next] /\ UNCHANGED <<running, main, conn, mission, thread>>
    BY DEF Process
  <1>11. sent' = [sent EXCEPT ![c] = more]
    BY <1>1 DEF Process, Types
  <1>12. /\ next.pc = IF head.kind = "Finish" THEN "done" ELSE "recv"
         /\ next.best = NextBest(p, head) /\ next.queue = Tail(p.queue)
    OBVIOUS
  <1>13. /\ more = sent[c] \/ (more = Append(sent[c], head) /\ IsSub(head) /\ head.difficulty > p.best)
         /\ (IsSub(head) /\ conn[c].open) =>
              more = IF head.difficulty > p.best THEN Append(sent[c], head) ELSE sent[c]
    BY DEF IsBetter, IsSub
  <1> HIDE DEF next, more, head
  <1>14. /\ \A d \in Conns : d # c => (processor'[d] = processor[d] /\ sent'[d] = sent[d])
         /\ processor'[c] = next /\ sent'[c] = more
    BY <1>1, <1>10, <1>11 DEF Types
  <1>15. Types'
    BY <1>1, <1>8, <1>9, <1>10, <1>11 DEF Types
  <1>16. /\ Q(c) = p.queue /\ Q(c)' = Tail(p.queue) /\ B(c) = p.best /\ B(c)' = NextBest(p, head)
         /\ Q(c)[1] = head
    BY <1>3, <1>12, <1>14 DEF Q, B
  <1> HIDE DEF p
  <1>17. \/ IsSub(head) /\ Sent(p.best, NextBest(p, head), sent[c], more, head)
         \/ ~IsSub(head) /\ more = sent[c] /\ NextBest(p, head) = 0
    BY <1>7, <1>13 DEF Sent
  <1>18. (IsSub(head) /\ conn[c].open) => SentOpen(p.best, NextBest(p, head), sent[c], more, head)
    BY <1>7, <1>13 DEF SentOpen
  <1>19. p.pc = "recv" /\ c <= main.c
    BY <1>1
  <1> QED
    BY <1>3, <1>5, <1>10, <1>12, <1>14, <1>15, <1>16, <1>17, <1>18, <1>19 DEF p

LEMMA RoundStep ==
  ASSUME RoundInv, [Next]_vars
  PROVE  RoundInv'
  <1>1. CASE UNCHANGED vars
    <2>1. Types'
      BY <1>1 DEF vars, RoundInv, Types
    <2>2. FutureIsNew'
      BY <1>1 DEF vars, RoundInv, FutureIsNew
    <2>3. OneAtATime'
      BY <1>1 DEF vars, RoundInv, OneAtATime, Active
    <2> QED
      BY <2>1, <2>2, <2>3 DEF RoundInv
  <1>2. CASE MainNext \/ CtrlC
    BY <1>2, ConnectRound, MainRound, TakeRound DEF MainNext
  <1>3. ASSUME NEW c \in Conns, NEW n \in Missions, ReceiveStart(c, n)
        PROVE  RoundInv'
    BY <1>3, ReceiveStartRound
  <1>4. ASSUME NEW c \in Conns, ReceiveIdle(c) \/ ReceiveEnd(c) \/ Disconnect(c)
        PROVE  RoundInv'
    BY <1>4, ReceiverRound
  <1>5. ASSUME NEW c \in Conns, Process(c)
        PROVE  RoundInv'
    <2>1. /\ Types' /\ UNCHANGED <<running, main, conn, mission, thread>>
          /\ \A d \in Conns : d # c => (processor'[d] = processor[d] /\ sent'[d] = sent[d])
          /\ c <= main.c /\ processor'[c].pc # "off"
      BY <1>5, ProcessIs
    <2>2. \A d \in Conns : d > main.c =>
            (conn'[d] = NoConn /\ processor'[d] = NoProcessor /\ sent'[d] = <<>>)
      BY <2>1, FutureUnchanged
    <2>3. \A d \in Conns : processor[d].pc # "off" => processor'[d].pc # "off"
      BY <2>1
    <2> QED
      BY <2>1, <2>2, <2>3, KeptRound DEF Active
  <1>6. ASSUME NEW n \in Missions, MissionNext(n)
        PROVE  RoundInv'
    BY <1>6, MineRound, SendReadyRound DEF MissionNext
  <1> QED
    BY <1>1, <1>2, <1>3, <1>4, <1>5, <1>6 DEF Next

-----------------------------------------------------------------------------
(* What is queued and sent.                                                *)

LEMMA PipeInit == Init => PipeInv
  <1> SUFFICES ASSUME Init
               PROVE  PipeInv
    OBVIOUS
  <1>1. \A n \in Missions : mission[n] = NoMission /\ thread[n] = NoThreads
    BY DEF Init
  <1>2. NoMission.pc = "none"
    BY DEF NoMission
  <1>3. \A c \in Conns : /\ Q(c) = <<>> /\ B(c) = 0 /\ sent[c] = <<>>
                         /\ processor[c].pc = "off" /\ ~conn[c].open
    BY DEF Init, Q, B, NoProcessor, NoConn
  <1>4. DOMAIN <<>> = {} /\ ToSet(<<>>) = {}
    BY DEF ToSet
  <1>5. OwnOnly
    BY <1>3, <1>4 DEF OwnOnly
  <1>6. Ordered
    BY <1>1, <1>2, <1>3, <1>4 DEF Ordered, Increasing, InOrder, Mines
  <1>7. ClosedEnds
    BY <1>3, <1>4 DEF ClosedEnds, Closed, Q
  <1>8. BestKept
    BY <1>3 DEF BestKept, Ended
  <1>9. ThreadsIdle /\ AllKept
    BY <1>1, <1>2 DEF ThreadsIdle, AllKept, Begun
  <1> QED
    BY <1>5, <1>6, <1>7, <1>8, <1>9 DEF PipeInv

(* A connection that is only now opened. *)
Fresh(c) ==
  /\ Q(c) = <<>> /\ B(c) = 0 /\ processor[c].pc # "done"
  /\ \A n \in Missions : Begun(n) => mission[n].c # c

(* Of a message behind which nothing is put: the connection has ended. *)
LEMMA ClosedByFinish ==
  ASSUME NEW c \in Conns
  PROVE  Closed(c) <=> (processor[c].pc = "done" \/ \E k \in DOMAIN Q(c) : Q(c)[k] = Finish)
  BY DEF Closed, Q, ToSet

(* Steps that neither mine nor process: a Finish at most is queued. *)
LEMMA PipeFrame ==
  ASSUME RoundInv, PipeInv, Types', sent' = sent, thread' = thread,
         \A c \in Conns : /\ B(c)' = B(c)
                          /\ (processor'[c].pc = "done") <=> (processor[c].pc = "done")
                          /\ Q(c)' = Q(c) \/ (Extended(Q(c), Q(c)', Finish) /\ Ended(c)')
                          /\ Ended(c) => (Ended(c)' \/ (Fresh(c) /\ Q(c)' = Q(c))),
         \A n \in Missions : /\ Begun(n)' <=> Begun(n)
                             /\ (mission'[n].pc = "mining") <=> (mission[n].pc = "mining")
                             /\ Begun(n) => (mission'[n].c = mission[n].c
                                             /\ mission'[n].best = mission[n].best)
  PROVE  PipeInv'
  <1> USE DEF PipeInv
  <1>1. \A n \in Missions, c \in Conns : Mines(n, c)' <=> Mines(n, c)
    BY DEF Mines, Begun
  <1>2. \A c \in Conns : \A k \in DOMAIN sent[c] : sent[c][k].n \in Missions
    <2>1. \A c \in Conns : \A k \in DOMAIN sent[c] : sent[c][k] \in Submissions
      BY DEF RoundInv, Types
    <2> QED
      BY <2>1 DEF Submissions
  <1>3. \A c \in Conns : \A k \in DOMAIN Q(c) : IsSub(Q(c)[k]) => Q(c)[k].n \in Missions
    <2>1. \A c \in Conns : Q(c) \in Seq(Item)
      BY DEF RoundInv, Types, ProcessorType, Q
    <2>2. \A c \in Conns : \A k \in DOMAIN Q(c) : Q(c)[k] \in Item
      BY <2>1, ElementOfSeq
    <2>3. \A c \in Conns : \A k \in DOMAIN Q(c) : IsSub(Q(c)[k]) => Q(c)[k] \in Submissions
      BY <2>2 DEF IsSub, Item, Reset, Finish
    <2> QED
      BY <2>3 DEF Submissions
  <1>4. ~IsSub(Finish) /\ Finish.kind # "Reset"
    BY DEF IsSub, Finish
  <1>5. \A c \in Conns : Extended(Q(c), Q(c)', Finish) =>
          \A k \in DOMAIN Q(c)' : Q(c)'[k] = Finish \/ (k \in DOMAIN Q(c) /\ Q(c)'[k] = Q(c)[k])
    BY DEF Extended
  <1>6. OwnOnly'
    <2> DEFINE Own(n, c) == mission'[n].pc \in {"mining", "ready", "done"} /\ mission'[n].c = c
    <2>1. ASSUME NEW n \in Missions, NEW c, Begun(n), mission[n].c = c
          PROVE  Own(n, c)
      BY <2>1 DEF Begun
    <2> SUFFICES ASSUME NEW c \in Conns
                 PROVE  /\ \A k \in DOMAIN sent[c] : Own(sent[c][k].n, c)
                        /\ \A k \in DOMAIN Q(c)' : IsSub(Q(c)'[k]) => Own(Q(c)'[k].n, c)
      BY DEF OwnOnly, Begun
    <2> HIDE DEF Own
    <2>2. \A k \in DOMAIN sent[c] : Own(sent[c][k].n, c)
      BY <1>2, <2>1 DEF OwnOnly
    <2>3. \A k \in DOMAIN Q(c) : IsSub(Q(c)[k]) => Own(Q(c)[k].n, c)
      BY <1>3, <2>1 DEF OwnOnly
    <2>4. \A k \in DOMAIN Q(c)' : IsSub(Q(c)'[k]) => (k \in DOMAIN Q(c) /\ Q(c)'[k] = Q(c)[k])
      BY <1>4, <1>5
    <2> QED
      BY <2>2, <2>3, <2>4
  <1>7. Ordered'
    <2> SUFFICES ASSUME NEW c \in Conns
                 PROVE  /\ Increasing(sent[c])
                        /\ processor'[c].pc # "done" =>
                             /\ InOrder(Q(c)', B(c), sent[c])
                             /\ \A n \in Missions :
                                  Mines(n, c) => MayFollow(Q(c)', B(c), sent[c], n, Len(Q(c)') + 1)
      BY <1>1 DEF Ordered
    <2>1. /\ Increasing(sent[c])
          /\ processor[c].pc # "done" =>
               /\ InOrder(Q(c), B(c), sent[c])
               /\ \A n \in Missions : Mines(n, c) => MayFollow(Q(c), B(c), sent[c], n, Len(Q(c)) + 1)
      BY DEF Ordered
    <2>2. CASE Q(c)' = Q(c)
      BY <2>1, <2>2
    <2>3. CASE Extended(Q(c), Q(c)', Finish)
      BY <1>4, <2>1, <2>3, OrderExtended, FollowExtended
    <2> QED
      BY <2>2, <2>3
  <1>8. ClosedEnds'
    <2> SUFFICES ASSUME NEW c \in Conns, Closed(c)'
                 PROVE  Ended(c)'
      BY DEF ClosedEnds
    <2>1. Closed(c)' => (processor[c].pc = "done" \/ \E k \in DOMAIN Q(c)' : Q(c)'[k] = Finish)
      BY DEF Closed, Q, ToSet
    <2>2. CASE Q(c)' = Q(c)
      <3>1. Closed(c)
        BY <2>1, <2>2, ClosedByFinish
      <3>2. Ended(c)
        BY <3>1 DEF ClosedEnds
      <3>3. ~Fresh(c)
        BY <3>1, ClosedByFinish DEF Fresh
      <3> QED
        BY <3>2, <3>3
    <2> QED
      BY <2>2
  <1>9. \A c \in Conns : ~Ended(c)' => (Q(c)' = Q(c) /\ (~Ended(c) \/ Fresh(c)))
    OBVIOUS
  <1>10. BestKept'
    <2> SUFFICES ASSUME NEW c \in Conns, ~Ended(c)'
                 PROVE  /\ BestIsOf(Q(c), B(c), sent[c])
                        /\ \A n \in Missions : Mines(n, c) => TipIs(Q(c), B(c), sent[c], n)
                        /\ (\A n \in Missions : ~Mines(n, c)) => NoTip(Q(c), B(c))
      BY <1>1, <1>9 DEF BestKept
    <2>1. CASE ~Ended(c)
      BY <2>1 DEF BestKept
    <2>2. CASE Fresh(c)
      <3>1. DOMAIN Q(c) = {} /\ B(c) = 0
        BY <2>2 DEF Fresh
      <3> QED
        BY <3>1 DEF BestIsOf, TipIs, NoTip
    <2> QED
      BY <1>9, <2>1, <2>2
  <1>11. ThreadsIdle'
    BY DEF ThreadsIdle
  <1>12. AllKept'
    <2> SUFFICES ASSUME NEW n \in Missions, Begun(n)', ~Ended(mission[n].c)'
                 PROVE  Kept(n)'
      BY DEF AllKept
    <2>1. PICK c \in Conns : c = mission[n].c
      BY MissionsConn DEF Begun
    <2>2. Begun(n) /\ mission'[n].c = c /\ mission'[n].best = mission[n].best
      BY <2>1
    <2>3. ~Ended(c)'
      BY <2>2 DEF Ended
    <2>4. Q(c)' = Q(c) /\ ~Ended(c)
      BY <1>9, <2>1, <2>2, <2>3 DEF Fresh
    <2>5. Kept(n)
      BY <2>1, <2>2, <2>4 DEF AllKept
    <2> QED
      BY <2>1, <2>2, <2>4, <2>5 DEF Kept, Q
  <1> QED
    BY <1>6, <1>7, <1>8, <1>10, <1>11, <1>12

(* What is queued and sent on one connection. *)
PipeAt(c) ==
  /\ \A k \in DOMAIN sent[c] : Begun(sent[c][k].n) /\ mission[sent[c][k].n].c = c
  /\ \A k \in DOMAIN Q(c) :
       IsSub(Q(c)[k]) => (Begun(Q(c)[k].n) /\ mission[Q(c)[k].n].c = c)
  /\ Increasing(sent[c])
  /\ processor[c].pc # "done" =>
       /\ InOrder(Q(c), B(c), sent[c])
       /\ \A n \in Missions : Mines(n, c) => MayFollow(Q(c), B(c), sent[c], n, Len(Q(c)) + 1)
  /\ Closed(c) => Ended(c)
  /\ ~Ended(c) =>
       /\ BestIsOf(Q(c), B(c), sent[c])
       /\ \A n \in Missions : Mines(n, c) => TipIs(Q(c), B(c), sent[c], n)
       /\ (\A n \in Missions : ~Mines(n, c)) => NoTip(Q(c), B(c))

LEMMA PipeIsAt == PipeInv <=> ((\A c \in Conns : PipeAt(c)) /\ ThreadsIdle /\ AllKept)
  <1>1. ASSUME PipeInv, NEW c \in Conns
        PROVE  PipeAt(c)
    BY <1>1 DEF PipeInv, PipeAt, OwnOnly, Ordered, ClosedEnds, BestKept
  <1>2. ASSUME \A c \in Conns : PipeAt(c), ThreadsIdle, AllKept
        PROVE  PipeInv
    <2>1. OwnOnly
      BY <1>2 DEF PipeAt, OwnOnly
    <2>2. Ordered
      BY <1>2 DEF PipeAt, Ordered
    <2>3. ClosedEnds /\ BestKept
      BY <1>2 DEF PipeAt, ClosedEnds, BestKept
    <2> QED
      BY <1>2, <2>1, <2>2, <2>3 DEF PipeInv
  <1> QED
    BY <1>1, <1>2 DEF PipeInv

LEMMA SolutionsHaveMissions ==
  ASSUME RoundInv, NEW c \in Conns
  PROVE  /\ Q(c) \in Seq(Item) /\ sent[c] \in Seq(Submissions) /\ B(c) \in Nat
         /\ \A k \in DOMAIN sent[c] : sent[c][k].n \in Missions
         /\ \A k \in DOMAIN Q(c) : Q(c)[k] \in Item /\ (IsSub(Q(c)[k]) => Q(c)[k].n \in Missions)
  <1>1. Q(c) \in Seq(Item) /\ sent[c] \in Seq(Submissions) /\ B(c) \in Nat
    BY DEF RoundInv, Types, ProcessorType, Q, B
  <1>2. \A k \in DOMAIN sent[c] : sent[c][k] \in Submissions
    BY <1>1
  <1>3. \A k \in DOMAIN Q(c) : Q(c)[k] \in Item
    BY <1>1, ElementOfSeq
  <1>4. \A k \in DOMAIN Q(c) : IsSub(Q(c)[k]) => Q(c)[k] \in Submissions
    BY <1>3 DEF IsSub, Item, Reset, Finish
  <1> QED
    BY <1>1, <1>2, <1>3, <1>4 DEF Submissions

(* Steps on one connection that neither open nor end one. *)
LEMMA PipeElsewhere ==
  ASSUME RoundInv, PipeInv, NEW c \in Conns, PipeAt(c)', ThreadsIdle',
         \A d \in Conns : /\ conn'[d].open = conn[d].open /\ conn'[d].receiver = conn[d].receiver
                          /\ d # c => (processor'[d] = processor[d] /\ sent'[d] = sent[d]),
         \A n \in Missions :
           /\ mission'[n].c = mission[n].c
           /\ mission[n].c # c => (mission'[n] = mission[n] /\ thread'[n] = thread[n]),
         \A n \in Missions : (mission[n].c = c /\ Begun(n)' /\ ~Ended(c)) => Kept(n)'
  PROVE  PipeInv'
  <1>1. \A d \in Conns : Ended(d)' <=> Ended(d)
    BY DEF Ended
  <1>2. ASSUME NEW d \in Conns
        PROVE  PipeAt(d)'
    <2>1. CASE d = c
      BY <2>1
    <2>2. CASE d # c
      <3>1. PipeAt(d)
        BY PipeIsAt
      <3>2. \A n \in Missions : Mines(n, d)' <=> Mines(n, d)
        BY <2>2 DEF Mines
      <3>3. Q(d)' = Q(d) /\ B(d)' = B(d) /\ (Closed(d)' <=> Closed(d)) /\ sent'[d] = sent[d]
            /\ processor'[d].pc = processor[d].pc
        BY <2>2 DEF Q, B, Closed
      <3>4. \A n \in Missions : (Begun(n) /\ mission[n].c = d) =>
              (mission'[n].c = d /\ mission'[n].pc \in {"mining", "ready", "done"})
        BY <2>2 DEF Begun
      <3>5. \A k \in DOMAIN sent[d] : /\ mission'[sent[d][k].n].pc \in {"mining", "ready", "done"}
                                      /\ mission'[sent[d][k].n].c = d
        BY <3>1, <3>4, SolutionsHaveMissions DEF PipeAt
      <3>6. \A k \in DOMAIN Q(d) : IsSub(Q(d)[k]) =>
              /\ mission'[Q(d)[k].n].pc \in {"mining", "ready", "done"}
              /\ mission'[Q(d)[k].n].c = d
        BY <3>1, <3>4, SolutionsHaveMissions DEF PipeAt
      <3>7. \A k \in DOMAIN sent'[d] : Begun(sent[d][k].n)' /\ mission'[sent'[d][k].n].c = d
        BY <3>3, <3>5 DEF Begun
      <3>8. \A k \in DOMAIN Q(d)' : IsSub(Q(d)[k])' => (Begun(Q(d)[k].n)' /\ mission'[Q(d)'[k].n].c = d)
        BY <3>3, <3>6 DEF Begun, IsSub
      <3> QED
        BY <1>1, <3>1, <3>2, <3>3, <3>7, <3>8 DEF PipeAt
    <2> QED
      BY <2>1, <2>2
  <1>3. AllKept'
    <2> SUFFICES ASSUME NEW n \in Missions, Begun(n)', ~Ended(mission[n].c)'
                 PROVE  Kept(n)'
      BY DEF AllKept
    <2> DEFINE d == mission[n].c
    <2>1. mission'[n].c = d
      OBVIOUS
    <2>2. ~Ended(d)
      <3>1. ~conn'[d].open = ~conn[d].open /\ conn'[d].receiver = conn[d].receiver
        <4>1. d \in Conns
          <5>1. CASE d = c
            BY <5>1
          <5>2. CASE d # c
            BY <5>2, MissionsConn DEF Begun
          <5> QED
            BY <5>1, <5>2
        <4> QED
          BY <4>1
      <3> QED
        BY <2>1, <3>1 DEF Ended
    <2>3. CASE d = c
      BY <2>2, <2>3
    <2>4. CASE d # c
      <3>1. mission'[n] = mission[n] /\ thread'[n] = thread[n] /\ Begun(n)
        BY <2>4 DEF Begun
      <3>2. Kept(n) /\ d \in Conns
        BY <2>2, <3>1, MissionsConn DEF PipeInv, AllKept, Begun
      <3>3. processor'[d] = processor[d] /\ sent'[d] = sent[d]
        BY <2>4, <3>2
      <3> QED
        BY <2>1, <3>1, <3>2, <3>3 DEF Kept, Q
    <2> QED
      BY <2>3, <2>4
  <1> QED
    BY <1>2, <1>3, PipeIsAt DEF PipeInv, OwnOnly, Ordered, ClosedEnds, BestKept, PipeAt

LEMMA TakePipe ==
  ASSUME RoundInv, PipeInv, NEW n \in Missions, mission[n].pc = "offered",
         mission' = [mission EXCEPT ![n].pc = "mining"],
         \A d \in Conns : conn'[d].open = conn[d].open /\ conn'[d].receiver = conn[d].receiver,
         UNCHANGED <<processor, thread, sent>>
  PROVE  PipeInv'
  <1>1. PICK c \in Conns : c = mission[n].c
    BY MissionsConn
  <1>2. /\ mission'[n].pc = "mining" /\ mission'[n].c = c
        /\ \A k \in Missions : k # n => mission'[k] = mission[k]
    BY <1>1 DEF RoundInv, Types, MissionType
  <1>3. PipeAt(c) /\ ThreadsIdle
    BY PipeIsAt
  <1>4. \A k \in Missions : mission[k].c = c => ~Mines(k, c)
    BY <1>1 DEF RoundInv, OneAtATime, Active, Mines
  <1>5. /\ \A k \in DOMAIN sent[c] : sent[c][k].n # n
        /\ \A k \in DOMAIN Q(c) : IsSub(Q(c)[k]) => Q(c)[k].n # n
    BY <1>3 DEF PipeAt, Begun
  <1>6. Q(c)' = Q(c) /\ B(c)' = B(c) /\ (Closed(c)' <=> Closed(c)) /\ (Ended(c)' <=> Ended(c))
    BY DEF Q, B, Closed, Ended
  <1>7. \A k \in Missions : Mines(k, c)' => k = n
    BY <1>2, <1>4 DEF Mines
  <1>8. B(c) \in Nat /\ Q(c) \in Seq(Item)
    BY SolutionsHaveMissions
  <1>9. MayFollow(Q(c), B(c), sent[c], n, Len(Q(c)) + 1)
    <2>1. NoneOf(sent[c], n) /\ AtMost(sent[c], n, B(c))
      BY <1>5 DEF NoneOf, AtMost
    <2>2. \A j \in 1..(Len(Q(c)) + 1 - 1) : j \in DOMAIN Q(c)
      BY <1>8
    <2> QED
      BY <1>5, <2>1, <2>2 DEF MayFollow
  <1>10. ~Ended(c) => TipIs(Q(c), B(c), sent[c], n)
    BY <1>3, <1>4, <1>8, NoTipIsAny DEF PipeAt, Mines
  <1>11. PipeAt(c)'
    <2>1. \A k \in DOMAIN sent[c] : Begun(sent[c][k].n)' /\ mission'[sent[c][k].n].c = c
      BY <1>2, <1>3, <1>5, SolutionsHaveMissions DEF PipeAt, Begun
    <2>2. \A k \in DOMAIN Q(c) : IsSub(Q(c)[k]) =>
            (Begun(Q(c)[k].n)' /\ mission'[Q(c)[k].n].c = c)
      BY <1>2, <1>3, <1>5, <1>6, SolutionsHaveMissions DEF PipeAt, Begun
    <2>3. \A k \in DOMAIN Q(c)' : IsSub(Q(c)[k])' =>
            (Begun(Q(c)[k].n)' /\ mission'[Q(c)'[k].n].c = c)
      BY <1>6, <2>2 DEF IsSub
    <2>4. Mines(n, c)'
      BY <1>2 DEF Mines
    <2> QED
      BY <1>3, <1>6, <1>7, <1>9, <1>10, <2>1, <2>3, <2>4 DEF PipeAt
  <1>12. ThreadsIdle'
    BY <1>2, <1>3 DEF ThreadsIdle
  <1>13. thread[n] = NoThreads
    BY <1>3 DEF ThreadsIdle
  <1>14. ASSUME NEW k \in Missions, mission[k].c = c, Begun(k)', ~Ended(c)
         PROVE  Kept(k)'
    <2>1. CASE k = n
      <3>1. \A t \in Workers : thread[n][t] = 0
        BY <1>13 DEF NoThreads
      <3>2. \A v : Bounded(Q(c), sent[c], n, v)
        BY <1>5 DEF Bounded, AtMost
      <3> QED
        BY <1>2, <1>6, <2>1, <3>1, <3>2 DEF Kept, Covered
    <2>2. CASE k # n
      <3>1. mission'[k] = mission[k] /\ Begun(k)
        BY <1>2, <1>14, <2>2 DEF Begun
      <3>2. Kept(k)
        BY <1>14, <3>1 DEF PipeInv, AllKept
      <3> QED
        BY <1>6, <1>14, <3>1, <3>2 DEF Kept
    <2> QED
      BY <2>1, <2>2
  <1>15. \A k \in Missions :
           /\ mission'[k].c = mission[k].c
           /\ mission[k].c # c => (mission'[k] = mission[k] /\ thread'[k] = thread[k])
    BY <1>1, <1>2
  <1>16. \A d \in Conns : d # c => (processor'[d] = processor[d] /\ sent'[d] = sent[d])
    OBVIOUS
  <1> QED
    BY <1>11, <1>12, <1>14, <1>15, <1>16, PipeElsewhere

(* A mission's own solution is queued, by one of its threads or when they *)
(* have been joined.                                                      *)
LEMMA QueuedSolution ==
  ASSUME NEW q, NEW r, NEW b, NEW s, NEW item, Extended(q, r, item), IsSub(item),
         NEW n, item.n = n
  PROVE  /\ (InOrder(q, b, s) /\ MayFollow(q, b, s, n, Len(q) + 1)) =>
              (InOrder(r, b, s) /\ MayFollow(r, b, s, n, Len(r) + 1))
         /\ (BestIsOf(q, b, s) /\ TipIs(q, b, s, n)) =>
              (BestIsOf(r, b, s) /\ TipIs(r, b, s, n))
  <1>1. item.kind # "Reset"
    BY DEF IsSub
  <1> QED
    BY <1>1, OrderExtended, FollowExtended, BestExtended, TipExtended

LEMMA HashPipe ==
  ASSUME RoundInv, PipeInv, NEW n \in Missions, NEW t \in Workers,
         NEW difficulty \in Difficulties, Hash(n, t, difficulty)
  PROVE  PipeInv'
  <1> DEFINE item == Submission(n, difficulty)
  <1>1. PICK c \in Conns : c = mission[n].c
    BY MissionsConn DEF Hash
  <1>2. /\ mission[n].pc = "mining" /\ difficulty \in Nat /\ difficulty > thread[n][t]
        /\ UNCHANGED <<running, main, conn, mission, sent>>
        /\ thread' = [thread EXCEPT ![n][t] = difficulty]
        /\ Sends(c, <<item>>)
    BY <1>1, DifficultiesAssumption DEF Hash
  <1>3. item \in Item /\ IsSub(item) /\ item.n = n /\ item.difficulty = difficulty /\ item # Finish
    BY <1>2, ItemsHaveType DEF IsSub, Finish
  <1> HIDE DEF item
  <1>4. /\ \A d \in Conns : /\ processor'[d].pc = processor[d].pc
                            /\ processor'[d].best = processor[d].best
                            /\ d # c => processor'[d] = processor[d]
        /\ Closed(c) => processor' = processor
        /\ ~Closed(c) => Extended(Q(c), Q(c)', item)
    <2>1. Types /\ <<item>> \in Seq(Item)
      BY <1>3 DEF RoundInv
    <2>2. processor[c].queue \o <<item>> = Append(processor[c].queue, item)
      BY <1>3, AppendIsConcat, SolutionsHaveMissions DEF Q
    <2>3. Extended(Q(c), Append(Q(c), item), item)
      BY <1>3, AppendExtends, SolutionsHaveMissions
    <2> QED
      BY <1>2, <2>1, <2>2, <2>3, SendsIs DEF Q
  <1>5. PipeAt(c) /\ ThreadsIdle
    BY PipeIsAt
  <1>6. Mines(n, c) /\ \A k \in Missions : Mines(k, c) => k = n
    BY <1>1, <1>2 DEF RoundInv, OneAtATime, Active, Mines
  <1>7. B(c)' = B(c) /\ (Ended(c)' <=> Ended(c))
    BY <1>2, <1>4 DEF B, Ended
  <1>8. \A k \in Missions : Mines(k, c)' <=> Mines(k, c)
    BY <1>2 DEF Mines
  <1>9. /\ \A k \in Missions : k # n => thread'[k] = thread[k]
        /\ \A u \in Workers : u # t => thread'[n][u] = thread[n][u]
        /\ thread'[n][t] = difficulty
    BY <1>2 DEF RoundInv, Types
  <1>10. ThreadsIdle'
    BY <1>2, <1>5, <1>9 DEF ThreadsIdle
  <1>11. \A k \in Missions :
           /\ mission'[k].c = mission[k].c
           /\ mission[k].c # c => (mission'[k] = mission[k] /\ thread'[k] = thread[k])
    BY <1>1, <1>2, <1>9
  <1>12. \A d \in Conns : /\ conn'[d].open = conn[d].open /\ conn'[d].receiver = conn[d].receiver
                          /\ d # c => (processor'[d] = processor[d] /\ sent'[d] = sent[d])
    BY <1>2, <1>4
  <1>13. Closed(c) => Ended(c)
    BY <1>5 DEF PipeAt
  <1>14. CASE Closed(c)
    <2>1. Q(c)' = Q(c) /\ (Closed(c)' <=> Closed(c)) /\ processor'[c].pc = processor[c].pc
      BY <1>4, <1>14 DEF Q, Closed
    <2>2. PipeAt(c)'
      BY <1>2, <1>5, <1>7, <1>8, <2>1 DEF PipeAt, Begun, IsSub
    <2> QED
      BY <1>10, <1>11, <1>12, <1>13, <1>14, <2>2, PipeElsewhere
  <1>15. CASE ~Closed(c)
    <2> DEFINE q == Q(c)
               r == Q(c)'
               s == sent[c]
    <2>1. Extended(q, r, item)
      BY <1>4, <1>15
    <2>2. \A k \in DOMAIN r : r[k] = item \/ (k \in DOMAIN q /\ r[k] = q[k])
      BY <2>1 DEF Extended
    <2>3. processor[c].pc # "done" /\ (\A k \in DOMAIN q : q[k] # Finish)
      BY <1>15, ClosedByFinish
    <2>4. ~Closed(c)'
      <3>1. \A k \in DOMAIN r : r[k] # Finish
        BY <1>3, <2>2, <2>3
      <3> QED
        BY <1>4, <2>3, <3>1 DEF Closed, ToSet, Q
    <2>5. InOrder(q, B(c), s) /\ MayFollow(q, B(c), s, n, Len(q) + 1)
      BY <1>5, <1>6, <2>3 DEF PipeAt
    <2>6. InOrder(r, B(c), s) /\ MayFollow(r, B(c), s, n, Len(r) + 1)
      BY <1>3, <2>1, <2>5, QueuedSolution
    <2>7. ~Ended(c) => (BestIsOf(r, B(c), s) /\ TipIs(r, B(c), s, n))
      BY <1>3, <1>5, <1>6, <2>1, QueuedSolution DEF PipeAt
    <2>8. \A k \in DOMAIN q : IsSub(q[k]) => (Begun(q[k].n) /\ mission[q[k].n].c = c)
      BY <1>5 DEF PipeAt
    <2>9. \A k \in DOMAIN r : IsSub(r[k]) => (Begun(r[k].n) /\ mission[r[k].n].c = c)
      BY <1>1, <1>2, <1>3, <2>2, <2>8 DEF Begun
    <2>10. PipeAt(c)'
      BY <1>2, <1>5, <1>6, <1>7, <1>8, <2>4, <2>6, <2>7, <2>9 DEF PipeAt, Begun, IsSub
    <2>11. ASSUME NEW k \in Missions, mission[k].c = c, Begun(k)', ~Ended(c)
           PROVE  Kept(k)'
      <3>1. Kept(k) /\ Begun(k)
        BY <1>2, <2>11 DEF PipeInv, AllKept, Begun
      <3>2. /\ \A v : Covered(q, s, k, v) => Covered(r, s, k, v)
            /\ \A v : (Bounded(q, s, k, v) /\ (k = n => difficulty <= v)) => Bounded(r, s, k, v)
            /\ Covered(r, s, n, difficulty)
        BY <1>2, <1>3, <2>1, CoveredExtended
      <3>3. CASE k # n
        BY <1>2, <1>9, <2>11, <3>1, <3>2, <3>3 DEF Kept
      <3>4. CASE k = n
        <4>1. ASSUME NEW u \in Workers
              PROVE  Covered(r, s, n, thread'[n][u])
          BY <1>1, <1>2, <1>9, <3>1, <3>2, <3>4 DEF Kept
        <4>2. ASSUME NEW v \in Nat, \A u \in Workers : thread'[n][u] <= v
              PROVE  Bounded(r, s, n, v)
          <5>1. difficulty <= v
            BY <1>9, <4>2
          <5>2. thread[n][t] \in Nat /\ thread[n][t] <= v
            BY <1>2, <5>1 DEF RoundInv, Types
          <5>3. \A u \in Workers : thread[n][u] <= v
            BY <1>9, <4>2, <5>2
          <5>4. Bounded(q, s, n, v)
            BY <1>1, <1>2, <3>1, <3>4, <5>3 DEF Kept
          <5> QED
            BY <3>2, <3>4, <5>1, <5>4
        <4> QED
          BY <1>1, <1>2, <3>4, <4>1, <4>2 DEF Kept
      <3> QED
        BY <3>3, <3>4
    <2> QED
      BY <1>10, <1>11, <1>12, <2>10, <2>11, PipeElsewhere
  <1> QED
    BY <1>14, <1>15

LEMMA JoinPipe ==
  ASSUME RoundInv, PipeInv, NEW n \in Missions, JoinThreads(n)
  PROVE  PipeInv'
  <1>1. PICK c \in Conns : c = mission[n].c
    BY MissionsConn DEF JoinThreads
  <1>2. PICK results \in SUBSET Workers :
          Sends(c, <<Submission(n, BestOf(n, results)), Reset>>)
    BY <1>1 DEF JoinThreads
  <1> DEFINE best == BestOf(n, Workers)
             item == Submission(n, BestOf(n, results))
  <1>3. /\ best \in Nat /\ (best = 0 \/ \E t \in Workers : best = thread[n][t])
        /\ \A t \in Workers : thread[n][t] <= best
    BY BestOfIs DEF RoundInv
  <1>4. BestOf(n, results) \in Nat /\ BestOf(n, results) <= best
    BY <1>3, BestOfIs DEF RoundInv
  <1>5. /\ item \in Item /\ IsSub(item) /\ item.n = n /\ item.difficulty <= best /\ item # Finish
        /\ Reset \in Item /\ ~IsSub(Reset) /\ Reset.kind = "Reset" /\ Reset # Finish
    BY <1>4, ItemsHaveType DEF IsSub, Finish, Reset
  <1>6. /\ mission[n].pc = "mining" /\ UNCHANGED <<running, main, conn, sent>>
        /\ mission'[n].pc = "ready" /\ mission'[n].c = c /\ mission'[n].best = best
        /\ \A k \in Missions : k # n => (mission'[k] = mission[k] /\ thread'[k] = thread[k])
        /\ thread'[n] = NoThreads
    BY <1>1 DEF JoinThreads, RoundInv, Types, MissionType
  <1>7. Sends(c, <<item, Reset>>)
    BY <1>2
  <1> HIDE DEF item, best
  <1>8. PipeAt(c) /\ ThreadsIdle
    BY PipeIsAt
  <1>9. Mines(n, c) /\ \A k \in Missions : Mines(k, c) => k = n
    BY <1>1, <1>6 DEF RoundInv, OneAtATime, Active, Mines
  <1>10. \A k \in Missions : ~Mines(k, c)'
    BY <1>6, <1>9 DEF Mines
  <1>11. <<item, Reset>> \in Seq(Item)
    BY <1>5
  <1>12. /\ \A d \in Conns : /\ processor'[d].pc = processor[d].pc
                             /\ processor'[d].best = processor[d].best
                             /\ d # c => processor'[d] = processor[d]
         /\ Closed(c) => processor' = processor
         /\ ~Closed(c) => processor'[c].queue = processor[c].queue \o <<item, Reset>>
    BY <1>7, <1>11, SendsIs DEF RoundInv
  <1>13. B(c)' = B(c) /\ (Ended(c)' <=> Ended(c))
    BY <1>6, <1>12 DEF B, Ended
  <1>14. ThreadsIdle'
    BY <1>6, <1>8 DEF ThreadsIdle
  <1>15. \A k \in Missions :
           /\ mission'[k].c = mission[k].c
           /\ mission[k].c # c => (mission'[k] = mission[k] /\ thread'[k] = thread[k])
    BY <1>1, <1>6
  <1>16. \A d \in Conns : /\ conn'[d].open = conn[d].open /\ conn'[d].receiver = conn[d].receiver
                          /\ d # c => (processor'[d] = processor[d] /\ sent'[d] = sent[d])
    BY <1>6, <1>12
  <1>17. \A k \in Missions : Begun(k) => (Begun(k)' /\ mission'[k].c = mission[k].c)
    BY <1>6, <1>15 DEF Begun
  <1>18. \A k \in DOMAIN sent[c] : Begun(sent[c][k].n)' /\ mission'[sent[c][k].n].c = c
    BY <1>6, <1>8, <1>17, SolutionsHaveMissions DEF PipeAt, Begun
  <1>19. CASE Closed(c)
    <2>1. Q(c)' = Q(c) /\ (Closed(c)' <=> Closed(c)) /\ processor'[c].pc = processor[c].pc
      BY <1>12, <1>19 DEF Q, Closed
    <2>2. Ended(c)
      BY <1>8, <1>19 DEF PipeAt
    <2>3. \A k \in DOMAIN Q(c)' : IsSub(Q(c)[k])' => (Begun(Q(c)[k].n)' /\ mission'[Q(c)'[k].n].c = c)
      BY <1>8, <1>17, <2>1, SolutionsHaveMissions DEF PipeAt, Begun, IsSub
    <2>4. PipeAt(c)'
      BY <1>6, <1>8, <1>10, <1>13, <1>18, <2>1, <2>2, <2>3 DEF PipeAt
    <2> QED
      BY <1>14, <1>15, <1>16, <2>2, <2>4, PipeElsewhere
  <1>20. CASE ~Closed(c)
    <2> DEFINE q == Q(c)
               p == Append(q, item)
               r == Q(c)'
               s == sent[c]
               b == B(c)
    <2>1. q \in Seq(Item) /\ processor[c].queue = q
      BY SolutionsHaveMissions DEF Q
    <2>2. p \in Seq(Item) /\ Extended(q, p, item)
      BY <1>5, <2>1, AppendExtends
    <2>3. r = Append(p, Reset)
      <3>1. q \o <<item, Reset>> = Append(Append(q, item), Reset)
        <4>1. q \o <<item, Reset>> = (q \o <<item>>) \o <<Reset>>
          <5>1. <<item, Reset>> = <<item>> \o <<Reset>>
            OBVIOUS
          <5>2. <<item>> \in Seq(Item) /\ <<Reset>> \in Seq(Item)
            BY <1>5
          <5> QED
            BY <2>1, <5>1, <5>2, ConcatAssociative
        <4>2. q \o <<item>> = Append(q, item)
          BY <1>5, <2>1, AppendIsConcat
        <4>3. Append(q, item) \o <<Reset>> = Append(Append(q, item), Reset)
          BY <1>5, <2>2, AppendIsConcat
        <4> QED
          BY <4>1, <4>2, <4>3
      <3> QED
        BY <1>12, <1>20, <2>1, <3>1 DEF Q
    <2>4. Extended(p, r, Reset)
      BY <1>5, <2>2, <2>3, AppendExtends
    <2> HIDE DEF p
    <2>5. /\ \A k \in DOMAIN p : p[k] = item \/ (k \in DOMAIN q /\ p[k] = q[k])
          /\ \A k \in DOMAIN r : r[k] = Reset \/ (k \in DOMAIN p /\ r[k] = p[k])
      BY <2>2, <2>4 DEF Extended
    <2>6. processor[c].pc # "done" /\ (\A k \in DOMAIN q : q[k] # Finish)
      BY <1>20, ClosedByFinish
    <2>7. ~Closed(c)'
      <3>1. \A k \in DOMAIN r : r[k] # Finish
        BY <1>5, <2>5, <2>6
      <3> QED
        BY <1>12, <2>6, <3>1 DEF Closed, ToSet, Q
    <2>8. InOrder(r, b, s)
      <3>1. InOrder(p, b, s)
        BY <1>5, <1>8, <1>9, <2>2, <2>6, QueuedSolution DEF PipeAt
      <3> QED
        BY <1>5, <2>4, <3>1, OrderExtended
    <2>9. ~Ended(c) => (BestIsOf(r, b, s) /\ NoTip(r, b))
      <3>1. ~Ended(c) => BestIsOf(p, b, s)
        BY <1>5, <1>8, <1>9, <2>2, QueuedSolution DEF PipeAt
      <3> QED
        BY <1>5, <2>4, <3>1, BestExtended, TipReset
    <2>10. \A k \in DOMAIN r : IsSub(r[k]) =>
             (mission'[r[k].n].pc \in {"mining", "ready", "done"} /\ mission'[r[k].n].c = c)
      <3>1. \A k \in DOMAIN q : IsSub(q[k]) =>
              (Begun(q[k].n) /\ mission[q[k].n].c = c /\ q[k].n \in Missions)
        BY <1>8, SolutionsHaveMissions DEF PipeAt
      <3>2. \A k \in Missions : Begun(k) => mission'[k].pc \in {"mining", "ready", "done"}
        BY <1>17 DEF Begun
      <3>3. \A k \in DOMAIN q : IsSub(q[k]) =>
              (mission'[q[k].n].pc \in {"mining", "ready", "done"} /\ mission'[q[k].n].c = c)
        BY <1>15, <3>1, <3>2
      <3>4. \A k \in DOMAIN r : IsSub(r[k]) => (r[k] = item \/ (k \in DOMAIN q /\ r[k] = q[k]))
        BY <1>5, <2>5
      <3> QED
        BY <1>5, <1>6, <3>3, <3>4
    <2>11. PipeAt(c)'
      BY <1>6, <1>8, <1>10, <1>13, <1>18, <2>7, <2>8, <2>9, <2>10 DEF PipeAt, Begun, IsSub
    <2>12. ASSUME NEW k \in Missions, mission[k].c = c, Begun(k)', ~Ended(c)
           PROVE  Kept(k)'
      <3>1. Kept(k)
        BY <1>6, <2>12 DEF PipeInv, AllKept, Begun
      <3>2. \A v : Covered(q, s, k, v) => Covered(r, s, k, v)
        BY <2>2, <2>4, CoveredExtended
      <3>3. \A v \in Nat : (Bounded(q, s, k, v) /\ (k = n => best <= v)) => Bounded(r, s, k, v)
        <4> SUFFICES ASSUME NEW v \in Nat, Bounded(q, s, k, v), k = n => best <= v
                     PROVE  Bounded(r, s, k, v)
          OBVIOUS
        <4>1. k = n => item.difficulty <= v
          BY <1>3, <1>5, ItemsHaveType, <1>4 DEF item
        <4>2. Bounded(p, s, k, v)
          BY <1>5, <2>2, <4>1, CoveredExtended
        <4> QED
          BY <1>5, <2>4, <4>2, CoveredExtended
      <3>4. CASE k # n
        <4>1. mission'[k] = mission[k] /\ thread'[k] = thread[k] /\ mission[k].pc # "mining"
          BY <1>6, <1>9, <2>12, <3>4 DEF Mines
        <4>2. mission[k].best \in Nat
          BY DEF RoundInv, Types, MissionType
        <4> QED
          BY <1>6, <2>12, <3>1, <3>2, <3>3, <3>4, <4>1, <4>2 DEF Kept
      <3>5. CASE k = n
        <4>1. Covered(q, s, n, best)
          BY <1>1, <1>3, <1>6, <3>1, <3>5 DEF Kept, Covered
        <4>2. Bounded(q, s, n, best)
          BY <1>1, <1>3, <1>6, <3>1, <3>5 DEF Kept
        <4>3. Covered(r, s, n, best) /\ Bounded(r, s, n, best)
          BY <1>3, <3>2, <3>3, <3>5, <4>1, <4>2
        <4> QED
          BY <1>6, <3>5, <4>3 DEF Kept
      <3> QED
        BY <3>4, <3>5
    <2> QED
      BY <1>14, <1>15, <1>16, <2>11, <2>12, PipeElsewhere
  <1> QED
    BY <1>19, <1>20

LEMMA ProcessPipe ==
  ASSUME RoundInv, PipeInv, NEW c \in Conns, Process(c)
  PROVE  PipeInv'
  <1> DEFINE q == Q(c)
             r == Q(c)'
             b == B(c)
             b2 == B(c)'
             s == sent[c]
             s2 == sent'[c]
  <1>1. /\ UNCHANGED <<running, main, conn, mission, thread>>
        /\ \A d \in Conns : d # c => (processor'[d] = processor[d] /\ sent'[d] = sent[d])
        /\ processor[c].pc = "recv"
        /\ Popped(q, r) /\ q[1] \in Item
        /\ IsSub(q[1]) => q[1] \in Submissions
        /\ processor'[c].pc = IF q[1].kind = "Finish" THEN "done" ELSE "recv"
        /\ \/ IsSub(q[1]) /\ Sent(b, b2, s, s2, q[1])
           \/ ~IsSub(q[1]) /\ s2 = s /\ b2 = 0
        /\ (IsSub(q[1]) /\ conn[c].open) => SentOpen(b, b2, s, s2, q[1])
    BY ProcessIs
  <1>2. PipeAt(c) /\ ThreadsIdle
    BY PipeIsAt
  <1>3. s \in Seq(Submissions) /\ b \in Nat
    BY SolutionsHaveMissions
  <1>4. /\ Len(q) \in Nat \ {0} /\ Len(r) + 1 = Len(q) /\ 1 \in DOMAIN q /\ Len(q) \in 1..Len(q)
        /\ \A k \in DOMAIN r : k + 1 \in DOMAIN q /\ r[k] = q[k + 1]
    BY <1>1 DEF Popped
  <1>5. (q[1].kind = "Finish" <=> q[1] = Finish) /\ (~IsSub(q[1]) => (q[1] = Finish \/ q[1].kind = "Reset"))
    BY <1>1 DEF Item, Submissions, Finish, Reset, IsSub
  <1>6. \A k \in DOMAIN s2 : (s2[k] = q[1] /\ IsSub(q[1])) \/ (k \in DOMAIN s /\ s2[k] = s[k])
    <2>1. CASE s2 = s
      BY <2>1
    <2>2. CASE s2 # s
      <3>1. s2 = Append(s, q[1]) /\ q[1] \in Submissions /\ IsSub(q[1])
        BY <1>1, <2>2 DEF Sent
      <3> QED
        BY <1>3, <3>1
    <2> QED
      BY <2>1, <2>2
  <1>7. /\ \A k \in DOMAIN s2 : Begun(s2[k].n) /\ mission[s2[k].n].c = c
        /\ \A k \in DOMAIN r : IsSub(r[k]) => (Begun(r[k].n) /\ mission[r[k].n].c = c)
    BY <1>2, <1>4, <1>6 DEF PipeAt
  <1>8. \A n \in Missions : (Mines(n, c)' <=> Mines(n, c)) /\ (Begun(n)' <=> Begun(n))
    BY <1>1 DEF Mines, Begun
  <1>9. Ended(c)' <=> Ended(c)
    BY <1>1 DEF Ended
  <1>10. InOrder(q, b, s) /\ \A n \in Missions : Mines(n, c) => MayFollow(q, b, s, n, Len(q) + 1)
    BY <1>1, <1>2 DEF PipeAt
  <1>11. CASE q[1].kind = "Finish"
    <2>1. Ended(c)
      <3>1. Closed(c)
        BY <1>4, <1>5, <1>11, ClosedByFinish
      <3> QED
        BY <1>2, <3>1 DEF PipeAt
    <2>2. processor'[c].pc = "done" /\ s2 = s
      BY <1>1, <1>11 DEF IsSub
    <2>3. PipeAt(c)'
      BY <1>1, <1>2, <1>7, <1>9, <2>1, <2>2 DEF PipeAt, Begun, IsSub
    <2> QED
      BY <1>1, <1>2, <1>9, <2>1, <2>3, PipeElsewhere DEF ThreadsIdle
  <1>12. CASE q[1].kind # "Finish"
    <2>1. \/ IsSub(q[1]) /\ q[1].n \in Missions /\ Sent(b, b2, s, s2, q[1])
          \/ q[1].kind = "Reset" /\ s2 = s /\ b2 = 0
      BY <1>1, <1>5, <1>12 DEF Submissions
    <2>2. InOrder(r, b2, s2)
      BY <1>1, <1>3, <1>10, <2>1, OrderPopped
    <2>3. \A n \in Missions : Mines(n, c) => MayFollow(r, b2, s2, n, Len(r) + 1)
      BY <1>1, <1>3, <1>4, <1>10, <2>1, FollowPopped
    <2>4. Closed(c)' => Closed(c)
      <3>1. processor'[c].pc # "done"
        BY <1>1, <1>12
      <3>2. (\E k \in DOMAIN r : r[k] = Finish) => (\E k \in DOMAIN q : q[k] = Finish)
        BY <1>4
      <3>3. Closed(c)' => (\E k \in DOMAIN r : r[k] = Finish)
        BY <3>1 DEF Closed, ToSet, Q
      <3> QED
        BY <3>2, <3>3, ClosedByFinish
    <2>5. ~Ended(c) => OpenStep(q, b, b2, s, s2)
      BY <1>1, <1>5, <1>12 DEF OpenStep, Ended
    <2>6. ~Ended(c) =>
            /\ BestIsOf(q, b, s)
            /\ BestIsOf(r, b2, s2)
            /\ \A n \in Missions : Mines(n, c) => TipIs(r, b2, s2, n)
            /\ (\A n \in Missions : ~Mines(n, c)) => NoTip(r, b2)
      <3> SUFFICES ASSUME ~Ended(c)
                   PROVE  /\ BestIsOf(q, b, s)
                          /\ BestIsOf(r, b2, s2)
                          /\ \A n \in Missions : Mines(n, c) => TipIs(r, b2, s2, n)
                          /\ (\A n \in Missions : ~Mines(n, c)) => NoTip(r, b2)
        OBVIOUS
      <3>1. /\ BestIsOf(q, b, s)
            /\ \A n \in Missions : Mines(n, c) => TipIs(q, b, s, n)
            /\ (\A n \in Missions : ~Mines(n, c)) => NoTip(q, b)
        BY <1>2 DEF PipeAt
      <3>2. OpenStep(q, b, b2, s, s2)
        BY <2>5
      <3>3. /\ BestIsOf(r, b2, s2)
            /\ \A n : TipIs(q, b, s, n) => TipIs(r, b2, s2, n)
            /\ NoTip(q, b) => NoTip(r, b2)
        BY <1>1, <1>3, <3>1, <3>2, BestPopped
      <3> QED
        BY <3>1, <3>3
    <2>7. PipeAt(c)'
      BY <1>1, <1>2, <1>7, <1>8, <1>9, <2>2, <2>3, <2>4, <2>6 DEF PipeAt, Begun, IsSub, InOrder
    <2>8. ASSUME NEW n \in Missions, mission[n].c = c, Begun(n)', ~Ended(c)
          PROVE  Kept(n)'
      <3>1. Kept(n)
        BY <1>8, <2>8 DEF PipeInv, AllKept
      <3>2. \A v \in Nat : /\ Covered(q, s, n, v) => Covered(r, s2, n, v)
                           /\ Bounded(q, s, n, v) => Bounded(r, s2, n, v)
        BY <1>1, <1>3, <2>5, <2>6, <2>8, CoveredPopped
      <3>3. mission[n].best \in Nat /\ \A t \in Workers : thread[n][t] \in Nat
        BY DEF RoundInv, Types, MissionType
      <3> QED
        BY <1>1, <2>8, <3>1, <3>2, <3>3 DEF Kept
    <2> QED
      BY <1>1, <1>2, <2>7, <2>8, PipeElsewhere DEF ThreadsIdle
  <1> QED
    BY <1>11, <1>12

(* A Finish is queued for a connection that has ended. *)
LEMMA FinishFrames ==
  ASSUME RoundInv, NEW c \in Conns, Sends(c, <<Finish>>), Ended(c)'
  PROVE  \A d \in Conns :
           /\ B(d)' = B(d) /\ processor'[d].pc = processor[d].pc
           /\ Q(d)' = Q(d) \/ (Extended(Q(d), Q(d)', Finish) /\ Ended(d)')
  BY FinishIsSent DEF RoundInv, B, Q

LEMMA ConnectPipe ==
  ASSUME RoundInv, PipeInv, Connect
  PROVE  PipeInv'
  <1>1. PICK c \in Conns : c = main.c + 1 /\ main.c \in 0..MaxConnections
    <2>1. main.c + 1 \in Conns /\ main.c \in 0..MaxConnections
      BY BoundsAssumption DEF Connect, RoundInv, Types, Conns
    <2> QED
      BY <2>1
  <1>2. processor[c] = NoProcessor /\ c > main.c
    BY <1>1 DEF RoundInv, FutureIsNew
  <1>3. /\ UNCHANGED <<running, mission, thread, sent>>
        /\ \A d \in Conns : d # c => (processor'[d] = processor[d] /\ conn'[d] = conn[d])
        /\ processor'[c] = [NoProcessor EXCEPT !.pc = "recv"]
    BY <1>1, <1>2 DEF Connect, RoundInv, Types
  <1>4. RoundInv'
    BY ConnectRound
  <1>5. \A n \in Missions : Begun(n) => mission[n].c # c
    <2>1. \A n \in Missions : Begun(n) => mission[n].c <= main.c
      BY MissionsConn DEF Begun
    <2>2. \A n \in Missions : mission[n].c \in Nat
      BY BoundsAssumption DEF RoundInv, Types, MissionType
    <2>3. main.c \in Nat /\ c > main.c
      BY <1>1, BoundsAssumption
    <2> QED
      BY <2>1, <2>2, <2>3
  <1>6. /\ B(c)' = B(c) /\ Q(c)' = Q(c) /\ processor'[c].pc # "done" /\ processor[c].pc # "done"
        /\ Q(c) = <<>> /\ B(c) = 0
    <2>1. NoProcessor.pc = "off" /\ NoProcessor.queue = <<>> /\ NoProcessor.best = 0
      BY DEF NoProcessor
    <2> DEFINE p == [NoProcessor EXCEPT !.pc = "recv"]
    <2>2. p.pc = "recv" /\ p.queue = NoProcessor.queue /\ p.best = NoProcessor.best
      BY DEF NoProcessor
    <2>3. processor'[c] = p
      BY <1>3
    <2> HIDE DEF p
    <2> QED
      BY <1>2, <2>1, <2>2, <2>3 DEF B, Q
  <1>7. Fresh(c)
    BY <1>5, <1>6 DEF Fresh
  <1>8. \A d \in Conns : d # c => (B(d)' = B(d) /\ Q(d)' = Q(d) /\ (Ended(d) => Ended(d)')
                                   /\ processor'[d].pc = processor[d].pc)
    BY <1>3 DEF B, Q, Ended
  <1>9. \A n \in Missions : Begun(n)' <=> Begun(n)
    BY <1>3 DEF Begun
  <1>10. \A d \in Conns :
           /\ B(d)' = B(d)
           /\ (processor'[d].pc = "done") <=> (processor[d].pc = "done")
           /\ Q(d)' = Q(d)
           /\ Ended(d) => (Ended(d)' \/ Fresh(d))
    BY <1>6, <1>7, <1>8
  <1> QED
    BY <1>3, <1>4, <1>9, <1>10, PipeFrame DEF RoundInv

LEMMA QuietPipe ==
  ASSUME RoundInv, PipeInv, RoundInv',
         Exit \/ Reconnect \/ CtrlC \/ UNCHANGED vars
  PROVE  PipeInv'
  <1>1. UNCHANGED <<conn, mission, thread, sent>>
    BY DEF Exit, Reconnect, CtrlC, vars
  <1>2. \A d \in Conns : /\ B(d)' = B(d) /\ processor'[d].pc = processor[d].pc
                         /\ Q(d)' = Q(d) \/ (Extended(Q(d), Q(d)', Finish) /\ Ended(d)')
    <2>1. CASE Reconnect
      <3>1. main.c \in Conns
        BY <2>1 DEF Reconnect, RoundInv, Types
      <3>2. PICK c \in Conns : c = main.c
        BY <3>1
      <3>3. Sends(c, <<Finish>>) /\ Ended(c)'
        BY <2>1, <3>2 DEF Reconnect, Ended
      <3> QED
        BY <3>3, FinishFrames
    <2>2. CASE ~Reconnect
      BY <2>2 DEF Exit, CtrlC, vars, B, Q
    <2> QED
      BY <2>1, <2>2
  <1>3. \A d \in Conns : Ended(d)' <=> Ended(d)
    BY <1>1 DEF Ended
  <1>4. \A n \in Missions : Begun(n)' <=> Begun(n)
    BY <1>1 DEF Begun
  <1> QED
    BY <1>1, <1>2, <1>3, <1>4, PipeFrame DEF RoundInv

LEMMA ReceiverPipe ==
  ASSUME RoundInv, PipeInv, RoundInv', NEW c \in Conns,
         \/ ReceiveIdle(c) \/ ReceiveEnd(c) \/ Disconnect(c)
         \/ \E n \in Missions : ReceiveStart(c, n)
  PROVE  PipeInv'
  <1>1. UNCHANGED <<thread, sent>>
    BY DEF ReceiveIdle, ReceiveEnd, ReceiverReturns, Disconnect, ReceiveStart
  <1>2. \A d \in Conns : Ended(d) => Ended(d)'
    <2>1. conn \in [Conns -> ConnType] /\ conn[c] \in ConnType
      BY DEF RoundInv, Types
    <2>2. \A d \in Conns : d # c => conn'[d] = conn[d]
      BY <2>1 DEF ReceiveIdle, ReceiveEnd, ReceiverReturns, Disconnect, ReceiveStart
    <2>3. CASE ReceiverReturns(c) \/ Disconnect(c)
      <3>1. Ended(c)'
        BY <2>1, <2>3 DEF ReceiverReturns, Disconnect, Ended, ConnType
      <3> QED
        BY <2>2, <3>1 DEF Ended
    <2>4. CASE \E n \in Missions : ReceiveStart(c, n)
      <3>1. ~Ended(c)
        BY <2>4 DEF ReceiveStart, Ended
      <3> QED
        BY <2>2, <3>1 DEF Ended
    <2> QED
      BY <2>3, <2>4 DEF ReceiveIdle, ReceiveEnd
  <1>3. \A d \in Conns : /\ B(d)' = B(d) /\ processor'[d].pc = processor[d].pc
                         /\ Q(d)' = Q(d) \/ (Extended(Q(d), Q(d)', Finish) /\ Ended(d)')
    <2>1. CASE ReceiverReturns(c)
      <3>1. Sends(c, <<Finish>>)
        BY <2>1 DEF ReceiverReturns
      <3>2. Ended(c)'
        BY <2>1 DEF ReceiverReturns, Ended, RoundInv, Types, ConnType
      <3> QED
        BY <3>1, <3>2, FinishFrames
    <2>2. CASE ~ReceiverReturns(c)
      BY <2>2 DEF ReceiveIdle, ReceiveEnd, Disconnect, ReceiveStart, B, Q
    <2> QED
      BY <2>1, <2>2
  <1>4. \A k \in Missions : mission'[k] = mission[k] \/ (mission[k].pc = "none" /\ mission'[k].pc = "offered")
    <2>1. CASE \E n \in Missions : ReceiveStart(c, n)
      <3>1. PICK n \in Missions : ReceiveStart(c, n)
        BY <2>1
      <3>2. mission' = [mission EXCEPT ![n] = [NoMission EXCEPT !.pc = "offered", !.c = c]]
        BY <3>1 DEF ReceiveStart
      <3>3. [NoMission EXCEPT !.pc = "offered", !.c = c].pc = "offered"
        BY DEF NoMission
      <3> QED
        BY <3>1, <3>2, <3>3 DEF ReceiveStart, RoundInv, Types
    <2>2. CASE ~(\E n \in Missions : ReceiveStart(c, n))
      BY <2>2 DEF ReceiveIdle, ReceiveEnd, ReceiverReturns, Disconnect
    <2> QED
      BY <2>1, <2>2
  <1>5. \A k \in Missions : /\ Begun(k)' <=> Begun(k)
                            /\ (mission'[k].pc = "mining") <=> (mission[k].pc = "mining")
                            /\ Begun(k) => mission'[k] = mission[k]
    BY <1>4 DEF Begun
  <1> QED
    BY <1>1, <1>2, <1>3, <1>5, PipeFrame DEF RoundInv

LEMMA SendReadyPipe ==
  ASSUME RoundInv, PipeInv, RoundInv', NEW n \in Missions, SendReady(n)
  PROVE  PipeInv'
  <1>1. PICK c \in Conns : c = mission[n].c
    BY MissionsConn DEF SendReady
  <1>2. UNCHANGED <<thread, sent>>
    BY DEF SendReady
  <1>3. \A d \in Conns : conn'[d].open = conn[d].open /\ conn'[d].receiver = conn[d].receiver
    <2>1. conn \in [Conns -> ConnType] /\ conn[c] \in ConnType
      BY DEF RoundInv, Types
    <2>2. CASE UNCHANGED conn
      BY <2>2
    <2>3. CASE conn' = [conn EXCEPT ![c].ready = @ + 1]
      BY <2>1, <2>3 DEF ConnType
    <2> QED
      BY <1>1, <2>2, <2>3 DEF SendReady
  <1>4. \A d \in Conns : Ended(d)' <=> Ended(d)
    BY <1>3 DEF Ended
  <1>5. \A d \in Conns : /\ B(d)' = B(d) /\ processor'[d].pc = processor[d].pc
                         /\ Q(d)' = Q(d) \/ (Extended(Q(d), Q(d)', Finish) /\ Ended(d)')
    <2>1. CASE UNCHANGED processor
      BY <2>1 DEF B, Q
    <2>2. CASE ~conn[c].open /\ Sends(c, <<Finish>>)
      <3>1. Ended(c)'
        BY <1>4, <2>2 DEF Ended
      <3> QED
        BY <2>2, <3>1, FinishFrames
    <2> QED
      BY <1>1, <2>1, <2>2 DEF SendReady
  <1>6. \A k \in Missions : /\ Begun(k)' <=> Begun(k)
                            /\ (mission'[k].pc = "mining") <=> (mission[k].pc = "mining")
                            /\ mission'[k].c = mission[k].c /\ mission'[k].best = mission[k].best
    BY DEF SendReady, RoundInv, Types, MissionType, Begun
  <1> QED
    BY <1>2, <1>4, <1>5, <1>6, PipeFrame DEF RoundInv

LEMMA PipeStep ==
  ASSUME RoundInv, PipeInv, [Next]_vars
  PROVE  PipeInv'
  <1>1. RoundInv'
    BY RoundStep
  <1>2. CASE Connect \/ Exit \/ Reconnect \/ CtrlC \/ UNCHANGED vars
    BY <1>1, <1>2, ConnectPipe, QuietPipe
  <1>3. CASE TakeMessage
    <2>1. PICK n \in Missions :
            /\ mission[n].pc = "offered"
            /\ mission' = [mission EXCEPT ![n].pc = IF running THEN "mining" ELSE "dropped"]
            /\ \A d \in Conns : /\ conn'[d].open = conn[d].open
                                /\ conn'[d].receiver = conn[d].receiver
      BY <1>3, TakeRound
    <2>2. UNCHANGED <<processor, thread, sent>>
      BY <1>3 DEF TakeMessage
    <2>3. CASE running
      BY <2>1, <2>2, <2>3, TakePipe
    <2>4. CASE ~running
      <3>1. \A k \in Missions : mission'[k] = mission[k] \/ (mission[k].pc = "offered" /\ mission'[k].pc = "dropped")
        BY <2>1, <2>4 DEF RoundInv, Types, MissionType
      <3>2. \A k \in Missions : /\ Begun(k)' <=> Begun(k)
                                /\ (mission'[k].pc = "mining") <=> (mission[k].pc = "mining")
                                /\ Begun(k) => mission'[k] = mission[k]
        BY <3>1 DEF Begun
      <3>3. \A d \in Conns : /\ B(d)' = B(d) /\ processor'[d].pc = processor[d].pc /\ Q(d)' = Q(d)
                             /\ Ended(d) => Ended(d)'
        BY <2>1, <2>2 DEF B, Q, Ended
      <3> QED
        BY <1>1, <2>2, <3>2, <3>3, PipeFrame DEF RoundInv
    <2> QED
      BY <2>3, <2>4
  <1>4. ASSUME NEW c \in Conns, Process(c)
        PROVE  PipeInv'
    BY <1>4, ProcessPipe
  <1>5. ASSUME NEW c \in Conns,
               \/ ReceiveIdle(c) \/ ReceiveEnd(c) \/ Disconnect(c)
               \/ \E n \in Missions : ReceiveStart(c, n)
        PROVE  PipeInv'
    BY <1>1, <1>5, ReceiverPipe
  <1>6. ASSUME NEW n \in Missions, MissionNext(n)
        PROVE  PipeInv'
    BY <1>1, <1>6, HashPipe, JoinPipe, SendReadyPipe DEF MissionNext
  <1> QED
    BY <1>2, <1>3, <1>4, <1>5, <1>6 DEF Next, MainNext

-----------------------------------------------------------------------------
(* The theorems.                                                           *)

MinerInv == RoundInv /\ PipeInv

LEMMA MinerInvHolds == Spec => []MinerInv
  <1>1. Init => MinerInv
    BY RoundInit, PipeInit DEF MinerInv
  <1>2. MinerInv /\ [Next]_vars => MinerInv'
    BY RoundStep, PipeStep DEF MinerInv
  <1> QED
    BY <1>1, <1>2, PTL DEF Spec

(* mine.rs, submission_processor: what a connection sends for a mission     *)
(* gets better and better. Behind the Reset of a mission nothing of it is   *)
(* queued, and before it best_diff is at least what has been sent.          *)
THEOREM IncreasingCorrect == Spec => []SentIncreasing
  <1>1. MinerInv => SentIncreasing
    BY DEF MinerInv, PipeInv, Ordered, Increasing, SentIncreasing
  <1> QED
    BY <1>1, MinerInvHolds, PTL

(* mine.rs, a mission, the receiver and the processor: a connection is not  *)
(* said to be ready while a mission of it is on its way, mined or reported. *)
THEOREM ReadyCorrect == Spec => []ReadyOnlyBetweenMissions
  <1>1. MinerInv => ReadyOnlyBetweenMissions
    BY DEF MinerInv, RoundInv, OneAtATime, Active, ReadyOnlyBetweenMissions
  <1> QED
    BY <1>1, MinerInvHolds, PTL

(* mine.rs, submission_processor: on a connection that lasts, the best       *)
(* solution of a mission is sent. What is dropped is not better than one     *)
(* that was sent before, and that one was of the same mission.               *)
THEOREM BestSentCorrect == Spec => []BestIsSent
  <1>1. MinerInv => BestIsSent
    <2> SUFFICES ASSUME MinerInv, NEW n \in Missions, mission[n].pc = "done", mission[n].best > 0,
                        ~Ended(mission[n].c), ~Pending(mission[n].c, n)
                 PROVE  \E i \in DOMAIN sent[mission[n].c] :
                          /\ sent[mission[n].c][i].n = n
                          /\ sent[mission[n].c][i].difficulty = mission[n].best
      BY DEF BestIsSent
    <2> DEFINE c == mission[n].c
               v == mission[n].best
    <2>1. c \in Conns /\ v \in Nat \ {0}
      BY MissionsConn DEF MinerInv, RoundInv, Types, MissionType
    <2>2. Covered(Q(c), sent[c], n, v) /\ Bounded(Q(c), sent[c], n, v)
      BY DEF MinerInv, PipeInv, AllKept, Begun, Kept
    <2>3. \A k \in DOMAIN Q(c) : Q(c)[k].n # n
      BY DEF Pending, Q, ToSet
    <2>4. PICK k \in DOMAIN sent[c] : sent[c][k].n = n /\ sent[c][k].difficulty >= v
      BY <2>1, <2>2, <2>3 DEF Covered
    <2>5. sent[c][k] \in Submissions
      BY <2>1 DEF MinerInv, RoundInv, Types
    <2>6. sent[c][k].difficulty <= v
      BY <2>2, <2>4 DEF Bounded, AtMost
    <2>7. sent[c][k].difficulty = v
      BY <2>1, <2>4, <2>5, <2>6 DEF Submissions
    <2> QED
      BY <2>4, <2>7
  <1> QED
    BY <1>1, MinerInvHolds, PTL
=============================================================================
