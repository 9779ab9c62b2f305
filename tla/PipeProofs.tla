----------------------------- MODULE PipeProofs -----------------------------
(***************************************************************************)
(* Theorems about Pipe for any readers and writers, any messages and any   *)
(* size that divides the range of the counters: nobody sleeps in vain      *)
(* (SleepersAwaited), the pipe is freed only when unused (FreedUnused) and *)
(* the ring of pipe.c is a FIFO of bytes (Fifo).                           *)
(*                                                                         *)
(* The argument.  PIPESIZE divides UINT, so byte number c is kept in slot  *)
(* c modulo PIPESIZE even after the counters wrap around, and PIPESIZE     *)
(* consecutive bytes are in different slots: a write that stops when the   *)
(* pipe is full overwrites nothing.  A process sleeps with the reason that *)
(* made it sleep still true, because whoever removes the reason wakes it   *)
(* in the same critical section, with one exception: a killed writer       *)
(* returns without wakeup(&p->nread).                                      *)
(***************************************************************************)
EXTENDS Pipe, TLAPS, SequenceTheorems

InWrite == {"writing", "write_sleep", "write_asleep"}
InRead == {"reading", "read_sleep", "read_asleep"}

(* The type of every variable. *)
TypeOK ==
  /\ data \in [0 .. PIPESIZE - 1 -> Byte]
  /\ nread \in 0 .. UINT - 1
  /\ nwrite \in 0 .. UINT - 1
  /\ readopen \in BOOLEAN
  /\ writeopen \in BOOLEAN
  /\ freed \in BOOLEAN
  /\ fd \in SUBSET Procs
  /\ pc \in [Procs -> {"user"} \union InWrite \union InRead]
  /\ left \in [Procs -> Seq(Byte)]
  /\ addr \in [Procs -> Seq(Byte)]
  /\ want \in [Procs -> Nat]
  /\ killed \in [Procs -> BOOLEAN]

(* The counters are never further apart than the ring is long. *)
Fits == Stored <= PIPESIZE

(* The flags say which descriptors are left. *)
OpenEnds ==
  /\ readopen = (fd \cap Readers # {})
  /\ writeopen = (fd \cap Writers # {})
  /\ freed = (~readopen /\ ~writeopen)

(* Who is inside pipewrite() and piperead(), with what. *)
Inside ==
  \A p \in Procs :
    /\ pc[p] # "user" => p \in fd
    /\ pc[p] \in InWrite => p \in Writers
    /\ pc[p] \in InRead => p \in Readers
    /\ left[p] # << >> <=> pc[p] \in InWrite

(* Only one process holds p->lock, and has seen why it must sleep. *)
Locked ==
  \A p \in Procs :
    /\ pc[p] = "write_sleep" => Stored = PIPESIZE /\ readopen
    /\ pc[p] = "read_sleep" => Stored = 0 /\ writeopen
    /\ pc[p] \in {"write_sleep", "read_sleep"} =>
         \A q \in Procs : pc[q] \in {"write_sleep", "read_sleep"} => q = p

(* The inductive invariant. *)
IInv ==
  /\ TypeOK
  /\ Fits
  /\ OpenEnds
  /\ Inside
  /\ Locked
  /\ SleepersAwaited

-----------------------------------------------------------------------------
(* Quotient and remainder. *)
LEMMA Division ==
  ASSUME NEW n \in Nat \ {0}, NEW a \in Int
  PROVE  /\ a % n \in 0 .. n - 1
         /\ a \div n \in Int
         /\ a = n * (a \div n) + (a % n)
OBVIOUS

(* The only multiple of n closer to 0 than n. *)
LEMMA OnlyZero ==
  ASSUME NEW n \in Nat \ {0}, NEW q \in Int, -n < n * q, n * q < n
  PROVE  q = 0
<1>1. CASE q >= 1
  <2>1. n * q >= n
    BY <1>1
  <2> QED  BY <2>1
<1>2. CASE q <= -1
  <2>1. n * q <= -n
    BY <1>2
  <2> QED  BY <2>1
<1> QED  BY <1>1, <1>2

(* Numbers with the same remainder differ by a multiple. *)
LEMMA SameRemainder ==
  ASSUME NEW n \in Nat \ {0}, NEW a \in Int, NEW b \in Int
  PROVE  /\ a % n = b % n => \E q \in Int : a - b = n * q
         /\ \A q \in Int : a - b = n * q => a % n = b % n
<1> DEFINE qa == a \div n
           qb == b \div n
           ra == a % n
           rb == b % n
<1>1. /\ ra \in 0 .. n - 1 /\ qa \in Int /\ a = n * qa + ra
      /\ rb \in 0 .. n - 1 /\ qb \in Int /\ b = n * qb + rb
  BY Division
<1> HIDE DEF qa, qb, ra, rb
<1>2. ra = rb => \E q \in Int : a - b = n * q
  <2> SUFFICES ASSUME ra = rb  PROVE \E q \in Int : a - b = n * q
    OBVIOUS
  <2>1. a - b = n * (qa - qb) /\ qa - qb \in Int
    BY <1>1
  <2> QED  BY <2>1
<1>3. ASSUME NEW q \in Int, a - b = n * q
      PROVE  ra = rb
  <2>1. ra - rb = n * (q - qa + qb)
    BY <1>1, <1>3
  <2>2. q - qa + qb \in Int /\ -n < ra - rb /\ ra - rb < n
    BY <1>1
  <2>3. q - qa + qb = 0
    BY <2>1, <2>2, OnlyZero
  <2> QED  BY <1>1, <2>1, <2>3
<1> QED  BY <1>2, <1>3 DEF ra, rb

(* A remainder is itself when it is small enough, or too large by one turn. *)
LEMMA OneTurn ==
  ASSUME NEW n \in Nat \ {0}, NEW a \in Int
  PROVE  /\ (0 <= a /\ a < n) => a % n = a
         /\ (n <= a /\ a < 2 * n) => a % n = a - n
         /\ (-n <= a /\ a < 0) => a % n = a + n
<1>1. a % n \in 0 .. n - 1 /\ a \div n \in Int /\ a = n * (a \div n) + (a % n)
  BY Division
<1> DEFINE q == a \div n
           r == a % n
<1> HIDE DEF q, r
<1>2. r \in 0 .. n - 1 /\ q \in Int /\ a = n * q + r
  BY <1>1 DEF q, r
<1>3. ASSUME 0 <= a, a < n  PROVE r = a
  <2>1. q = 0
    BY <1>2, <1>3, OnlyZero
  <2> QED  BY <1>2, <2>1
<1>4. ASSUME n <= a, a < 2 * n  PROVE r = a - n
  <2>1. n * (q - 1) = a - n - r /\ q - 1 \in Int
    BY <1>2
  <2>2. q - 1 = 0
    BY <1>2, <1>4, <2>1, OnlyZero
  <2> QED  BY <1>2, <2>2
<1>5. ASSUME -n <= a, a < 0  PROVE r = a + n
  <2>1. n * (q + 1) = a + n - r /\ q + 1 \in Int
    BY <1>2
  <2>2. q + 1 = 0
    BY <1>2, <1>5, <2>1, OnlyZero
  <2>3. n * (-1) = -n
    OBVIOUS
  <2>4. q = -1
    BY <1>2, <2>2
  <2> QED  BY <1>2, <2>3, <2>4
<1> QED  BY <1>3, <1>4, <1>5 DEF r

-----------------------------------------------------------------------------
(* The slot of byte c does not depend on the wrapping of the counters. *)
LEMMA SlotIs ==
  ASSUME NEW c \in Int
  PROVE  Slot(c) = c % PIPESIZE /\ Slot(c) \in 0 .. PIPESIZE - 1
<1> DEFINE t == UINT \div PIPESIZE
           q == c \div UINT
           r == c % UINT
<1>0. PIPESIZE \in Nat \ {0} /\ UINT \in Nat \ {0} /\ UINT % PIPESIZE = 0
  BY PipeAssumption
<1>1. UINT = PIPESIZE * t /\ t \in Int
  BY <1>0, Division
<1>2. c = UINT * q + r /\ q \in Int /\ r \in Int
  BY <1>0, Division
<1> HIDE DEF t, q, r
<1>3. r - c = PIPESIZE * (0 - t * q) /\ 0 - t * q \in Int
  <2>1. UINT * q = PIPESIZE * (t * q) /\ t * q \in Int
    BY <1>0, <1>1, <1>2
  <2>2. PIPESIZE * (0 - t * q) = -(PIPESIZE * (t * q))
    BY <1>0, <2>1
  <2> QED  BY <1>0, <1>2, <2>1, <2>2
<1>4. r % PIPESIZE = c % PIPESIZE
  BY <1>0, <1>2, <1>3, SameRemainder, ZenonT(30)
<1>5. r % PIPESIZE \in 0 .. PIPESIZE - 1
  BY <1>0, <1>2, Division
<1> QED  BY <1>4, <1>5 DEF Slot, r

(* PIPESIZE consecutive bytes are in different slots. *)
LEMMA SlotsDiffer ==
  ASSUME NEW c \in Int, NEW i \in 0 .. PIPESIZE - 1, NEW j \in 0 .. PIPESIZE - 1,
         Slot(c + i) = Slot(c + j)
  PROVE  i = j
<1>0. PIPESIZE \in Nat \ {0} /\ c + i \in Int /\ c + j \in Int
  BY PipeAssumption
<1>1. (c + i) % PIPESIZE = (c + j) % PIPESIZE
  BY <1>0, SlotIs
<1>2. PICK q \in Int : (c + i) - (c + j) = PIPESIZE * q
  BY <1>0, <1>1, SameRemainder, Zenon
<1>3. PIPESIZE * q = i - j
  BY <1>0, <1>2
<1>4. q = 0
  BY <1>0, <1>3, OnlyZero
<1> QED  BY <1>0, <1>3, <1>4

(* A counter moved on wraps around at most once. *)
LEMMA AdvanceIs ==
  ASSUME NEW c \in 0 .. UINT - 1, NEW k \in 0 .. UINT - 1
  PROVE  /\ Advance(c, k) = IF c + k < UINT THEN c + k ELSE c + k - UINT
         /\ Advance(c, k) \in 0 .. UINT - 1
<1>0. UINT \in Nat \ {0}
  BY PipeAssumption
<1> DEFINE a == c + k
<1>1. a \in Int /\ 0 <= a /\ a < 2 * UINT
  BY <1>0
<1> HIDE DEF a
<1>2. a % UINT = IF a < UINT THEN a ELSE a - UINT
  <2>1. CASE a < UINT
    BY <1>0, <1>1, <2>1, OneTurn
  <2>2. CASE ~ a < UINT
    <3>1. UINT <= a /\ a < 2 * UINT
      BY <1>0, <1>1, <2>2
    <3>2. a % UINT = a - UINT
      BY <1>0, <1>1, <3>1, OneTurn, Zenon
    <3> QED  BY <2>2, <3>2
  <2> QED  BY <2>1, <2>2
<1>3. Advance(c, k) = IF a < UINT THEN a ELSE a - UINT
  BY <1>2 DEF Advance, a
<1> QED  BY <1>0, <1>1, <1>3 DEF a

(* Moving a counter on by k shifts the slots by k. *)
LEMMA SlotAdvance ==
  ASSUME NEW c \in 0 .. UINT - 1, NEW k \in 0 .. UINT - 1, NEW i \in Int
  PROVE  Slot(Advance(c, k) + i) = Slot(c + k + i)
<1>0. UINT \in Nat \ {0}
  BY PipeAssumption
<1> DEFINE x == Advance(c, k) + i
           y == c + k + i
<1>1. x \in Int /\ y \in Int /\ (x - y = 0 \/ x - y = -UINT)
  <2>1. Advance(c, k) = IF c + k < UINT THEN c + k ELSE c + k - UINT
    BY AdvanceIs
  <2> HIDE DEF Advance
  <2> QED  BY <1>0, <2>1
<1> HIDE DEF x, y
<1>2. \E q \in {0, -1} : x - y = UINT * q
  BY <1>0, <1>1
<1>3. PICK q \in {0, -1} : x - y = UINT * q
  BY <1>2
<1>4. q \in Int
  OBVIOUS
<1>5. x % UINT = y % UINT
  BY <1>0, <1>1, <1>3, <1>4, SameRemainder, Zenon
<1> QED  BY <1>5 DEF x, y, Slot

(* The distance of two counters, in the unsigned arithmetic of pipe.c. *)
LEMMA DistanceIs ==
  ASSUME NEW r \in 0 .. UINT - 1, NEW w \in 0 .. UINT - 1
  PROVE  (w - r) % UINT = IF r <= w THEN w - r ELSE w - r + UINT
<1>0. UINT \in Nat \ {0}
  BY PipeAssumption
<1> DEFINE a == w - r
<1>1. a \in Int /\ -UINT <= a /\ a < UINT /\ (r <= w <=> 0 <= a)
  BY <1>0
<1> HIDE DEF a
<1>2. CASE 0 <= a
  BY <1>0, <1>1, <1>2, OneTurn, Zenon DEF a
<1>3. CASE ~ 0 <= a
  <2>1. -UINT <= a /\ a < 0
    BY <1>0, <1>1, <1>3
  <2>2. a % UINT = a + UINT
    BY <1>0, <1>1, <2>1, OneTurn, Zenon
  <2> QED  BY <1>1, <1>3, <2>2 DEF a
<1> QED  BY <1>2, <1>3

(* A function on 1 .. n is a sequence of length n. *)
LEMMA FunctionIsSeq ==
  ASSUME NEW S, NEW n \in Nat, NEW f \in [1 .. n -> S]
  PROVE  f \in Seq(S) /\ Len(f) = n
<1>1. f \in Seq(S)
  BY SeqDef, Zenon
<1>2. Len(f) \in Nat /\ 1 .. Len(f) = 1 .. n
  BY <1>1, LenProperties
<1> QED  BY <1>1, <1>2

(* A sequence is what it is at each place. *)
LEMMA SequenceIs ==
  ASSUME NEW S, NEW s \in Seq(S), NEW n, Len(s) = n
  PROVE  s = [i \in 1 .. n |-> s[i]]
BY LenProperties

(* The first k bytes of a message, and the rest. *)
LEMMA FirstBytes ==
  ASSUME NEW S, NEW m \in Seq(S), NEW k \in Nat, k <= Len(m)
  PROVE  /\ SubSeq(m, 1, k) \in Seq(S) /\ Len(SubSeq(m, 1, k)) = k
         /\ \A i \in 1 .. k : SubSeq(m, 1, k)[i] = m[i]
         /\ SubSeq(m, k + 1, Len(m)) \in Seq(S)
         /\ Len(SubSeq(m, k + 1, Len(m))) = Len(m) - k
         /\ \A i \in 1 .. Len(m) - k : SubSeq(m, k + 1, Len(m))[i] = m[k + i]
<1>1. Len(m) \in Nat
  BY LenProperties
<1>2. /\ SubSeq(m, 1, k) \in Seq(S) /\ Len(SubSeq(m, 1, k)) = k
      /\ \A i \in 1 .. k : SubSeq(m, 1, k)[i] = m[i]
  BY <1>1
<1>3. /\ SubSeq(m, k + 1, Len(m)) \in Seq(S)
      /\ Len(SubSeq(m, k + 1, Len(m))) = Len(m) - k
      /\ \A i \in 1 .. Len(m) - k : SubSeq(m, k + 1, Len(m))[i] = m[k + i]
  BY <1>1
<1> QED  BY <1>2, <1>3

(* How many bytes there are, for counters in range. *)
LEMMA StoredIs ==
  ASSUME TypeOK
  PROVE  /\ Stored = IF nread <= nwrite THEN nwrite - nread ELSE nwrite - nread + UINT
         /\ Stored \in 0 .. UINT - 1
         /\ nwrite = Advance(nread, Stored)
<1>0. UINT \in Nat \ {0} /\ nread \in 0 .. UINT - 1 /\ nwrite \in 0 .. UINT - 1
  BY PipeAssumption DEF TypeOK
<1>1. Stored = IF nread <= nwrite THEN nwrite - nread ELSE nwrite - nread + UINT
  BY <1>0, DistanceIs DEF Stored
<1>2. Stored \in 0 .. UINT - 1
  BY <1>0, <1>1
<1>3. nread + Stored = IF nread <= nwrite THEN nwrite ELSE nwrite + UINT
  BY <1>0, <1>1
<1>4. nwrite = Advance(nread, Stored)
  <2>1. Advance(nread, Stored) = IF nread + Stored < UINT THEN nread + Stored
                                                         ELSE nread + Stored - UINT
    BY <1>0, <1>2, AdvanceIs
  <2> QED  BY <1>0, <1>2, <1>3, <2>1
<1> QED  BY <1>1, <1>2, <1>4

(* The contents as a sequence. *)
LEMMA ContentsIs ==
  ASSUME TypeOK, Fits
  PROVE  /\ Stored \in 0 .. PIPESIZE
         /\ Contents \in Seq(Byte) /\ Len(Contents) = Stored
         /\ \A i \in 1 .. Stored : Contents[i] = data[Slot(nread + i - 1)]
<1>0. PIPESIZE \in Nat \ {0} /\ PIPESIZE < UINT /\ UINT \in Nat
  BY PipeAssumption
<1>1. Stored \in 0 .. PIPESIZE
  BY <1>0, StoredIs DEF Fits
<1>2. ASSUME NEW i \in 1 .. Stored
      PROVE  data[Slot(nread + i - 1)] \in Byte
  <2>1. nread + i - 1 \in Int
    BY <1>0, <1>1 DEF TypeOK
  <2>2. Slot(nread + i - 1) \in 0 .. PIPESIZE - 1
    BY <2>1, SlotIs
  <2> QED  BY <2>2 DEF TypeOK
<1>3. Contents = [i \in 1 .. Stored |-> data[Slot(nread + i - 1)]]
  BY DEF Contents
<1>4. Contents \in Seq(Byte) /\ Len(Contents) = Stored
  <2>1. Contents \in [1 .. Stored -> Byte] /\ Stored \in Nat
    BY <1>0, <1>1, <1>2, <1>3
  <2> HIDE DEF Contents
  <2> QED  BY <2>1, FunctionIsSeq
<1> QED  BY <1>1, <1>3, <1>4

(* Putting k bytes that fit appends them, wherever the ring wraps. *)
LEMMA PutAppends ==
  ASSUME TypeOK, Fits, NEW p \in Procs, NEW m \in Seq(Byte), NEW k \in Nat,
         k <= Len(m), Stored + k <= PIPESIZE, PutFirst(p, m, k)
  PROVE  /\ data' \in [0 .. PIPESIZE - 1 -> Byte]
         /\ nwrite' \in 0 .. UINT - 1
         /\ Stored' = Stored + k
         /\ Contents' = Contents \o SubSeq(m, 1, k)
<1> DEFINE hits(s) == {i \in 1 .. k : Slot(nwrite + i - 1) = s}
<1>0. /\ PIPESIZE \in Nat \ {0} /\ PIPESIZE < UINT /\ UINT \in Nat \ {0}
      /\ nread \in 0 .. UINT - 1 /\ nwrite \in 0 .. UINT - 1
      /\ Len(m) \in Nat
  BY PipeAssumption, LenProperties DEF TypeOK
<1>1. /\ Stored \in 0 .. PIPESIZE /\ Stored \in 0 .. UINT - 1
      /\ k \in 0 .. PIPESIZE /\ k \in 0 .. UINT - 1
  BY <1>0, ContentsIs
<1>2. /\ data' = [s \in 0 .. PIPESIZE - 1 |->
                    IF hits(s) = {} THEN data[s]
                    ELSE m[CHOOSE i \in hits(s) : \A j \in hits(s) : j <= i]]
      /\ nwrite' = Advance(nwrite, k)
      /\ nread' = nread
  BY DEF PutFirst
<1>3. \A i \in Int : Slot(nwrite + i) = Slot(nread + Stored + i)
  <2>1. nwrite = Advance(nread, Stored)
    BY StoredIs
  <2> QED  BY <1>0, <1>1, <2>1, SlotAdvance
<1>4. ASSUME NEW i \in 1 .. k, NEW j \in 1 .. k, Slot(nwrite + i - 1) = Slot(nwrite + j - 1)
      PROVE  i = j
  <2>1. i - 1 \in 0 .. PIPESIZE - 1 /\ j - 1 \in 0 .. PIPESIZE - 1 /\ nwrite \in Int
    BY <1>0, <1>1
  <2>2. nwrite + i - 1 = nwrite + (i - 1) /\ nwrite + j - 1 = nwrite + (j - 1)
    BY <1>0, <1>1
  <2>3. i - 1 = j - 1
    BY <1>4, <2>1, <2>2, SlotsDiffer, Zenon
  <2> QED  BY <1>1, <2>3
<1>5. ASSUME NEW i \in 1 .. k
      PROVE  /\ Slot(nwrite + i - 1) \in 0 .. PIPESIZE - 1
             /\ data'[Slot(nwrite + i - 1)] = m[i]
  <2> DEFINE s == Slot(nwrite + i - 1)
  <2>0. nwrite + i - 1 \in Int
    BY <1>0, <1>1
  <2>1. s \in 0 .. PIPESIZE - 1
    BY <2>0, SlotIs
  <2>2. hits(s) = {i}
    BY <1>4
  <2> HIDE DEF s, hits
  <2>3. (CHOOSE x \in hits(s) : \A j \in hits(s) : j <= x) = i
    BY <1>1, <2>2
  <2>4. data'[s] = m[CHOOSE x \in hits(s) : \A j \in hits(s) : j <= x]
    BY <1>2, <2>1, <2>2, Zenon
  <2> QED  BY <2>1, <2>3, <2>4, Zenon DEF s
<1>6. ASSUME NEW s \in 0 .. PIPESIZE - 1, \A i \in 1 .. k : Slot(nwrite + i - 1) # s
      PROVE  data'[s] = data[s]
  BY <1>2, <1>6
<1>7. data' \in [0 .. PIPESIZE - 1 -> Byte]
  <2>1. ASSUME NEW s \in 0 .. PIPESIZE - 1
        PROVE  data'[s] \in Byte
    <3>1. CASE \E i \in 1 .. k : Slot(nwrite + i - 1) = s
      <4>1. PICK i \in 1 .. k : Slot(nwrite + i - 1) = s
        BY <3>1
      <4>2. i \in 1 .. Len(m)
        BY <1>0, <1>1
      <4> QED  BY <1>5, <4>1, <4>2, ElementOfSeq, Zenon
    <3>2. CASE \A i \in 1 .. k : Slot(nwrite + i - 1) # s
      BY <1>6, <3>2, Zenon DEF TypeOK
    <3> QED  BY <3>1, <3>2
  <2>2. data' = [s \in 0 .. PIPESIZE - 1 |-> data'[s]]
    BY <1>2
  <2> QED  BY <2>1, <2>2
<1>8. nwrite' \in 0 .. UINT - 1
  BY <1>0, <1>1, <1>2, AdvanceIs
<1>9. Stored' = Stored + k
  <2>1. Stored = IF nread <= nwrite THEN nwrite - nread ELSE nwrite - nread + UINT
    BY StoredIs
  <2>2. nwrite' = IF nwrite + k < UINT THEN nwrite + k ELSE nwrite + k - UINT
    BY <1>0, <1>1, <1>2, AdvanceIs, Zenon
  <2>3. Stored' = IF nread <= nwrite' THEN nwrite' - nread ELSE nwrite' - nread + UINT
    BY <1>0, <1>2, <1>8, DistanceIs, Zenon DEF Stored
  <2> HIDE DEF Stored
  <2>4. CASE nwrite + k < UINT
    BY <1>0, <1>1, <2>1, <2>2, <2>3, <2>4
  <2>5. CASE ~ nwrite + k < UINT
    BY <1>0, <1>1, <2>1, <2>2, <2>3, <2>5
  <2> QED  BY <2>4, <2>5
<1> DEFINE new == Contents \o SubSeq(m, 1, k)
<1>10. /\ Contents \in Seq(Byte) /\ Len(Contents) = Stored
       /\ \A i \in 1 .. Stored : Contents[i] = data[Slot(nread + i - 1)]
  BY ContentsIs
<1>11. /\ SubSeq(m, 1, k) \in Seq(Byte) /\ Len(SubSeq(m, 1, k)) = k
       /\ \A i \in 1 .. k : SubSeq(m, 1, k)[i] = m[i]
  BY <1>0, <1>1, FirstBytes
<1>12. /\ new \in Seq(Byte) /\ Len(new) = Stored + k
       /\ \A i \in 1 .. Stored + k :
            new[i] = IF i <= Stored THEN Contents[i] ELSE SubSeq(m, 1, k)[i - Stored]
  <2> DEFINE a == Contents
             b == SubSeq(m, 1, k)
  <2>1. a \in Seq(Byte) /\ Len(a) = Stored /\ b \in Seq(Byte) /\ Len(b) = k
    BY <1>10, <1>11
  <2> HIDE DEF a, b
  <2>2. /\ a \o b \in Seq(Byte) /\ Len(a \o b) = Stored + k
        /\ \A i \in 1 .. Stored + k :
             (a \o b)[i] = IF i <= Stored THEN a[i] ELSE b[i - Stored]
    BY <2>1, ConcatProperties, ZenonT(30)
  <2> QED  BY <2>2, Zenon DEF a, b
<1>13. ASSUME NEW i \in 1 .. Stored + k
       PROVE  data'[Slot(nread + i - 1)] = new[i]
  <2>1. CASE i <= Stored
    <3>0. nread + i - 1 \in Int
      BY <1>0, <1>1
    <3>1. Slot(nread + i - 1) \in 0 .. PIPESIZE - 1
      BY <3>0, SlotIs
    <3>2. ASSUME NEW j \in 1 .. k, Slot(nwrite + j - 1) = Slot(nread + i - 1)
          PROVE  FALSE
      <4>1. /\ i - 1 \in 0 .. PIPESIZE - 1 /\ Stored + (j - 1) \in 0 .. PIPESIZE - 1
            /\ j - 1 \in Int /\ nread \in Int
        BY <1>0, <1>1, <2>1
      <4>2. Slot(nwrite + (j - 1)) = Slot(nread + Stored + (j - 1))
        BY <1>3, <4>1
      <4>3. /\ nread + Stored + (j - 1) = nread + (Stored + (j - 1))
            /\ nwrite + (j - 1) = nwrite + j - 1
            /\ nread + (i - 1) = nread + i - 1
        BY <1>0, <1>1
      <4>4. Slot(nread + (i - 1)) = Slot(nread + (Stored + (j - 1)))
        BY <3>2, <4>2, <4>3
      <4>5. i - 1 = Stored + (j - 1)
        BY <4>1, <4>4, SlotsDiffer, Zenon
      <4> QED  BY <1>1, <2>1, <4>5
    <3>3. data'[Slot(nread + i - 1)] = data[Slot(nread + i - 1)]
      BY <1>6, <3>1, <3>2
    <3>4. i \in 1 .. Stored
      BY <1>1, <2>1
    <3> QED  BY <1>10, <1>12, <2>1, <3>3, <3>4
  <2>2. CASE ~ i <= Stored
    <3> DEFINE j == i - Stored
    <3>1. j \in 1 .. k /\ j - 1 \in Int
      BY <1>1, <2>2
    <3>2. nwrite + (j - 1) = nwrite + j - 1 /\ nread + Stored + (j - 1) = nread + i - 1
      BY <1>0, <1>1, <3>1
    <3>3. Slot(nwrite + j - 1) = Slot(nread + i - 1)
      BY <1>3, <3>1, <3>2
    <3>4. new[i] = SubSeq(m, 1, k)[j]
      BY <1>12, <2>2, Zenon
    <3> HIDE DEF j, new
    <3>5. data'[Slot(nwrite + j - 1)] = m[j]
      BY <1>5, <3>1
    <3>6. SubSeq(m, 1, k)[j] = m[j]
      BY <1>11, <3>1
    <3> QED  BY <3>3, <3>4, <3>5, <3>6, Zenon
  <2> QED  BY <2>1, <2>2, Zenon
<1>14. Contents' = [i \in 1 .. Stored + k |-> data'[Slot(nread + i - 1)]]
  BY <1>2, <1>9 DEF Contents
<1> HIDE DEF new
<1>15. Contents' = [i \in 1 .. Stored + k |-> new[i]]
  BY <1>13, <1>14
<1>16. Contents' = new
  BY <1>12, <1>15, SequenceIs, Zenon
<1> QED  BY <1>7, <1>8, <1>9, <1>16 DEF new

(* Taking the first k bytes leaves the others. *)
LEMMA GetTakes ==
  ASSUME TypeOK, Fits, NEW n \in Nat, UNCHANGED <<data, nwrite>>,
         nread' = Advance(nread, Len(Taken(n)))
  PROVE  /\ nread' \in 0 .. UINT - 1
         /\ Taken(n) \in Seq(Byte)
         /\ \E k \in 0 .. PIPESIZE :
              /\ k <= Stored
              /\ Stored' = Stored - k
              /\ k > 0 \/ n = 0 \/ Stored = 0
              /\ Taken(n) = SubSeq(Contents, 1, k)
              /\ Contents' = SubSeq(Contents, k + 1, Len(Contents))
<1> DEFINE k == Lesser(n, Stored)
<1>0. /\ PIPESIZE \in Nat \ {0} /\ PIPESIZE < UINT /\ UINT \in Nat \ {0}
      /\ nread \in 0 .. UINT - 1 /\ nwrite \in 0 .. UINT - 1
  BY PipeAssumption DEF TypeOK
<1>1. /\ Stored \in 0 .. PIPESIZE
      /\ Contents \in Seq(Byte) /\ Len(Contents) = Stored
      /\ \A i \in 1 .. Stored : Contents[i] = data[Slot(nread + i - 1)]
  BY ContentsIs
<1>2. k \in 0 .. Stored /\ k \in Nat /\ (k > 0 \/ n = 0 \/ Stored = 0)
  BY <1>0, <1>1 DEF Lesser
<1>3. Taken(n) = [i \in 1 .. k |-> data[Slot(nread + i - 1)]]
  BY DEF Taken
<1> HIDE DEF k
<1>4. \A i \in 1 .. k : data[Slot(nread + i - 1)] = Contents[i] /\ i \in 1 .. Stored
  BY <1>0, <1>1, <1>2
<1>5. Taken(n) = [i \in 1 .. k |-> Contents[i]] /\ \A i \in 1 .. k : Contents[i] \in Byte
  BY <1>1, <1>3, <1>4, ElementOfSeq
<1>6. Taken(n) \in Seq(Byte) /\ Len(Taken(n)) = k
  <2>1. Taken(n) \in [1 .. k -> Byte]
    BY <1>5
  <2> QED  BY <1>2, <2>1, FunctionIsSeq
<1>7. /\ SubSeq(Contents, 1, k) \in Seq(Byte) /\ Len(SubSeq(Contents, 1, k)) = k
      /\ \A i \in 1 .. k : SubSeq(Contents, 1, k)[i] = Contents[i]
      /\ SubSeq(Contents, k + 1, Len(Contents)) \in Seq(Byte)
      /\ Len(SubSeq(Contents, k + 1, Len(Contents))) = Stored - k
      /\ \A i \in 1 .. Stored - k : SubSeq(Contents, k + 1, Len(Contents))[i] = Contents[k + i]
  <2>1. k <= Len(Contents)
    BY <1>0, <1>1, <1>2
  <2> HIDE DEF Contents
  <2>2. /\ SubSeq(Contents, 1, k) \in Seq(Byte) /\ Len(SubSeq(Contents, 1, k)) = k
        /\ \A i \in 1 .. k : SubSeq(Contents, 1, k)[i] = Contents[i]
        /\ SubSeq(Contents, k + 1, Len(Contents)) \in Seq(Byte)
        /\ Len(SubSeq(Contents, k + 1, Len(Contents))) = Len(Contents) - k
        /\ \A i \in 1 .. Len(Contents) - k :
             SubSeq(Contents, k + 1, Len(Contents))[i] = Contents[k + i]
    BY <1>1, <1>2, <2>1, FirstBytes
  <2> QED  BY <1>1, <2>2, SMTT(30)
<1>8. Taken(n) = SubSeq(Contents, 1, k)
  <2>1. SubSeq(Contents, 1, k) = [i \in 1 .. k |-> SubSeq(Contents, 1, k)[i]]
    BY <1>7, SequenceIs
  <2> QED  BY <1>5, <1>7, <2>1
<1>9. k \in 0 .. UINT - 1 /\ nread' = Advance(nread, k)
  BY <1>0, <1>1, <1>2, <1>6
<1>10. nread' \in 0 .. UINT - 1
  BY <1>0, <1>9, AdvanceIs
<1>11. Stored' = Stored - k
  <2>1. Stored = IF nread <= nwrite THEN nwrite - nread ELSE nwrite - nread + UINT
    BY StoredIs
  <2>2. nread' = IF nread + k < UINT THEN nread + k ELSE nread + k - UINT
    BY <1>0, <1>9, AdvanceIs, Zenon
  <2>3. Stored' = IF nread' <= nwrite THEN nwrite - nread' ELSE nwrite - nread' + UINT
    BY <1>0, <1>10, DistanceIs, Zenon DEF Stored
  <2> HIDE DEF Stored
  <2>4. CASE nread + k < UINT
    BY <1>0, <1>1, <1>2, <2>1, <2>2, <2>3, <2>4
  <2>5. CASE ~ nread + k < UINT
    BY <1>0, <1>1, <1>2, <2>1, <2>2, <2>3, <2>5
  <2> QED  BY <2>4, <2>5
<1> DEFINE rest == SubSeq(Contents, k + 1, Len(Contents))
<1>12. ASSUME NEW i \in 1 .. Stored - k
       PROVE  data[Slot(nread' + i - 1)] = rest[i]
  <2>1. i - 1 \in Int /\ k + i \in 1 .. Stored
    BY <1>0, <1>1, <1>2
  <2>2. Slot(Advance(nread, k) + (i - 1)) = Slot(nread + k + (i - 1))
    BY <1>0, <1>9, <2>1, SlotAdvance
  <2>3. nread' + i - 1 = nread' + (i - 1) /\ nread + k + (i - 1) = nread + (k + i) - 1
    BY <1>0, <1>1, <1>2, <1>10
  <2>4. Slot(nread' + i - 1) = Slot(nread + (k + i) - 1)
    BY <1>9, <2>2, <2>3
  <2>5. data[Slot(nread + (k + i) - 1)] = Contents[k + i]
    BY <1>1, <2>1
  <2>6. rest[i] = Contents[k + i]
    BY <1>7
  <2> QED  BY <2>4, <2>5, <2>6, Zenon
<1>13. Contents' = [i \in 1 .. Stored - k |-> data[Slot(nread' + i - 1)]]
  BY <1>11 DEF Contents
<1>14. rest \in Seq(Byte) /\ Len(rest) = Stored - k
  BY <1>7
<1> HIDE DEF rest
<1>15. Contents' = [i \in 1 .. Stored - k |-> rest[i]]
  BY <1>12, <1>13
<1>16. Contents' = rest
  BY <1>14, <1>15, SequenceIs, Zenon
<1>17. k \in 0 .. PIPESIZE /\ k <= Stored
  BY <1>0, <1>1, <1>2
<1> QED  BY <1>2, <1>6, <1>8, <1>10, <1>11, <1>16, <1>17 DEF rest

-----------------------------------------------------------------------------
Sleepy == {"write_sleep", "read_sleep"}

(* The range of pc is closed under wakeup(). *)
LEMMA WakeFacts ==
  ASSUME NEW f \in [Procs -> {"user"} \union InWrite \union InRead]
  PROVE  /\ WakeReaders(f) \in [Procs -> {"user"} \union InWrite \union InRead]
         /\ WakeWriters(f) \in [Procs -> {"user"} \union InWrite \union InRead]
         /\ \A q \in Procs :
              /\ WakeReaders(f)[q] = IF f[q] = "read_asleep" THEN "reading" ELSE f[q]
              /\ WakeWriters(f)[q] = IF f[q] = "write_asleep" THEN "writing" ELSE f[q]
<1>1. \A q \in Procs :
        /\ WakeReaders(f)[q] = IF f[q] = "read_asleep" THEN "reading" ELSE f[q]
        /\ WakeWriters(f)[q] = IF f[q] = "write_asleep" THEN "writing" ELSE f[q]
  BY DEF WakeReaders, WakeWriters
<1>2. WakeReaders(f) \in [Procs -> {"user"} \union InWrite \union InRead]
  BY DEF WakeReaders, InRead
<1>3. WakeWriters(f) \in [Procs -> {"user"} \union InWrite \union InRead]
  BY DEF WakeWriters, InWrite
<1> QED  BY <1>1, <1>2, <1>3

(* One go of pipewrite()'s loop, at the call or after a sleep. *)
LEMMA PutStep ==
  ASSUME IInv, NEW p \in Procs, NEW m \in Seq(Byte), Unlocked, PutBytes(p, m),
         p \in Writers, p \in fd, pc[p] \in {"user", "writing"}
  PROVE  /\ IInv'
         /\ \E k \in 0 .. PIPESIZE : Stream!Put(p, m, k)
<1> USE DEF IInv
<1> DEFINE k == Lesser(Len(m), PIPESIZE - Stored)
<1>1. PutFirst(p, m, k)
  BY DEF PutBytes
<1>2. /\ PIPESIZE \in Nat \ {0} /\ Stored \in 0 .. PIPESIZE /\ Len(m) \in Nat
      /\ Len(Contents) = Stored
  BY PipeAssumption, LenProperties, ContentsIs
<1>3. /\ k \in Nat /\ k \in 0 .. PIPESIZE /\ k <= Len(m) /\ Stored + k <= PIPESIZE
      /\ k < Len(m) => Stored + k = PIPESIZE
  BY <1>2 DEF Lesser
<1> HIDE DEF k
<1>4. /\ data' \in [0 .. PIPESIZE - 1 -> Byte]
      /\ nwrite' \in 0 .. UINT - 1
      /\ Stored' = Stored + k
      /\ Contents' = Contents \o SubSeq(m, 1, k)
  BY <1>1, <1>3, PutAppends
<1>5. /\ UNCHANGED <<nread, readopen, writeopen, freed, fd, addr, want, killed>>
      /\ \/ /\ k = Len(m)
            /\ left' = [left EXCEPT ![p] = << >>]
            /\ pc' = WakeReaders([pc EXCEPT ![p] = "user"])
         \/ /\ k < Len(m)
            /\ ~readopen \/ killed[p]
            /\ left' = [left EXCEPT ![p] = << >>]
            /\ pc' = [pc EXCEPT ![p] = "user"]
         \/ /\ k < Len(m)
            /\ readopen /\ ~killed[p]
            /\ left' = [left EXCEPT ![p] = SubSeq(m, k + 1, Len(m))]
            /\ pc' = WakeReaders([pc EXCEPT ![p] = "write_sleep"])
  BY <1>1 DEF PutFirst
<1>6. /\ SubSeq(m, k + 1, Len(m)) \in Seq(Byte)
      /\ k < Len(m) => SubSeq(m, k + 1, Len(m)) # << >>
      /\ << >> \in Seq(Byte)
  <2>1. SubSeq(m, k + 1, Len(m)) \in Seq(Byte) /\ Len(SubSeq(m, k + 1, Len(m))) = Len(m) - k
    BY <1>3, FirstBytes
  <2>2. << >> \in Seq(Byte) /\ Len(<< >>) = 0
    BY EmptySeq
  <2>3. k < Len(m) => Len(SubSeq(m, k + 1, Len(m))) # 0
    BY <1>2, <1>3, <2>1
  <2> QED  BY <2>1, <2>2, <2>3, Zenon
<1>7. pc \in [Procs -> {"user"} \union InWrite \union InRead] /\ left \in [Procs -> Seq(Byte)]
  BY DEF TypeOK
<1>8. /\ pc' \in [Procs -> {"user"} \union InWrite \union InRead]
      /\ pc'[p] \in {"user", "write_sleep"}
      /\ \A q \in Procs : q # p => pc'[q] = pc[q] \/ (pc[q] = "read_asleep" /\ pc'[q] = "reading")
      /\ pc'[p] = "write_sleep" => k < Len(m) /\ readopen
      /\ \A q \in Procs : pc'[q] = "read_asleep" => q # p /\ (~readopen \/ killed[p])
  <2> DEFINE f == [pc EXCEPT ![p] = "user"]
             g == [pc EXCEPT ![p] = "write_sleep"]
  <2>1. /\ f \in [Procs -> {"user"} \union InWrite \union InRead]
        /\ g \in [Procs -> {"user"} \union InWrite \union InRead]
        /\ f[p] = "user" /\ g[p] = "write_sleep"
        /\ \A q \in Procs : q # p => f[q] = pc[q] /\ g[q] = pc[q]
    BY <1>7 DEF InWrite
  <2> HIDE DEF f, g
  <2>2. CASE k = Len(m) /\ pc' = WakeReaders(f)
    BY <2>1, <2>2, WakeFacts
  <2>3. CASE (~readopen \/ killed[p]) /\ pc' = f
    BY <2>1, <2>3
  <2>4. CASE k < Len(m) /\ readopen /\ pc' = WakeReaders(g)
    BY <2>1, <2>4, WakeFacts
  <2> QED  BY <1>5, <2>2, <2>3, <2>4 DEF f, g
<1>9. /\ left' \in [Procs -> Seq(Byte)]
      /\ \A q \in Procs : q # p => left'[q] = left[q]
      /\ left'[p] # << >> <=> pc'[p] = "write_sleep"
  <2>1. CASE left' = [left EXCEPT ![p] = << >>] /\ pc'[p] = "user"
    BY <1>6, <1>7, <2>1
  <2>2. CASE k < Len(m) /\ left' = [left EXCEPT ![p] = SubSeq(m, k + 1, Len(m))] /\ pc'[p] = "write_sleep"
    BY <1>6, <1>7, <2>2
  <2>3. pc'[p] = IF k < Len(m) /\ readopen /\ ~killed[p] THEN "write_sleep" ELSE "user"
    BY <1>2, <1>3, <1>5, <1>7 DEF WakeReaders
  <2> QED  BY <1>2, <1>3, <1>5, <2>1, <2>2, <2>3
<1>10. TypeOK'
  BY <1>4, <1>5, <1>8, <1>9, SMTT(30) DEF TypeOK
<1>11. Fits'
  BY <1>3, <1>4 DEF Fits
<1>12. OpenEnds'
  BY <1>5 DEF OpenEnds
<1>13. Inside'
  <2> SUFFICES ASSUME NEW q \in Procs
               PROVE  /\ pc'[q] # "user" => q \in fd
                      /\ pc'[q] \in InWrite => q \in Writers
                      /\ pc'[q] \in InRead => q \in Readers
                      /\ left'[q] # << >> <=> pc'[q] \in InWrite
    BY <1>5 DEF Inside
  <2>1. CASE q = p
    BY <1>8, <1>9, <2>1 DEF InWrite, InRead
  <2>2. CASE q # p
    BY <1>8, <1>9, <2>2, SMTT(30) DEF Inside, InWrite, InRead
  <2> QED  BY <2>1, <2>2, SMTT(30)
<1>14. \A q \in Procs : pc'[q] \in Sleepy => q = p /\ pc'[q] = "write_sleep"
  BY <1>8 DEF Unlocked, Sleepy
<1>15. Locked'
  BY <1>3, <1>4, <1>5, <1>8, <1>14 DEF Locked, Sleepy
<1>16. SleepersAwaited'
  <2> SUFFICES ASSUME NEW q \in Procs
               PROVE  /\ pc'[q] = "read_asleep" => \E w \in Writers : killed'[w]
                      /\ pc'[q] = "write_asleep" => Stored' = PIPESIZE /\ readopen'
    BY DEF SleepersAwaited
  <2>1. ASSUME pc'[q] = "read_asleep"
        PROVE  \E w \in Writers : killed'[w]
    <3>1. pc[q] = "read_asleep" /\ (~readopen \/ killed[p])
      BY <1>8, <2>1
    <3>2. q \in Readers /\ q \in fd
      BY <3>1 DEF Inside, InRead
    <3>3. readopen
      BY <3>2, Zenon DEF OpenEnds
    <3> QED  BY <1>5, <3>1, <3>3
  <2>2. ASSUME pc'[q] = "write_asleep"
        PROVE  Stored' = PIPESIZE /\ readopen'
    <3>1. pc[q] = "write_asleep"
      BY <1>8, <2>2
    <3>2. Stored = PIPESIZE /\ readopen
      BY <3>1 DEF SleepersAwaited
    <3> QED  BY <1>2, <1>3, <1>4, <1>5, <3>2
  <2> QED  BY <2>1, <2>2
<1>17. Stream!Put(p, m, k)
  BY <1>2, <1>3, <1>4, <1>5 DEF Stream!Put
<1> QED  BY <1>3, <1>10, <1>11, <1>12, <1>13, <1>15, <1>16, <1>17

(* One go of piperead(), at the call or after a sleep. *)
LEMMA GetStep ==
  ASSUME IInv, NEW p \in Procs, NEW n \in Nat, Unlocked, GetBytes(p, n),
         p \in Readers, p \in fd, pc[p] \in {"user", "reading"}
  PROVE  /\ IInv'
         /\ \/ UNCHANGED <<Contents, left, addr>>
            \/ \E k \in 0 .. PIPESIZE : Stream!Read(p, k)
<1> USE DEF IInv
<1> DEFINE Pcs == {"user"} \union InWrite \union InRead
<1>1. /\ UNCHANGED <<data, nwrite, readopen, writeopen, freed, fd, left, killed>>
      /\ want' = [want EXCEPT ![p] = n]
  BY DEF GetBytes
<1>2. want' \in [Procs -> Nat]
  BY <1>1 DEF TypeOK
<1>3. /\ PIPESIZE \in Nat \ {0} /\ Stored \in 0 .. PIPESIZE /\ Len(Contents) = Stored
      /\ pc \in [Procs -> Pcs] /\ addr \in [Procs -> Seq(Byte)]
      /\ left[p] = << >>
      /\ "user" \in Pcs /\ "read_sleep" \in Pcs
  BY PipeAssumption, ContentsIs DEF TypeOK, Inside, InWrite, InRead
<1>4. OpenEnds'
  BY <1>1 DEF OpenEnds
<1>5. CASE Stored = 0 /\ writeopen /\ UNCHANGED <<nread, addr>>
           /\ pc' = [pc EXCEPT ![p] = IF killed[p] THEN "user" ELSE "read_sleep"]
  <2>1. /\ pc' \in [Procs -> Pcs] /\ pc'[p] \in {"user", "read_sleep"}
        /\ \A q \in Procs : q # p => pc'[q] = pc[q]
    BY <1>3, <1>5
  <2>2. Stored' = Stored /\ Contents' = Contents
    BY <1>1, <1>5 DEF Stored, Contents
  <2>3. TypeOK' /\ Fits'
    BY <1>1, <1>2, <1>5, <2>1, <2>2 DEF TypeOK, Fits
  <2>4. Inside'
    <3> SUFFICES ASSUME NEW q \in Procs
                 PROVE  /\ pc'[q] # "user" => q \in fd
                        /\ pc'[q] \in InWrite => q \in Writers
                        /\ pc'[q] \in InRead => q \in Readers
                        /\ left[q] # << >> <=> pc'[q] \in InWrite
      BY <1>1 DEF Inside
    <3>1. CASE q = p
      BY <1>3, <2>1, <3>1 DEF InWrite, InRead
    <3>2. CASE q # p
      BY <2>1, <3>2 DEF Inside
    <3> QED  BY <3>1, <3>2
  <2>5. \A q \in Procs : pc'[q] \in Sleepy => q = p /\ pc'[q] = "read_sleep"
    BY <2>1 DEF Unlocked, Sleepy
  <2>6. Locked'
    BY <1>1, <1>5, <2>2, <2>5 DEF Locked, Sleepy
  <2>7. SleepersAwaited'
    BY <1>1, <2>1, <2>2 DEF SleepersAwaited
  <2> QED  BY <1>1, <1>4, <1>5, <2>2, <2>3, <2>4, <2>6, <2>7
<1>6. CASE /\ addr' = [addr EXCEPT ![p] = Taken(n)]
           /\ nread' = Advance(nread, Len(Taken(n)))
           /\ pc' = WakeWriters([pc EXCEPT ![p] = "user"])
  <2>1. nread' \in 0 .. UINT - 1 /\ Taken(n) \in Seq(Byte)
    BY <1>1, <1>6, GetTakes
  <2>2. PICK k \in 0 .. PIPESIZE :
              /\ k <= Stored
              /\ Stored' = Stored - k
              /\ Taken(n) = SubSeq(Contents, 1, k)
              /\ Contents' = SubSeq(Contents, k + 1, Len(Contents))
    BY <1>1, <1>6, GetTakes
  <2>3. /\ pc' \in [Procs -> Pcs] /\ pc'[p] = "user"
        /\ \A q \in Procs : q # p => pc'[q] = pc[q] \/ (pc[q] = "write_asleep" /\ pc'[q] = "writing")
        /\ \A q \in Procs : pc'[q] # "write_asleep"
    <3> DEFINE f == [pc EXCEPT ![p] = "user"]
    <3>1. f \in [Procs -> Pcs] /\ f[p] = "user" /\ \A q \in Procs : q # p => f[q] = pc[q]
      BY <1>3
    <3>2. pc' = WakeWriters(f)
      BY <1>6
    <3> HIDE DEF f
    <3> QED  BY <3>1, <3>2, WakeFacts
  <2>4. addr' \in [Procs -> Seq(Byte)]
    BY <1>3, <1>6, <2>1
  <2>5. TypeOK'
    BY <1>1, <1>2, <2>1, <2>3, <2>4 DEF TypeOK
  <2>6. Fits'
    BY <1>3, <2>2 DEF Fits
  <2>7. Inside'
    <3> SUFFICES ASSUME NEW q \in Procs
                 PROVE  /\ pc'[q] # "user" => q \in fd
                        /\ pc'[q] \in InWrite => q \in Writers
                        /\ pc'[q] \in InRead => q \in Readers
                        /\ left[q] # << >> <=> pc'[q] \in InWrite
      BY <1>1 DEF Inside
    <3>1. CASE q = p
      BY <1>3, <2>3, <3>1 DEF InWrite, InRead
    <3>2. CASE q # p
      BY <2>3, <3>2 DEF Inside, InWrite, InRead
    <3> QED  BY <3>1, <3>2
  <2>8. \A q \in Procs : pc'[q] \notin Sleepy
    BY <2>3 DEF Unlocked, Sleepy
  <2>9. Locked'
    BY <2>8 DEF Locked, Sleepy
  <2>10. SleepersAwaited'
    <3> SUFFICES ASSUME NEW q \in Procs, pc'[q] = "read_asleep"
                 PROVE  (Stored' = 0 /\ writeopen') \/ \E w \in Writers : killed'[w]
      BY <2>3 DEF SleepersAwaited
    <3>1. pc[q] = "read_asleep"
      BY <2>3
    <3>2. (Stored = 0 /\ writeopen) \/ \E w \in Writers : killed[w]
      BY <3>1 DEF SleepersAwaited
    <3>3. Stored = 0 => Stored' = 0
      BY <1>3, <2>2
    <3> QED  BY <1>1, <3>2, <3>3
  <2>11. Stream!Read(p, k)
    BY <1>1, <1>3, <1>6, <2>2 DEF Stream!Read
  <2> QED  BY <1>4, <2>5, <2>6, <2>7, <2>9, <2>10, <2>11
<1> QED  BY <1>5, <1>6 DEF GetBytes

(* sleep() gives up p->lock and keeps the reason for sleeping. *)
LEMMA SleepStep ==
  ASSUME IInv, NEW p \in Procs, sleep(p)
  PROVE  IInv' /\ UNCHANGED <<Contents, left, addr>>
<1> USE DEF IInv
<1>1. /\ UNCHANGED <<data, nread, nwrite, readopen, writeopen, freed, fd, left, addr, want, killed>>
      /\ pc \in [Procs -> {"user"} \union InWrite \union InRead]
  BY DEF sleep, pipeVars, TypeOK
<1>2. /\ pc' \in [Procs -> {"user"} \union InWrite \union InRead]
      /\ \A q \in Procs : q # p => pc'[q] = pc[q]
      /\ \/ pc[p] = "write_sleep" /\ pc'[p] = "write_asleep"
         \/ pc[p] = "read_sleep" /\ pc'[p] = "read_asleep"
  BY <1>1 DEF sleep, InWrite, InRead
<1>3. Stored' = Stored /\ Contents' = Contents
  BY <1>1 DEF Stored, Contents
<1>4. TypeOK' /\ Fits' /\ OpenEnds'
  BY <1>1, <1>2, <1>3, Zenon DEF TypeOK, Fits, OpenEnds
<1>5. Inside'
  BY <1>1, <1>2 DEF Inside, InWrite, InRead
<1>6. Locked'
  BY <1>1, <1>2, <1>3 DEF Locked
<1>7. SleepersAwaited'
  BY <1>1, <1>2, <1>3 DEF SleepersAwaited, Locked
<1> QED  BY <1>1, <1>3, <1>4, <1>5, <1>6, <1>7

(* kill() may wake the victim, and nobody else. *)
LEMMA KillStep ==
  ASSUME IInv, NEW p \in Procs, kill(p)
  PROVE  IInv' /\ UNCHANGED <<Contents, left, addr>>
<1> USE DEF IInv
<1>1. /\ UNCHANGED <<data, nread, nwrite, readopen, writeopen, freed, fd, left, addr, want>>
      /\ pc \in [Procs -> {"user"} \union InWrite \union InRead]
      /\ killed \in [Procs -> BOOLEAN]
      /\ killed' = [killed EXCEPT ![p] = TRUE]
  BY DEF kill, pipeVars, TypeOK
<1>2. /\ pc' \in [Procs -> {"user"} \union InWrite \union InRead]
      /\ \A q \in Procs : \/ pc'[q] = pc[q]
                          \/ pc[q] = "write_asleep" /\ pc'[q] = "writing"
                          \/ pc[q] = "read_asleep" /\ pc'[q] = "reading"
  BY <1>1 DEF kill, InWrite, InRead
<1>3. killed' \in [Procs -> BOOLEAN] /\ \A q \in Procs : killed[q] => killed'[q]
  BY <1>1
<1>4. Stored' = Stored /\ Contents' = Contents
  BY <1>1 DEF Stored, Contents
<1>5. TypeOK' /\ Fits' /\ OpenEnds'
  BY <1>1, <1>2, <1>3, <1>4, Zenon DEF TypeOK, Fits, OpenEnds
<1>6. Inside'
  BY <1>1, <1>2 DEF Inside, InWrite, InRead
<1>7. Locked'
  BY <1>1, <1>2, <1>4 DEF Locked
<1>8. SleepersAwaited'
  <2>1. \A w \in Writers : killed[w] => killed'[w]
    BY <1>3 DEF Procs
  <2> QED  BY <1>1, <1>2, <1>4, <2>1 DEF SleepersAwaited
<1> QED  BY <1>1, <1>4, <1>5, <1>6, <1>7, <1>8

(***************************************************************************)
(* close(): the last descriptor of an end wakes the other side, which is   *)
(* the only side that can be asleep for want of it.                        *)
(***************************************************************************)
LEMMA CloseStep ==
  ASSUME IInv, NEW p \in Procs, pipeclose(p)
  PROVE  IInv' /\ UNCHANGED <<Contents, left, addr>>
<1> USE DEF IInv
<1>1. /\ UNCHANGED <<data, nread, nwrite, left, addr, want, killed>>
      /\ p \in fd /\ pc[p] = "user" /\ fd' = fd \ {p}
      /\ writeopen' = (fd' \cap Writers # {})
      /\ readopen' = (fd' \cap Readers # {})
      /\ freed' = (~readopen' /\ ~writeopen')
      /\ pc' = IF writeopen' # writeopen THEN WakeReaders(pc)
               ELSE IF readopen' # readopen THEN WakeWriters(pc) ELSE pc
      /\ \A q \in Procs : pc[q] \notin {"write_sleep", "read_sleep"}
      /\ pc \in [Procs -> {"user"} \union InWrite \union InRead]
  BY SMTT(30) DEF pipeclose, Close, Ends, Unlocked, TypeOK
<1>2. Stored' = Stored /\ Contents' = Contents
  BY <1>1 DEF Stored, Contents
<1>3. /\ pc' \in [Procs -> {"user"} \union InWrite \union InRead]
      /\ pc'[p] = "user"
      /\ \A q \in Procs : \/ pc'[q] = pc[q]
                          \/ pc[q] = "write_asleep" /\ pc'[q] = "writing"
                          \/ pc[q] = "read_asleep" /\ pc'[q] = "reading"
  BY <1>1, WakeFacts
<1>4. TypeOK'
  BY <1>1, <1>3, Zenon DEF TypeOK
<1>5. Fits' /\ OpenEnds'
  BY <1>1, <1>2 DEF Fits, OpenEnds
<1>6. Inside'
  <2> SUFFICES ASSUME NEW q \in Procs
               PROVE  /\ pc'[q] # "user" => q \in fd'
                      /\ pc'[q] \in InWrite => q \in Writers
                      /\ pc'[q] \in InRead => q \in Readers
                      /\ left[q] # << >> <=> pc'[q] \in InWrite
    BY <1>1 DEF Inside
  <2>1. pc'[q] # "user" => q \in fd'
    BY <1>1, <1>3 DEF Inside
  <2> QED  BY <1>3, <2>1, SMTT(30) DEF Inside, InWrite, InRead
<1>7. Locked'
  BY <1>1, <1>3 DEF Locked
<1>8. SleepersAwaited'
  <2> SUFFICES ASSUME NEW q \in Procs
               PROVE  /\ pc'[q] = "read_asleep" =>
                           (Stored = 0 /\ writeopen') \/ \E w \in Writers : killed[w]
                      /\ pc'[q] = "write_asleep" => Stored = PIPESIZE /\ readopen'
    BY <1>1, <1>2 DEF SleepersAwaited
  <2>1. ASSUME pc'[q] = "read_asleep"
        PROVE  (Stored = 0 /\ writeopen') \/ \E w \in Writers : killed[w]
    <3>1. pc[q] = "read_asleep" /\ writeopen' = writeopen
      BY <1>1, <1>3, <2>1, WakeFacts
    <3> QED  BY <3>1 DEF SleepersAwaited
  <2>2. ASSUME pc'[q] = "write_asleep"
        PROVE  Stored = PIPESIZE /\ readopen'
    <3>1. pc[q] = "write_asleep"
      BY <1>3, <2>2
    <3>2. q \in Writers /\ q \in fd' /\ Stored = PIPESIZE /\ readopen
      BY <1>1, <3>1 DEF SleepersAwaited, Inside, InWrite
    <3>3. CASE writeopen' # writeopen
      <4>1. fd' \cap Writers # {}
        BY <3>2
      <4> QED  BY <1>1, <3>3, <4>1 DEF OpenEnds
    <3>4. CASE writeopen' = writeopen
      BY <1>1, <2>2, <3>2, <3>4, WakeFacts, Zenon
    <3> QED  BY <3>2, <3>3, <3>4
  <2> QED  BY <2>1, <2>2
<1> QED  BY <1>1, <1>2, <1>4, <1>5, <1>6, <1>7, <1>8, SMTT(30)

-----------------------------------------------------------------------------
(* The initial states correspond. *)
LEMMA InitOK ==
  ASSUME pipealloc, Readers # {}, Writers # {}
  PROVE  IInv /\ Stream!Init
<1>0. PIPESIZE \in Nat \ {0} /\ UINT \in Nat \ {0} /\ << >> \in Seq(Byte)
  BY PipeAssumption
<1>1. TypeOK
  BY <1>0 DEF pipealloc, TypeOK
<1>2. Stored = 0
  BY <1>1, StoredIs DEF pipealloc
<1>3. OpenEnds /\ Inside /\ Locked /\ SleepersAwaited
  BY Zenon DEF pipealloc, OpenEnds, Inside, Locked, SleepersAwaited, InWrite, InRead, Procs
<1>4. Fits
  BY <1>0, <1>2 DEF Fits
<1>5. Contents = << >>
  <2>1. Contents \in Seq(Byte) /\ Len(Contents) = 0
    BY <1>1, <1>2, <1>4, ContentsIs
  <2> HIDE DEF Contents
  <2> QED  BY <2>1, EmptySeq
<1> QED  BY <1>1, <1>3, <1>4, <1>5 DEF IInv, Stream!Init, pipealloc

(* Every step keeps the invariant and is a step of the stream, or a stutter. *)
LEMMA Steps ==
  ASSUME IInv, [Next]_vars
  PROVE  IInv' /\ [Stream!Next]_(Stream!vars)
<1>1. ASSUME NEW p \in Procs, NEW m \in Messages, pipewrite(p, m)
      PROVE  IInv' /\ [Stream!Next]_(Stream!vars)
  <2>1. /\ m \in Seq(Byte) /\ Unlocked /\ PutBytes(p, m)
        /\ p \in Writers /\ p \in fd /\ pc[p] = "user"
    BY <1>1, PipeAssumption DEF pipewrite
  <2>2. left[p] = << >>
    BY <2>1 DEF IInv, Inside, InWrite
  <2>3. IInv' /\ \E k \in 0 .. PIPESIZE : Stream!Put(p, m, k)
    BY <2>1, PutStep
  <2> QED  BY <2>2, <2>3 DEF Stream!Next, Stream!Write
<1>2. ASSUME NEW p \in Procs, pipewrite_on(p)
      PROVE  IInv' /\ [Stream!Next]_(Stream!vars)
  <2>1. pc[p] = "writing" /\ Unlocked /\ PutBytes(p, left[p])
    BY <1>2 DEF pipewrite_on
  <2>2. left[p] # << >> /\ left[p] \in Seq(Byte) /\ p \in Writers /\ p \in fd
    BY <2>1 DEF IInv, Inside, InWrite, TypeOK
  <2>3. IInv' /\ \E k \in 0 .. PIPESIZE : Stream!Put(p, left[p], k)
    BY <2>1, <2>2, PutStep
  <2> QED  BY <2>2, <2>3 DEF Stream!Next, Stream!Resume
<1>3. ASSUME NEW p \in Procs, NEW n \in Counts, piperead(p, n)
      PROVE  IInv' /\ [Stream!Next]_(Stream!vars)
  <2>1. /\ n \in Nat /\ Unlocked /\ GetBytes(p, n)
        /\ p \in Readers /\ p \in fd /\ pc[p] = "user"
    BY <1>3, PipeAssumption DEF piperead
  <2>2. /\ IInv'
        /\ \/ UNCHANGED <<Contents, left, addr>>
           \/ \E k \in 0 .. PIPESIZE : Stream!Read(p, k)
    BY <2>1, GetStep
  <2> QED  BY <2>2 DEF Stream!Next, Stream!vars
<1>4. ASSUME NEW p \in Procs, piperead_on(p)
      PROVE  IInv' /\ [Stream!Next]_(Stream!vars)
  <2>1. pc[p] = "reading" /\ Unlocked /\ GetBytes(p, want[p])
    BY <1>4 DEF piperead_on
  <2>2. want[p] \in Nat /\ p \in Readers /\ p \in fd
    BY <2>1, SMTT(30) DEF IInv, Inside, InRead, TypeOK
  <2>3. /\ IInv'
        /\ \/ UNCHANGED <<Contents, left, addr>>
           \/ \E k \in 0 .. PIPESIZE : Stream!Read(p, k)
    BY <2>1, <2>2, GetStep
  <2> QED  BY <2>3 DEF Stream!Next, Stream!vars
<1>5. ASSUME NEW p \in Procs, sleep(p) \/ kill(p) \/ pipeclose(p)
      PROVE  IInv' /\ [Stream!Next]_(Stream!vars)
  <2>1. IInv' /\ UNCHANGED <<Contents, left, addr>>
    BY <1>5, SleepStep, KillStep, CloseStep
  <2> QED  BY <2>1 DEF Stream!vars
<1>6. CASE UNCHANGED vars
  <2>1. IInv'
    BY <1>6, Zenon DEF vars, IInv, TypeOK, Fits, Stored, OpenEnds, Inside, Locked, SleepersAwaited
  <2>2. UNCHANGED <<Contents, left, addr>>
    BY <1>6 DEF vars, Contents, Stored
  <2> QED  BY <2>1, <2>2 DEF Stream!vars
<1> QED  BY <1>1, <1>2, <1>3, <1>4, <1>5, <1>6 DEF Next, InKernel

-----------------------------------------------------------------------------
(* A pipe starts with somebody at both of its ends. *)
BothEnds == Readers # {} /\ Writers # {}

(***************************************************************************)
(* The inductive invariant of pipe.c: it holds after pipealloc(), and no   *)
(* step of a reader, a writer, close(), kill() or sleep() breaks it.       *)
(***************************************************************************)
THEOREM Invariance ==
  ASSUME BothEnds
  PROVE  Spec => []IInv
<1>1. pipealloc => IInv
  BY InitOK DEF BothEnds
<1>2. IInv /\ [Next]_vars => IInv'
  BY Steps
<1> QED  BY <1>1, <1>2, PTL DEF Spec

(***************************************************************************)
(* No lost wakeup: a writer asleep in pipewrite() has a full pipe and a    *)
(* reader, and a reader asleep in piperead() an empty pipe and a writer,   *)
(* unless some writer has been killed.                                     *)
(***************************************************************************)
THEOREM SleepersAwaitedHolds ==
  ASSUME BothEnds
  PROVE  Spec => []SleepersAwaited
<1>1. IInv => SleepersAwaited
  BY DEF IInv
<1> QED  BY <1>1, Invariance, PTL

(***************************************************************************)
(* kfree() of the pipe in pipeclose() comes after everybody has left it    *)
(* and closed it.                                                          *)
(***************************************************************************)
THEOREM FreedUnusedHolds ==
  ASSUME BothEnds
  PROVE  Spec => []FreedUnused
<1>1. IInv => FreedUnused
  <2> SUFFICES ASSUME IInv, freed, NEW p \in Procs
               PROVE  pc[p] = "user" /\ p \notin fd
    BY DEF FreedUnused
  <2>1. fd \cap Readers = {} /\ fd \cap Writers = {}
    BY Zenon DEF IInv, OpenEnds
  <2>2. p \notin fd
    BY <2>1 DEF Procs
  <2> QED  BY <2>2 DEF IInv, Inside
<1> QED  BY <1>1, Invariance, PTL

(***************************************************************************)
(* The ring implements a bounded FIFO of bytes: whatever the sizes and     *)
(* however often the counters wrap around, bytes come out of piperead() in *)
(* the order in which pipewrite() put them in, none lost, none twice.      *)
(***************************************************************************)
THEOREM RingIsFifo ==
  ASSUME BothEnds
  PROVE  Spec => Fifo
<1>1. pipealloc => Stream!Init
  BY InitOK DEF BothEnds
<1>2. IInv /\ [Next]_vars => [Stream!Next]_(Stream!vars)
  BY Steps
<1> QED  BY <1>1, <1>2, Invariance, PTL DEF Spec, Fifo, Stream!Spec

=============================================================================
