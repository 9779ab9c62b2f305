---------------------------- MODULE ConsoleProofs ----------------------------
(***************************************************************************)
(* Proofs about Console, for every size of the ring and of the counters    *)
(* that index it, every set of processes and every set of keys: the        *)
(* modifier bits follow the keys, input never gets stuck, and the ring     *)
(* implements the line editor before a queue of module LineInput.          *)
(***************************************************************************)
EXTENDS Console, TLAPS, SequenceTheorems, WellFoundedInduction

(* What the ring may hold. *)
Stored == Chars \union {"NUL"}

Ring ==
  [buf : [0 .. INPUT_BUF - 1 -> Stored],
   r : 0 .. UINT - 1, w : 0 .. UINT - 1, e : 0 .. UINT - 1]

TypeOK ==
  /\ input \in Ring
  /\ pc \in [Procs -> {"user", "sleep", "asleep", "awake", "gone"}]
  /\ n \in [Procs -> Nat]
  /\ dst \in [Procs -> Seq(Stored)]

(* r, w and e follow each other, at most INPUT_BUF apart ... *)
Indices(in) ==
  /\ Sub(in.w, in.r) + Sub(in.e, in.w) = Sub(in.e, in.r)
  /\ Sub(in.e, in.r) <= INPUT_BUF
  /\ Sub(in.e, in.r) = INPUT_BUF => in.w = in.e

(* ... and the line that is typed has no end yet. *)
Unended(in) == \A j \in 0 .. Sub(in.e, in.w) - 1 : At(in, in.w + j) # "NL"

(* A call that has not returned wants more, and found nothing if it sleeps. *)
Wanting == \A p \in Procs : pc[p] \in {"sleep", "asleep", "awake"} => n[p] > 0
Waiting == \A p \in Procs : pc[p] \in {"sleep", "asleep"} => input.r = input.w

(* The inductive invariant of the ring. *)
RingInv == TypeOK /\ Indices(input) /\ Unended(input) /\ Wanting /\ Waiting

-----------------------------------------------------------------------------
Modifiers == {"CTL", "SHIFT", "ALT"}

(* Every modifier bit is set by one of the keys in a set. *)
SetBy(keys) == \A m \in shift \cap Modifiers : \E k \in keys : m \in shiftcode(k)

(***************************************************************************)
(* Between the two bytes of a key the bits are still those from before it  *)
(* moved: a modifier may be due to a key that has just gone up.            *)
(***************************************************************************)
KeysInv ==
  /\ pend # 0 <=> "E0ESC" \in shift
  /\ pend = 0 => SetBy(down)
  /\ pend # 0 =>
       \E k \in Keys, up \in BOOLEAN :
         /\ k >= 128 /\ pend = Code(k, up)
         /\ SetBy(IF up THEN down \union {k} ELSE down)
         /\ ~up /\ shiftcode(k) # {} => k \in down

-----------------------------------------------------------------------------
LEMMA Sizes ==
  /\ INPUT_BUF \in Nat \ {0} /\ UINT \in Nat \ {0}
  /\ INPUT_BUF < UINT /\ UINT % INPUT_BUF = 0
BY ConsoleAssumption, Zenon

(* Quotient and remainder. *)
LEMMA Division ==
  ASSUME NEW m \in Nat \ {0}, NEW a \in Int
  PROVE  /\ a % m \in 0 .. m - 1
         /\ a \div m \in Int
         /\ a = m * (a \div m) + (a % m)
OBVIOUS

(* The only multiple of m closer to 0 than m. *)
LEMMA OnlyZero ==
  ASSUME NEW m \in Nat \ {0}, NEW q \in Int, -m < m * q, m * q < m
  PROVE  q = 0
<1>1. CASE q >= 1
  <2>1. m * q >= m
    BY <1>1
  <2> QED  BY <2>1
<1>2. CASE q <= -1
  <2>1. m * q <= -m
    BY <1>2
  <2> QED  BY <2>1
<1> QED  BY <1>1, <1>2

(* A remainder is known by the multiple that is taken away. *)
LEMMA RemainderIs ==
  ASSUME NEW m \in Nat \ {0}, NEW a \in Int, NEW q \in Int, NEW x \in 0 .. m - 1,
         a = m * q + x
  PROVE  a % m = x
<1> DEFINE qa == a \div m
           ra == a % m
<1>1. ra \in 0 .. m - 1 /\ qa \in Int /\ a = m * qa + ra
  BY Division, Zenon
<1> HIDE DEF qa, ra
<1>2. x - ra = m * (qa - q)
  BY <1>1
<1>3. -m < x - ra /\ x - ra < m /\ qa - q \in Int
  BY <1>1
<1>4. qa - q = 0
  BY <1>2, <1>3, OnlyZero, Zenon
<1>5. x = ra
  BY <1>1, <1>2, <1>4
<1> QED  BY <1>5, Zenon DEF ra

(* Indices count modulo UINT: their difference ... *)
LEMMA SubIs ==
  ASSUME NEW a \in 0 .. UINT - 1, NEW b \in 0 .. UINT - 1
  PROVE  /\ Sub(a, b) \in 0 .. UINT - 1
         /\ b <= a => Sub(a, b) = a - b
         /\ a < b => Sub(a, b) = a - b + UINT
<1>1. b <= a => (a - b) % UINT = a - b
  BY RemainderIs, Sizes, a - b = UINT * 0 + (a - b)
<1>2. a < b => (a - b) % UINT = a - b + UINT
  BY RemainderIs, Sizes, a - b = UINT * (-1) + (a - b + UINT)
<1> QED  BY <1>1, <1>2, Sizes DEF Sub

(* ... and the index that is k further. *)
LEMMA AddIs ==
  ASSUME NEW a \in 0 .. UINT - 1, NEW k \in 0 .. UINT
  PROVE  /\ (a + k) % UINT \in 0 .. UINT - 1
         /\ a + k < UINT => (a + k) % UINT = a + k
         /\ a + k >= UINT => (a + k) % UINT = a + k - UINT
<1>1. a + k < UINT => (a + k) % UINT = a + k
  BY RemainderIs, Sizes, a + k = UINT * 0 + (a + k)
<1>2. a + k >= UINT => (a + k) % UINT = a + k - UINT
  BY RemainderIs, Sizes, a + k = UINT * 1 + (a + k - UINT)
<1> QED  BY <1>1, <1>2, Sizes

(* A turn of the indices is a whole number of turns of the ring. *)
LEMMA SlotWraps ==
  ASSUME NEW a \in Int
  PROVE  (a + UINT) % INPUT_BUF = a % INPUT_BUF
<1> DEFINE B == INPUT_BUF
           t == UINT \div B
           q == a \div B
           x == a % B
<1>1. B \in Nat \ {0} /\ UINT \in Int /\ UINT % B = 0
  BY Sizes
<1>2. t \in Int /\ UINT = B * t + (UINT % B)
  BY <1>1, Division, Zenon
<1>3. q \in Int /\ x \in 0 .. B - 1 /\ a = B * q + x
  BY <1>1, Division, Zenon
<1> HIDE DEF B, t, q, x
<1>4. a + UINT = B * (q + t) + x /\ q + t \in Int
  BY <1>1, <1>2, <1>3
<1>5. (a + UINT) % B = x
  BY <1>1, <1>3, <1>4, RemainderIs
<1> QED  BY <1>5, Zenon DEF B, x

(* Two places less than INPUT_BUF apart have different slots. *)
LEMMA SlotsDiffer ==
  ASSUME NEW a \in Int, NEW b \in Int, a < b, b - a < INPUT_BUF
  PROVE  a % INPUT_BUF # b % INPUT_BUF
<1> DEFINE B == INPUT_BUF
           p == a \div B
           q == b \div B
<1>1. B \in Nat \ {0}
  BY Sizes, Zenon
<1>2. /\ p \in Int /\ a % B \in Int /\ a = B * p + (a % B)
      /\ q \in Int /\ b % B \in Int /\ b = B * q + (b % B)
  BY <1>1, Division
<1> HIDE DEF B, p, q
<1>3. SUFFICES ASSUME a % B = b % B  PROVE FALSE
  BY Zenon DEF B
<1>4. b - a = B * (q - p) /\ q - p \in Int
  BY <1>1, <1>2, <1>3
<1>5. -B < b - a /\ b - a < B
  BY <1>1 DEF B
<1>6. q - p = 0
  BY <1>1, <1>4, <1>5, OnlyZero, Zenon
<1> QED  BY <1>1, <1>4, <1>6

(* The slot of an index, seen from another. *)
LEMMA SlotFrom ==
  ASSUME NEW a \in 0 .. UINT - 1, NEW b \in 0 .. UINT - 1, NEW k \in Int
  PROVE  (b + k) % INPUT_BUF = (a + Sub(b, a) + k) % INPUT_BUF
<1>1. CASE a <= b
  <2>1. a + Sub(b, a) + k = b + k
    BY <1>1, SubIs, Sizes
  <2> QED  BY <2>1, Zenon
<1>2. CASE b < a
  <2>1. a + Sub(b, a) + k = (b + k) + UINT
    BY <1>2, SubIs, Sizes
  <2>2. b + k \in Int
    BY Sizes
  <2> QED  BY <2>1, <2>2, SlotWraps, Zenon
<1> QED  BY <1>1, <1>2, Sizes

LEMMA SlotAdded ==
  ASSUME NEW a \in 0 .. UINT - 1, NEW k \in 0 .. UINT, NEW j \in Int
  PROVE  (((a + k) % UINT) + j) % INPUT_BUF = (a + k + j) % INPUT_BUF
<1> DEFINE c == (a + k) % UINT
<1>0. /\ c \in 0 .. UINT - 1
      /\ a + k < UINT => c = a + k
      /\ a + k >= UINT => c = a + k - UINT
  BY AddIs, Zenon
<1> HIDE DEF c
<1>1. CASE a + k < UINT
  BY <1>0, <1>1, Zenon DEF c
<1>2. CASE a + k >= UINT
  <2>1. a + k + j = (c + j) + UINT /\ c + j \in Int
    BY <1>0, <1>2, Sizes
  <2> QED  BY <2>1, SlotWraps, Zenon DEF c
<1> QED  BY <1>1, <1>2, Sizes

-----------------------------------------------------------------------------
(* A function on 1 .. m is a sequence. *)
LEMMA FunctionIsSeq ==
  ASSUME NEW S, NEW m \in Nat, NEW f \in [1 .. m -> S]
  PROVE  f \in Seq(S) /\ Len(f) = m
<1>1. f \in Seq(S)
  BY SeqDef, Zenon
<1>2. Len(f) \in Nat /\ 1 .. Len(f) = 1 .. m
  BY <1>1, LenProperties, Zenon
<1> QED  BY <1>1, <1>2

(* Sequences that agree at every place are equal. *)
LEMMA SeqsEqual ==
  ASSUME NEW S, NEW s \in Seq(S), NEW t \in Seq(S), Len(s) = Len(t),
         \A i \in 1 .. Len(s) : s[i] = t[i]
  PROVE  s = t
BY SeqEqual, Zenon

(* The ring from index a to index b. *)
Span(in, a, b) == [i \in 1 .. Sub(b, a) |-> At(in, a + i - 1)]

LEMMA AtIs ==
  ASSUME NEW in \in Ring, NEW i \in Int
  PROVE  i % INPUT_BUF \in 0 .. INPUT_BUF - 1 /\ At(in, i) \in Stored
<1>1. i % INPUT_BUF \in 0 .. INPUT_BUF - 1
  BY Division, Sizes, Zenon
<1> QED  BY <1>1, Zenon DEF At, Ring

LEMMA SpanIs ==
  ASSUME NEW in \in Ring, NEW a \in 0 .. UINT - 1, NEW b \in 0 .. UINT - 1
  PROVE  /\ Span(in, a, b) \in Seq(Stored)
         /\ Len(Span(in, a, b)) = Sub(b, a)
         /\ \A i \in 1 .. Sub(b, a) : Span(in, a, b)[i] = At(in, a + i - 1)
<1>1. Sub(b, a) \in Nat
  BY SubIs, Sizes
<1>2. \A i \in 1 .. Sub(b, a) : At(in, a + i - 1) \in Stored
  BY <1>1, AtIs, Sizes
<1>3. Span(in, a, b) \in [1 .. Sub(b, a) -> Stored]
  BY <1>2, Zenon DEF Span
<1>4. \A i \in 1 .. Sub(b, a) : Span(in, a, b)[i] = At(in, a + i - 1)
  BY Zenon DEF Span
<1> QED  BY <1>1, <1>3, <1>4, FunctionIsSeq, Zenon

(* The distances between the three indices. *)
LEMMA Distances ==
  ASSUME NEW in \in Ring
  PROVE  /\ in.r \in 0 .. UINT - 1 /\ in.w \in 0 .. UINT - 1 /\ in.e \in 0 .. UINT - 1
         /\ Sub(in.w, in.r) \in 0 .. UINT - 1
         /\ Sub(in.e, in.w) \in 0 .. UINT - 1
         /\ Sub(in.e, in.r) \in 0 .. UINT - 1
<1>1. in.r \in 0 .. UINT - 1 /\ in.w \in 0 .. UINT - 1 /\ in.e \in 0 .. UINT - 1
  BY Zenon DEF Ring
<1> QED  BY <1>1, SubIs, Zenon

-----------------------------------------------------------------------------
(* Character c is put into the ring. *)
PutIn(in, c) == [in EXCEPT !.buf[in.e % INPUT_BUF] = c, !.e = (@ + 1) % UINT]

(* It extends the line by one, and the line is the end of what is there. *)
LEMMA PutRing ==
  ASSUME NEW in \in Ring, Indices(in), Sub(in.e, in.r) < INPUT_BUF, NEW c \in Stored
  PROVE  LET new == PutIn(in, c)
         IN  /\ new \in Ring /\ new.r = in.r /\ new.w = in.w
             /\ Sub(new.e, in.w) = Sub(in.e, in.w) + 1
             /\ Sub(new.e, in.r) = Sub(in.e, in.r) + 1
             /\ At(new, in.e) = c
             /\ \A i \in 0 .. Sub(in.e, in.r) - 1 : At(new, in.r + i) = At(in, in.r + i)
             /\ \A i \in 0 .. Sub(in.e, in.w) - 1 : At(new, in.w + i) = At(in, in.w + i)
<1> DEFINE new == PutIn(in, c)
           s == in.e % INPUT_BUF
<1>0. /\ INPUT_BUF \in Nat \ {0} /\ UINT \in Nat \ {0} /\ INPUT_BUF < UINT
      /\ in.r \in 0 .. UINT - 1 /\ in.w \in 0 .. UINT - 1 /\ in.e \in 0 .. UINT - 1
      /\ Sub(in.w, in.r) \in 0 .. UINT - 1
      /\ Sub(in.e, in.w) \in 0 .. UINT - 1
      /\ Sub(in.e, in.r) \in 0 .. UINT - 1
      /\ Sub(in.w, in.r) + Sub(in.e, in.w) = Sub(in.e, in.r)
  BY Sizes, Distances, Zenon DEF Indices
<1>1. s \in 0 .. INPUT_BUF - 1 /\ (in.e + 1) % UINT \in 0 .. UINT - 1
  <2>1. in.e \in Int /\ in.e + 1 \in Int
    BY <1>0
  <2>2. s \in 0 .. INPUT_BUF - 1
    BY <2>1, AtIs, Zenon
  <2> QED  BY <1>0, <2>1, <2>2, Division, Zenon
<1>2. /\ new \in Ring /\ new.r = in.r /\ new.w = in.w /\ new.e = (in.e + 1) % UINT
      /\ new.buf = [in.buf EXCEPT ![s] = c]
  BY <1>0, <1>1, Zenon DEF PutIn, Ring
<1>3. \/ new.e = in.e + 1 /\ in.e + 1 < UINT
      \/ new.e = in.e + 1 - UINT /\ in.e + 1 >= UINT
  <2>1. 1 \in 0 .. UINT
    BY <1>0
  <2>2. /\ in.e + 1 < UINT => (in.e + 1) % UINT = in.e + 1
        /\ in.e + 1 >= UINT => (in.e + 1) % UINT = in.e + 1 - UINT
    BY <1>0, <2>1, AddIs, Zenon
  <2>3. new.e = (in.e + 1) % UINT
    BY <1>2, Zenon
  <2>4. in.e + 1 < UINT \/ in.e + 1 >= UINT
    BY <1>0
  <2> HIDE DEF new
  <2> QED  BY <2>2, <2>3, <2>4, Zenon
<1>4. Sub(new.e, in.w) = Sub(in.e, in.w) + 1
  <2>1. Sub(in.e, in.w) + 1 < UINT
    BY <1>0
  <2>2. /\ in.w <= in.e => Sub(in.e, in.w) = in.e - in.w
        /\ in.e < in.w => Sub(in.e, in.w) = in.e - in.w + UINT
    BY <1>0, SubIs, Zenon
  <2>3. /\ in.w <= new.e => Sub(new.e, in.w) = new.e - in.w
        /\ new.e < in.w => Sub(new.e, in.w) = new.e - in.w + UINT
    BY <1>0, <1>2, SubIs, Zenon DEF Ring
  <2> HIDE DEF new
  <2> QED  BY <1>0, <1>3, <2>1, <2>2, <2>3
<1>5. Sub(new.e, in.r) = Sub(in.e, in.r) + 1
  <2>1. Sub(in.e, in.r) + 1 < UINT
    BY <1>0
  <2>2. /\ in.r <= in.e => Sub(in.e, in.r) = in.e - in.r
        /\ in.e < in.r => Sub(in.e, in.r) = in.e - in.r + UINT
    BY <1>0, SubIs, Zenon
  <2>3. /\ in.r <= new.e => Sub(new.e, in.r) = new.e - in.r
        /\ new.e < in.r => Sub(new.e, in.r) = new.e - in.r + UINT
    BY <1>0, <1>2, SubIs, Zenon DEF Ring
  <2> HIDE DEF new
  <2> QED  BY <1>0, <1>3, <2>1, <2>2, <2>3
<1>6. At(new, in.e) = c
  BY <1>1, <1>2, Zenon DEF At, Ring
<1>7. ASSUME NEW a \in {in.r, in.w}, NEW i \in 0 .. Sub(in.e, a) - 1
      PROVE  At(new, a + i) = At(in, a + i)
  <2>1. a \in 0 .. UINT - 1 /\ Sub(in.e, a) \in Nat /\ Sub(in.e, a) < INPUT_BUF
    BY <1>0
  <2>2. (in.e + 0) % INPUT_BUF = (a + Sub(in.e, a) + 0) % INPUT_BUF
    <3>1. 0 \in Int
      OBVIOUS
    <3> QED  BY <1>0, <2>1, <3>1, SlotFrom, Zenon
  <2>3. s = (a + Sub(in.e, a)) % INPUT_BUF
    BY <1>0, <2>1, <2>2
  <2>4. (a + i) % INPUT_BUF # (a + Sub(in.e, a)) % INPUT_BUF
    BY <1>0, <2>1, SlotsDiffer
  <2> HIDE DEF s, new
  <2> QED  BY <1>0, <1>2, <2>1, <2>3, <2>4, AtIs DEF At, Ring
<1> QED  BY <1>2, <1>4, <1>5, <1>6, <1>7, Zenon

(* The ring after PutIn(), as the sequences that LineInput knows. *)
LEMMA PutSpans ==
  ASSUME NEW in \in Ring, Indices(in), Sub(in.e, in.r) < INPUT_BUF, NEW c \in Stored
  PROVE  LET new == PutIn(in, c)
             line == Append(Span(in, in.w, in.e), c)
         IN  /\ Span(new, in.w, new.e) = line
             /\ Span(new, in.r, in.w) = Span(in, in.r, in.w)
             /\ Span(new, in.r, new.e) = Span(in, in.r, in.w) \o line
<1> DEFINE new == PutIn(in, c)
           a == Span(in, in.r, in.w)
           b == Span(in, in.w, in.e)
           d == Sub(in.w, in.r)
           l == Sub(in.e, in.w)
<1>0. /\ INPUT_BUF \in Nat \ {0} /\ UINT \in Nat \ {0} /\ INPUT_BUF < UINT
      /\ in.r \in 0 .. UINT - 1 /\ in.w \in 0 .. UINT - 1 /\ in.e \in 0 .. UINT - 1
      /\ d \in 0 .. UINT - 1 /\ l \in 0 .. UINT - 1
      /\ d + l = Sub(in.e, in.r)
  BY Sizes, Distances, Zenon DEF Indices
<1>1. /\ new \in Ring /\ new.r = in.r /\ new.w = in.w
      /\ Sub(new.e, in.w) = l + 1
      /\ Sub(new.e, in.r) = d + l + 1
      /\ At(new, in.e) = c
      /\ \A i \in 0 .. d + l - 1 : At(new, in.r + i) = At(in, in.r + i)
      /\ \A i \in 0 .. l - 1 : At(new, in.w + i) = At(in, in.w + i)
  BY <1>0, PutRing
<1>2. new.e \in 0 .. UINT - 1
  BY <1>1, Zenon DEF Ring
<1> HIDE DEF new, d, l
<1>3. /\ a \in Seq(Stored) /\ Len(a) = d
      /\ \A i \in 1 .. d : a[i] = At(in, in.r + i - 1)
  BY <1>0, SpanIs, Zenon DEF d
<1>4. /\ b \in Seq(Stored) /\ Len(b) = l
      /\ \A i \in 1 .. l : b[i] = At(in, in.w + i - 1)
  BY <1>0, SpanIs, Zenon DEF l
<1> HIDE DEF a, b
(* Where the places of the line are, seen from r. *)
<1>5. \A j \in 0 .. l : At(new, in.w + j) = At(new, in.r + (d + j))
                        /\ At(in, in.w + j) = At(in, in.r + (d + j))
  <2> SUFFICES ASSUME NEW j \in 0 .. l
               PROVE  (in.w + j) % INPUT_BUF = (in.r + (d + j)) % INPUT_BUF
    BY Zenon DEF At
  <2>1. j \in Int
    BY <1>0
  <2>2. (in.w + j) % INPUT_BUF = (in.r + d + j) % INPUT_BUF
    BY <1>0, <2>1, SlotFrom, Zenon DEF d
  <2>3. in.r + d + j = in.r + (d + j)
    BY <1>0
  <2> QED  BY <2>2, <2>3, Zenon
<1>6. At(new, in.w + l) = c
  <2>1. 0 \in Int
    OBVIOUS
  <2>2. (in.e + 0) % INPUT_BUF = (in.w + l + 0) % INPUT_BUF
    BY <1>0, <2>1, SlotFrom, Zenon DEF l
  <2>3. in.e % INPUT_BUF = (in.w + l) % INPUT_BUF
    BY <1>0, <2>2
  <2> QED  BY <1>1, <2>3, Zenon DEF At
<1>7. Span(new, in.w, new.e) = Append(b, c)
  <2> DEFINE s == Span(new, in.w, new.e)
             t == Append(b, c)
  <2>1. /\ s \in Seq(Stored) /\ Len(s) = l + 1
        /\ \A i \in 1 .. l + 1 : s[i] = At(new, in.w + i - 1)
    <3>1. new \in Ring /\ Sub(new.e, in.w) = l + 1
      BY <1>1, Zenon
    <3>2. /\ s \in Seq(Stored) /\ Len(s) = Sub(new.e, in.w)
          /\ \A i \in 1 .. Sub(new.e, in.w) : s[i] = At(new, in.w + i - 1)
      BY <1>0, <1>2, <3>1, SpanIs, Zenon
    <3> QED  BY <3>1, <3>2, Zenon
  <2>2. /\ t \in Seq(Stored) /\ Len(t) = l + 1 /\ t[l + 1] = c
        /\ \A i \in 1 .. l : t[i] = b[i]
    BY <1>0, <1>4
  <2> HIDE DEF s, t
  <2>3. ASSUME NEW i \in 1 .. l + 1  PROVE s[i] = t[i]
    <3>1. CASE i = l + 1
      <4>1. in.w + i - 1 = in.w + l
        BY <1>0, <3>1
      <4> QED  BY <2>1, <2>2, <3>1, <4>1, <1>6, Zenon
    <3>2. CASE i # l + 1
      <4>1. i \in 1 .. l /\ i - 1 \in 0 .. l - 1 /\ in.w + i - 1 = in.w + (i - 1)
        BY <1>0, <3>2
      <4> QED  BY <2>1, <2>2, <4>1, <1>1, <1>4, Zenon
    <3> QED  BY <3>1, <3>2, Zenon
  <2>4. s = t
    BY <2>1, <2>2, <2>3, SeqsEqual, Zenon
  <2> QED  BY <2>4, Zenon DEF s, t
<1>8. Span(new, in.r, in.w) = a
  <2> DEFINE s == Span(new, in.r, in.w)
  <2>1. /\ s \in Seq(Stored) /\ Len(s) = d
        /\ \A i \in 1 .. d : s[i] = At(new, in.r + i - 1)
    <3>1. new \in Ring /\ Sub(in.w, in.r) = d
      BY <1>1, Zenon DEF d
    <3> QED  BY <1>0, <3>1, SpanIs, Zenon
  <2> HIDE DEF s
  <2>2. ASSUME NEW i \in 1 .. d  PROVE s[i] = a[i]
    <3>1. i - 1 \in 0 .. d + l - 1 /\ in.r + i - 1 = in.r + (i - 1)
      BY <1>0
    <3> QED  BY <2>1, <3>1, <1>1, <1>3, Zenon
  <2>3. s = a
    BY <2>1, <2>2, <1>3, SeqsEqual, Zenon
  <2> QED  BY <2>3, Zenon DEF s
<1>9. Span(new, in.r, new.e) = a \o Append(b, c)
  <2> DEFINE s == Span(new, in.r, new.e)
             t == a \o Append(b, c)
  <2>1. /\ s \in Seq(Stored) /\ Len(s) = d + l + 1
        /\ \A i \in 1 .. d + l + 1 : s[i] = At(new, in.r + i - 1)
    <3>1. new \in Ring /\ Sub(new.e, in.r) = d + l + 1
      BY <1>1, Zenon
    <3>2. /\ s \in Seq(Stored) /\ Len(s) = Sub(new.e, in.r)
          /\ \A i \in 1 .. Sub(new.e, in.r) : s[i] = At(new, in.r + i - 1)
      BY <1>0, <1>2, <3>1, SpanIs, Zenon
    <3> QED  BY <3>1, <3>2, Zenon
  <2>2. /\ t \in Seq(Stored) /\ Len(t) = d + l + 1 /\ t[d + l + 1] = c
        /\ \A i \in 1 .. d : t[i] = a[i]
        /\ \A i \in 1 .. l : t[d + i] = b[i]
    <3> DEFINE bc == Append(b, c)
    <3>1. /\ bc \in Seq(Stored) /\ Len(bc) = l + 1 /\ bc[l + 1] = c
          /\ \A i \in 1 .. l : bc[i] = b[i]
      BY <1>0, <1>4
    <3> HIDE DEF bc
    <3>2. /\ t \in Seq(Stored) /\ Len(t) = Len(a) + Len(bc)
          /\ \A i \in 1 .. Len(a) + Len(bc) :
               t[i] = IF i <= Len(a) THEN a[i] ELSE bc[i - Len(a)]
      BY <1>3, <3>1, ConcatProperties, Zenon DEF bc
    <3> HIDE DEF t
    <3>3. /\ Len(t) = d + l + 1
          /\ \A i \in 1 .. d : t[i] = a[i]
          /\ \A i \in 1 .. l + 1 : t[d + i] = bc[i]
      <4>1. \A i \in 1 .. d + (l + 1) : t[i] = IF i <= d THEN a[i] ELSE bc[i - d]
        BY <1>3, <3>1, <3>2, Zenon
      <4>2. ASSUME NEW i \in 1 .. d  PROVE t[i] = a[i]
        <5>1. i \in 1 .. d + (l + 1) /\ i <= d
          BY <1>0
        <5> QED  BY <4>1, <5>1, Zenon
      <4>3. ASSUME NEW i \in 1 .. l + 1  PROVE t[d + i] = bc[i]
        <5> DEFINE x == d + i
        <5>1. x \in 1 .. d + (l + 1) /\ ~(x <= d) /\ x - d = i
          BY <1>0
        <5> HIDE DEF x
        <5>2. t[x] = IF x <= d THEN a[x] ELSE bc[x - d]
          BY <4>1, <5>1, Zenon
        <5>3. t[x] = bc[i]
          BY <5>1, <5>2, Zenon
        <5> QED  BY <5>3, Zenon DEF x
      <4>4. Len(t) = d + l + 1
        BY <1>0, <1>3, <3>1, <3>2
      <4> QED  BY <4>2, <4>3, <4>4, Zenon
    <3>4. l + 1 \in 1 .. l + 1 /\ d + (l + 1) = d + l + 1 /\ \A i \in 1 .. l : i \in 1 .. l + 1
      BY <1>0
    <3>5. t[d + (l + 1)] = c
      BY <3>1, <3>3, <3>4, Zenon
    <3>6. \A i \in 1 .. l : t[d + i] = b[i]
      BY <3>1, <3>3, <3>4, Zenon
    <3> QED  BY <3>2, <3>3, <3>4, <3>5, <3>6
  <2> HIDE DEF s, t
  <2>3. ASSUME NEW i \in 1 .. d + l + 1  PROVE s[i] = t[i]
    <3>1. CASE i \in 1 .. d
      <4>1. i - 1 \in 0 .. d + l - 1 /\ in.r + i - 1 = in.r + (i - 1)
        BY <1>0, <3>1
      <4> QED  BY <2>1, <2>2, <3>1, <4>1, <1>1, <1>3, Zenon
    <3>2. CASE i \in d + 1 .. d + l
      <4>1. /\ i - d \in 1 .. l /\ i - d - 1 \in 0 .. l /\ i - 1 \in 0 .. d + l - 1
            /\ in.r + i - 1 = in.r + (i - 1) /\ i - 1 = d + (i - d - 1)
            /\ in.w + (i - d) - 1 = in.w + (i - d - 1) /\ i = d + (i - d)
        BY <1>0, <3>2
      <4>2. s[i] = At(in, in.r + (i - 1))
        BY <2>1, <4>1, <1>1, Zenon
      <4>3. At(in, in.w + (i - d - 1)) = At(in, in.r + (i - 1))
        BY <4>1, <1>5, Zenon
      <4>4. t[i] = b[i - d] /\ b[i - d] = At(in, in.w + (i - d - 1))
        BY <2>2, <4>1, <1>4, Zenon
      <4> QED  BY <4>2, <4>3, <4>4, Zenon
    <3>3. CASE i = d + l + 1
      <4>1. in.r + i - 1 = in.r + (d + l) /\ l \in 0 .. l
        BY <1>0, <3>3
      <4>2. At(new, in.r + (d + l)) = c
        BY <4>1, <1>5, <1>6, Zenon
      <4> QED  BY <2>1, <2>2, <3>3, <4>1, <4>2, Zenon
    <3> QED  BY <1>0, <3>1, <3>2, <3>3
  <2>4. s = t
    BY <2>1, <2>2, <2>3, SeqsEqual, Zenon
  <2> QED  BY <2>4, Zenon DEF s, t
<1> QED  BY <1>7, <1>8, <1>9, Zenon DEF a, b, new

(* k finished characters are read. *)
TakeOut(in, k) == [in EXCEPT !.r = (@ + k) % UINT]

LEMMA TakeRing ==
  ASSUME NEW in \in Ring, Indices(in), NEW k \in 0 .. Sub(in.w, in.r)
  PROVE  LET new == TakeOut(in, k)
         IN  /\ new \in Ring /\ new.buf = in.buf /\ new.w = in.w /\ new.e = in.e
             /\ Sub(in.w, new.r) = Sub(in.w, in.r) - k
             /\ Sub(in.e, new.r) = Sub(in.e, in.r) - k
             /\ \A j \in Int : At(new, new.r + j) = At(in, in.r + k + j)
<1> DEFINE new == TakeOut(in, k)
<1>0. /\ INPUT_BUF \in Nat \ {0} /\ UINT \in Nat \ {0} /\ INPUT_BUF < UINT
      /\ in.r \in 0 .. UINT - 1 /\ in.w \in 0 .. UINT - 1 /\ in.e \in 0 .. UINT - 1
      /\ Sub(in.w, in.r) \in 0 .. UINT - 1
      /\ Sub(in.e, in.w) \in 0 .. UINT - 1
      /\ Sub(in.e, in.r) \in 0 .. UINT - 1
      /\ Sub(in.w, in.r) + Sub(in.e, in.w) = Sub(in.e, in.r)
  BY Sizes, Distances, Zenon DEF Indices
<1>1. k \in 0 .. UINT /\ k <= Sub(in.w, in.r) /\ k <= Sub(in.e, in.r)
  BY <1>0
<1>2. /\ (in.r + k) % UINT \in 0 .. UINT - 1
      /\ in.r + k < UINT => (in.r + k) % UINT = in.r + k
      /\ in.r + k >= UINT => (in.r + k) % UINT = in.r + k - UINT
  BY <1>0, <1>1, AddIs, Zenon
<1>3. /\ new \in Ring /\ new.buf = in.buf /\ new.w = in.w /\ new.e = in.e
      /\ new.r = (in.r + k) % UINT
  BY <1>2, Zenon DEF TakeOut, Ring
<1>4. new.r \in 0 .. UINT - 1
  BY <1>2, <1>3, Zenon
<1>5. \/ new.r = in.r + k /\ in.r + k < UINT
      \/ new.r = in.r + k - UINT /\ in.r + k >= UINT
  <2>1. in.r + k < UINT \/ in.r + k >= UINT
    BY <1>0, <1>1
  <2> QED  BY <2>1, <1>2, <1>3, Zenon
<1> HIDE DEF new
<1>6. ASSUME NEW b \in 0 .. UINT - 1, k <= Sub(b, in.r)
      PROVE  Sub(b, new.r) = Sub(b, in.r) - k
  <2>1. /\ in.r <= b => Sub(b, in.r) = b - in.r
        /\ b < in.r => Sub(b, in.r) = b - in.r + UINT
    BY <1>0, SubIs, Zenon
  <2>2. /\ new.r <= b => Sub(b, new.r) = b - new.r
        /\ b < new.r => Sub(b, new.r) = b - new.r + UINT
    BY <1>4, SubIs, Zenon
  <2> QED  BY <1>0, <1>1, <1>4, <1>5, <1>6, <2>1, <2>2
<1>7. ASSUME NEW j \in Int  PROVE At(new, new.r + j) = At(in, in.r + k + j)
  <2>1. (((in.r + k) % UINT) + j) % INPUT_BUF = (in.r + k + j) % INPUT_BUF
    BY <1>0, <1>1, SlotAdded, Zenon
  <2> QED  BY <1>3, <2>1, Zenon DEF At
<1>8. Sub(in.w, new.r) = Sub(in.w, in.r) - k /\ Sub(in.e, new.r) = Sub(in.e, in.r) - k
  BY <1>0, <1>1, <1>6, Zenon
<1> QED  BY <1>3, <1>7, <1>8, Zenon DEF new

LEMMA TakeSpans ==
  ASSUME NEW in \in Ring, Indices(in), NEW k \in 0 .. Sub(in.w, in.r)
  PROVE  LET new == TakeOut(in, k)
             ready == Span(in, in.r, in.w)
         IN  /\ Span(new, new.r, in.w) = SubSeq(ready, k + 1, Len(ready))
             /\ Span(new, in.w, in.e) = Span(in, in.w, in.e)
<1> DEFINE new == TakeOut(in, k)
           a == Span(in, in.r, in.w)
           d == Sub(in.w, in.r)
<1>0. /\ UINT \in Nat \ {0} /\ d \in 0 .. UINT - 1
      /\ in.r \in 0 .. UINT - 1 /\ in.w \in 0 .. UINT - 1
  BY Sizes, Distances, Zenon
<1>1. /\ new \in Ring /\ new.buf = in.buf /\ new.w = in.w /\ new.e = in.e
      /\ Sub(in.w, new.r) = d - k
      /\ \A j \in Int : At(new, new.r + j) = At(in, in.r + k + j)
  BY TakeRing, Zenon
<1>2. new.r \in 0 .. UINT - 1
  BY <1>1, Zenon DEF Ring
<1> HIDE DEF new, d
<1>3. /\ a \in Seq(Stored) /\ Len(a) = d
      /\ \A i \in 1 .. d : a[i] = At(in, in.r + i - 1)
  BY <1>0, SpanIs, Zenon DEF d
<1> HIDE DEF a
<1>4. Span(new, new.r, in.w) = SubSeq(a, k + 1, d)
  <2> DEFINE s == Span(new, new.r, in.w)
             t == SubSeq(a, k + 1, d)
  <2>1. /\ s \in Seq(Stored) /\ Len(s) = d - k
        /\ \A i \in 1 .. d - k : s[i] = At(new, new.r + i - 1)
    <3>1. new \in Ring /\ Sub(in.w, new.r) = d - k
      BY <1>1, Zenon
    <3>2. /\ s \in Seq(Stored) /\ Len(s) = Sub(in.w, new.r)
          /\ \A i \in 1 .. Sub(in.w, new.r) : s[i] = At(new, new.r + i - 1)
      BY <1>0, <1>2, <3>1, SpanIs, Zenon
    <3> QED  BY <3>1, <3>2, Zenon
  <2>2. k \in Nat /\ d \in Nat /\ k <= d
    BY <1>0 DEF d
  <2>3. /\ t \in Seq(Stored) /\ Len(t) = d - k
        /\ \A i \in 1 .. d - k : t[i] = a[k + i]
    BY <1>3, <2>2
  <2> HIDE DEF s, t
  <2>4. ASSUME NEW i \in 1 .. d - k  PROVE s[i] = t[i]
    <3>1. /\ i - 1 \in Int /\ new.r + i - 1 = new.r + (i - 1) /\ k + i \in 1 .. d
          /\ in.r + k + (i - 1) = in.r + (k + i) - 1
      BY <1>0, <1>2, <2>2
    <3> QED  BY <1>1, <1>3, <2>1, <2>3, <3>1, Zenon
  <2>5. s = t
    BY <2>1, <2>3, <2>4, SeqsEqual, Zenon
  <2> QED  BY <2>5, Zenon DEF s, t
<1>5. Span(new, in.w, in.e) = Span(in, in.w, in.e)
  BY <1>1, Zenon DEF Span, At
<1> QED  BY <1>3, <1>4, <1>5, Zenon DEF a, new

(* The last k characters of the line are taken back. *)
TakeBack(in, k) == [in EXCEPT !.e = Sub(@, k)]

LEMMA BackRing ==
  ASSUME NEW in \in Ring, Indices(in), NEW k \in 0 .. Sub(in.e, in.w)
  PROVE  LET new == TakeBack(in, k)
         IN  /\ new \in Ring /\ new.buf = in.buf /\ new.w = in.w /\ new.r = in.r
             /\ Sub(new.e, in.w) = Sub(in.e, in.w) - k
             /\ Sub(new.e, in.r) = Sub(in.e, in.r) - k
<1> DEFINE new == TakeBack(in, k)
<1>0. /\ UINT \in Nat \ {0}
      /\ in.r \in 0 .. UINT - 1 /\ in.w \in 0 .. UINT - 1 /\ in.e \in 0 .. UINT - 1
      /\ Sub(in.w, in.r) \in 0 .. UINT - 1
      /\ Sub(in.e, in.w) \in 0 .. UINT - 1
      /\ Sub(in.e, in.r) \in 0 .. UINT - 1
      /\ Sub(in.w, in.r) + Sub(in.e, in.w) = Sub(in.e, in.r)
  BY Sizes, Distances, Zenon DEF Indices
<1>1. k \in 0 .. UINT - 1 /\ k <= Sub(in.e, in.w) /\ k <= Sub(in.e, in.r)
  BY <1>0
<1>2. /\ Sub(in.e, k) \in 0 .. UINT - 1
      /\ k <= in.e => Sub(in.e, k) = in.e - k
      /\ in.e < k => Sub(in.e, k) = in.e - k + UINT
  BY <1>0, <1>1, SubIs, Zenon
<1>3. /\ new \in Ring /\ new.buf = in.buf /\ new.w = in.w /\ new.r = in.r
      /\ new.e = Sub(in.e, k)
  BY <1>2, Zenon DEF TakeBack, Ring
<1>4. new.e \in 0 .. UINT - 1
  BY <1>2, <1>3, Zenon
<1>5. \/ new.e = in.e - k /\ k <= in.e
      \/ new.e = in.e - k + UINT /\ in.e < k
  <2>1. k <= in.e \/ in.e < k
    BY <1>0, <1>1
  <2> QED  BY <2>1, <1>2, <1>3, Zenon
<1> HIDE DEF new
<1>6. ASSUME NEW b \in 0 .. UINT - 1, k <= Sub(in.e, b)
      PROVE  Sub(new.e, b) = Sub(in.e, b) - k
  <2>1. /\ b <= in.e => Sub(in.e, b) = in.e - b
        /\ in.e < b => Sub(in.e, b) = in.e - b + UINT
    BY <1>0, SubIs, Zenon
  <2>2. /\ b <= new.e => Sub(new.e, b) = new.e - b
        /\ new.e < b => Sub(new.e, b) = new.e - b + UINT
    BY <1>4, SubIs, Zenon
  <2> QED  BY <1>0, <1>1, <1>4, <1>5, <1>6, <2>1, <2>2
<1>7. Sub(new.e, in.w) = Sub(in.e, in.w) - k /\ Sub(new.e, in.r) = Sub(in.e, in.r) - k
  BY <1>0, <1>1, <1>6, Zenon
<1> QED  BY <1>3, <1>7, Zenon DEF new

LEMMA BackSpans ==
  ASSUME NEW in \in Ring, Indices(in), NEW k \in 0 .. Sub(in.e, in.w)
  PROVE  LET new == TakeBack(in, k)
             l == Span(in, in.w, in.e)
         IN  /\ Span(new, in.w, new.e) = SubSeq(l, 1, Len(l) - k)
             /\ Span(new, in.r, in.w) = Span(in, in.r, in.w)
<1> DEFINE new == TakeBack(in, k)
           b == Span(in, in.w, in.e)
           l == Sub(in.e, in.w)
<1>0. /\ UINT \in Nat \ {0} /\ l \in 0 .. UINT - 1
      /\ in.e \in 0 .. UINT - 1 /\ in.w \in 0 .. UINT - 1
  BY Sizes, Distances, Zenon
<1>1. /\ new \in Ring /\ new.buf = in.buf /\ new.w = in.w /\ new.r = in.r
      /\ Sub(new.e, in.w) = l - k
  BY BackRing, Zenon
<1>2. new.e \in 0 .. UINT - 1
  BY <1>1, Zenon DEF Ring
<1> HIDE DEF new, l
<1>3. /\ b \in Seq(Stored) /\ Len(b) = l
      /\ \A i \in 1 .. l : b[i] = At(in, in.w + i - 1)
  BY <1>0, SpanIs, Zenon DEF l
<1> HIDE DEF b
<1>4. Span(new, in.w, new.e) = SubSeq(b, 1, l - k)
  <2> DEFINE s == Span(new, in.w, new.e)
             t == SubSeq(b, 1, l - k)
  <2>1. /\ s \in Seq(Stored) /\ Len(s) = l - k
        /\ \A i \in 1 .. l - k : s[i] = At(new, in.w + i - 1)
    <3>1. new \in Ring /\ Sub(new.e, in.w) = l - k
      BY <1>1, Zenon
    <3>2. /\ s \in Seq(Stored) /\ Len(s) = Sub(new.e, in.w)
          /\ \A i \in 1 .. Sub(new.e, in.w) : s[i] = At(new, in.w + i - 1)
      BY <1>0, <1>2, <3>1, SpanIs, Zenon
    <3> QED  BY <3>1, <3>2, Zenon
  <2>2. k \in Nat /\ l \in Nat /\ k <= l
    BY <1>0 DEF l
  <2>3. /\ t \in Seq(Stored) /\ Len(t) = l - k
        /\ \A i \in 1 .. l - k : t[i] = b[i]
    BY <1>3, <2>2
  <2> HIDE DEF s, t
  <2>4. ASSUME NEW i \in 1 .. l - k  PROVE s[i] = t[i]
    <3>1. i \in 1 .. l
      BY <2>2
    <3>2. At(new, in.w + i - 1) = At(in, in.w + i - 1)
      BY <1>1, Zenon DEF At
    <3> QED  BY <1>3, <2>1, <2>3, <3>1, <3>2, Zenon
  <2>5. s = t
    BY <2>1, <2>3, <2>4, SeqsEqual, Zenon
  <2> QED  BY <2>5, Zenon DEF s, t
<1>5. Span(new, in.r, in.w) = Span(in, in.r, in.w)
  BY <1>1, Zenon DEF Span, At
<1> QED  BY <1>3, <1>4, <1>5, Zenon DEF b, new

-----------------------------------------------------------------------------
(* The greatest and the least number of a set. *)
LEMMA MaxIs ==
  ASSUME NEW S \in SUBSET Int, NEW x \in S, \A y \in S : y <= x
  PROVE  Max(S) = x
<1>1. \E z \in S : \A y \in S : z >= y
  OBVIOUS
<1>2. Max(S) \in S /\ \A y \in S : Max(S) >= y
  BY <1>1, Zenon DEF Max
<1> DEFINE m == Max(S)
<1>3. m \in Int /\ x \in Int /\ m >= x /\ m <= x
  <2> HIDE DEF m
  <2>1. m \in S /\ \A y \in S : m >= y
    BY <1>2, Zenon DEF m
  <2> QED  BY <2>1, Zenon
<1> QED  BY <1>3

LEMMA MinIs ==
  ASSUME NEW S \in SUBSET Nat, S # {}
  PROVE  Min(S) \in S /\ \A y \in S : Min(S) <= y
<1>1. \E x \in S : \A y \in S : ~ (<<y, x>> \in OpToRel(<, Nat))
  BY NatLessThanWellFounded, WFMin, Zenon
<1>2. PICK x \in S : \A y \in S : ~ (<<y, x>> \in OpToRel(<, Nat))
  BY <1>1, Zenon
<1>3. ASSUME NEW y \in S  PROVE x <= y
  <2>1. x \in Nat /\ y \in Nat
    OBVIOUS
  <2>2. ~ (y < x)
    BY <1>2, <2>1, Zenon DEF OpToRel
  <2> QED  BY <2>1, <2>2
<1> QED  BY <1>3, Zenon DEF Min

LEMMA LeastOfTwo ==
  ASSUME NEW a \in Nat, NEW b \in Nat
  PROVE  Min({a, b}) = IF a <= b THEN a ELSE b
<1>1. Min({a, b}) \in {a, b} /\ \A y \in {a, b} : Min({a, b}) <= y
  BY MinIs, Zenon
<1> QED  BY <1>1

(* ^U takes back the whole line, since it has no end yet. *)
LEMMA ErasesIs ==
  ASSUME input \in Ring, Indices(input), Unended(input), NEW c
  PROVE  LET l == Sub(input.e, input.w)
         IN  /\ Erases(c) \in {0, 1, l} /\ Erases(c) \in 0 .. l
             /\ Erases(c) = 0 => l = 0
<1> DEFINE l == Sub(input.e, input.w)
           S == {k \in 0 .. l : \A j \in 1 .. k : At(input, Sub(input.e, j)) # "NL"}
<1>0. UINT \in Nat \ {0} /\ l \in 0 .. UINT - 1 /\ input.w \in 0 .. UINT - 1
  BY Sizes, Distances, Zenon
<1>1. ASSUME NEW j \in 1 .. l  PROVE At(input, Sub(input.e, j)) # "NL"
  <2> DEFINE b == Sub(input.e, j)
  <2>1. j \in 0 .. l /\ l - j \in 0 .. l - 1 /\ l - j \in Int
    BY <1>0
  <2>2. TakeBack(input, j) \in Ring /\ Sub(TakeBack(input, j).e, input.w) = l - j
    BY <2>1, BackRing, Zenon
  <2>3. TakeBack(input, j).e = b
    BY Zenon DEF TakeBack, Ring
  <2>4. b \in 0 .. UINT - 1 /\ Sub(b, input.w) = l - j
    BY <2>2, <2>3, Zenon DEF Ring
  <2> HIDE DEF b, l
  <2>5. (b + 0) % INPUT_BUF = (input.w + Sub(b, input.w) + 0) % INPUT_BUF
    BY <1>0, <2>4, SlotFrom
  <2>6. b + 0 = b /\ input.w + Sub(b, input.w) + 0 = input.w + (l - j)
    BY <1>0, <2>1, <2>4
  <2>7. At(input, b) = At(input, input.w + (l - j))
    BY <2>5, <2>6, Zenon DEF At
  <2> QED  BY <2>1, <2>7, Zenon DEF Unended, l, b
<1>2. S \in SUBSET Int /\ l \in S /\ \A y \in S : y <= l
  BY <1>0, <1>1
<1>3. Max(S) = l
  BY <1>2, MaxIs, Zenon
<1>4. c = "KILL" => Erases(c) = l
  BY <1>3, Zenon DEF Erases
<1>5. c # "KILL" => Erases(c) = IF l = 0 THEN 0 ELSE 1
  BY Zenon DEF Erases
<1> QED  BY <1>0, <1>4, <1>5

-----------------------------------------------------------------------------
LEMMA FullIs ==
  ASSUME NEW in \in Ring
  PROVE  in.e = (in.r + INPUT_BUF) % UINT <=> Sub(in.e, in.r) = INPUT_BUF
<1>1. /\ INPUT_BUF \in 0 .. UINT /\ INPUT_BUF \in Nat /\ UINT \in Nat
      /\ INPUT_BUF > 0 /\ INPUT_BUF < UINT
  BY Sizes
<1>2. in.r \in 0 .. UINT - 1 /\ in.e \in 0 .. UINT - 1
  BY Distances, Zenon
<1>3. /\ (in.r + INPUT_BUF) % UINT \in 0 .. UINT - 1
      /\ in.r + INPUT_BUF < UINT => (in.r + INPUT_BUF) % UINT = in.r + INPUT_BUF
      /\ in.r + INPUT_BUF >= UINT => (in.r + INPUT_BUF) % UINT = in.r + INPUT_BUF - UINT
  BY <1>1, <1>2, AddIs, Zenon
<1>4. /\ in.r <= in.e => Sub(in.e, in.r) = in.e - in.r
      /\ in.e < in.r => Sub(in.e, in.r) = in.e - in.r + UINT
  BY <1>2, SubIs, Zenon
<1> QED  BY <1>1, <1>2, <1>3, <1>4

(* Nothing lies between an index and itself. *)
LEMMA EmptySpan ==
  ASSUME NEW in \in Ring, NEW a \in 0 .. UINT - 1
  PROVE  Sub(a, a) = 0 /\ Span(in, a, a) = << >>
<1>1. Sub(a, a) = 0
  BY SubIs, Sizes
<1>2. Span(in, a, a) \in Seq(Stored) /\ Len(Span(in, a, a)) = 0
  BY <1>1, SpanIs, Zenon
<1> QED  BY <1>1, <1>2

(* A sleeper is woken up when a line is finished. *)
LEMMA WakeupIs ==
  ASSUME TypeOK, Unlocked, Wanting, pc' = wakeup, UNCHANGED n
  PROVE  /\ pc' \in [Procs -> {"user", "sleep", "asleep", "awake", "gone"}]
         /\ Wanting'
         /\ \A p \in Procs : pc'[p] \notin {"sleep", "asleep"}
BY Zenon DEF TypeOK, Unlocked, Wanting, wakeup

(***************************************************************************)
(* A character that is put into the ring is typed.                         *)
(***************************************************************************)
Puts(c) ==
  LET in == PutIn(input, c)
  IN  IF Commits(c, in) THEN input' = [in EXCEPT !.w = in.e] /\ pc' = wakeup
                        ELSE input' = in /\ UNCHANGED pc

LEMMA PutsStep ==
  ASSUME RingInv, Unlocked, NEW c \in Chars, Sub(input.e, input.r) < INPUT_BUF,
         Puts(c), UNCHANGED readVars
  PROVE  RingInv' /\ Abstract!Type(c)
<1> DEFINE new == PutIn(input, c)
           a == Span(input, input.r, input.w)
           b == Span(input, input.w, input.e)
           d == Sub(input.w, input.r)
           l == Sub(input.e, input.w)
<1>0. /\ INPUT_BUF \in Nat /\ UINT \in Nat /\ d \in Nat /\ l \in Nat
      /\ input \in Ring /\ Indices(input) /\ d + l = Sub(input.e, input.r) /\ d + l < INPUT_BUF
      /\ input.r \in 0 .. UINT - 1 /\ input.w \in 0 .. UINT - 1 /\ input.e \in 0 .. UINT - 1
  BY Sizes, Distances DEF RingInv, TypeOK, Indices
<1>1. c \in Stored
  BY Zenon DEF Stored
<1>2. /\ new \in Ring /\ new.r = input.r /\ new.w = input.w
      /\ Sub(new.e, input.w) = l + 1
      /\ Sub(new.e, input.r) = d + l + 1
      /\ At(new, input.e) = c
      /\ \A i \in 0 .. l - 1 : At(new, input.w + i) = At(input, input.w + i)
  <2>1. Sub(input.e, input.r) + 1 = d + l + 1
    BY <1>0, Zenon
  <2> QED  BY <1>0, <1>1, <2>1, PutRing, Zenon
<1>3. /\ Span(new, input.w, new.e) = Append(b, c)
      /\ Span(new, input.r, input.w) = a
      /\ Span(new, input.r, new.e) = a \o Append(b, c)
  BY <1>0, <1>1, PutSpans, Zenon
<1>4. new.e \in 0 .. UINT - 1
  BY <1>2, Zenon DEF Ring
<1>5. new.e = (new.r + INPUT_BUF) % UINT <=> Sub(new.e, new.r) = INPUT_BUF
  BY <1>2, FullIs, Zenon
<1>6. Commits(c, new) <=> c \in {"NL", "EOF"} \/ d + l + 1 = INPUT_BUF
  BY <1>2, <1>5, Zenon DEF Commits
<1>7. /\ a \in Seq(Stored) /\ b \in Seq(Stored) /\ Len(a) = d /\ Len(b) = l
      /\ Len(Append(b, c)) = l + 1
  <2>1. a \in Seq(Stored) /\ b \in Seq(Stored) /\ Len(a) = d /\ Len(b) = l
    BY <1>0, SpanIs, Zenon
  <2> HIDE DEF a, b, l, d
  <2> QED  BY <2>1, <1>0, <1>1
<1>8. /\ Between(input.r, input.w) = a /\ Between(input.w, input.e) = b
      /\ Between(input.r, input.w)' = Span(input', input'.r, input'.w)
      /\ Between(input.w, input.e)' = Span(input', input'.w, input'.e)
  BY Zenon DEF Between, Span
<1>9. dst' = dst /\ n' = n
  BY Zenon DEF readVars
<1>10. IF Commits(c, new) THEN input' = [new EXCEPT !.w = new.e] /\ pc' = wakeup
                          ELSE input' = new /\ UNCHANGED pc
  BY Zenon DEF Puts
<1> HIDE DEF new, a, b, d, l
<1>11. CASE Commits(c, new)
  <2>1. /\ input' \in Ring /\ input'.r = input.r /\ input'.w = new.e /\ input'.e = new.e
        /\ input'.buf = new.buf
    BY <1>2, <1>4, <1>10, <1>11, Zenon DEF Ring
  <2>2. Sub(new.e, new.e) = 0 /\ Span(input', new.e, new.e) = << >>
    BY <1>4, <2>1, EmptySpan, Zenon
  <2>3. Indices(input)'
    BY <1>0, <1>2, <2>1, <2>2 DEF Indices
  <2>4. Unended(input)'
    BY <2>1, <2>2 DEF Unended
  <2>5. /\ pc' \in [Procs -> {"user", "sleep", "asleep", "awake", "gone"}] /\ Wanting'
        /\ \A p \in Procs : pc'[p] \notin {"sleep", "asleep"}
    BY <1>9, <1>10, <1>11, WakeupIs, Zenon DEF RingInv
  <2>6. TypeOK'
    BY <1>9, <2>1, <2>5, Zenon DEF RingInv, TypeOK
  <2>7. RingInv'
    BY <2>3, <2>4, <2>5, <2>6, Zenon DEF RingInv, Waiting
  <2>8. /\ Between(input.r, input.w)' = a \o Append(b, c)
        /\ Between(input.w, input.e)' = << >>
    <3>1. Span(input', input.r, new.e) = Span(new, input.r, new.e)
      BY <2>1, Zenon DEF Span, At
    <3> QED  BY <1>3, <1>8, <2>1, <2>2, <3>1, Zenon
  <2>9. Abstract!Type(c)
    <3>1. Len(a) + Len(Append(b, c)) <= INPUT_BUF
      BY <1>0, <1>7
    <3>2. c \in Abstract!Final \/ Len(a) + Len(Append(b, c)) = INPUT_BUF
      BY <1>0, <1>6, <1>7, <1>11 DEF Abstract!Final
    <3> QED  BY <1>8, <1>9, <2>8, <3>1, <3>2, Zenon DEF Abstract!Type
  <2> QED  BY <2>7, <2>9, Zenon
<1>12. CASE ~ Commits(c, new)
  <2>1. input' = new /\ pc' = pc
    BY <1>10, <1>12, Zenon
  <2>2. c \notin {"NL", "EOF"} /\ d + l + 1 # INPUT_BUF
    BY <1>6, <1>12, Zenon
  <2>3. Indices(input)'
    BY <1>0, <1>2, <2>1, <2>2 DEF Indices, d, l
  <2>4. ASSUME NEW j \in 0 .. l  PROVE At(new, input.w + j) # "NL"
    <3>1. CASE j \in 0 .. l - 1
      BY <1>2, <3>1, Zenon DEF RingInv, Unended, l
    <3>2. CASE j = l
      <4>0. input.w \in 0 .. UINT - 1 /\ input.e \in 0 .. UINT - 1 /\ 0 \in Int
        BY <1>0
      <4>1. (input.e + 0) % INPUT_BUF = (input.w + Sub(input.e, input.w) + 0) % INPUT_BUF
        BY <4>0, SlotFrom, Zenon
      <4>2. input.e + 0 = input.e /\ input.w + Sub(input.e, input.w) + 0 = input.w + j
        BY <1>0, <3>2 DEF l
      <4>3. At(new, input.w + j) = c
        BY <1>2, <4>1, <4>2, Zenon DEF At
      <4> QED  BY <2>2, <4>3, Zenon
    <3> QED  BY <1>0, <3>1, <3>2
  <2>5. Unended(input)'
    <3>1. Sub(new.e, new.w) - 1 = l
      BY <1>0, <1>2
    <3> QED  BY <1>2, <2>1, <2>4, <3>1, Zenon DEF Unended
  <2>6. TypeOK'
    BY <1>2, <1>9, <2>1, Zenon DEF RingInv, TypeOK
  <2>7. RingInv'
    BY <1>2, <1>9, <2>1, <2>3, <2>5, <2>6, Zenon DEF RingInv, Wanting, Waiting
  <2>8. /\ Between(input.r, input.w)' = a
        /\ Between(input.w, input.e)' = Append(b, c)
    BY <1>2, <1>3, <1>8, <2>1
  <2>9. Abstract!Type(c)
    <3>1. Len(a) + Len(Append(b, c)) <= INPUT_BUF
      BY <1>0, <1>7
    <3>2. ~ (c \in Abstract!Final \/ Len(a) + Len(Append(b, c)) = INPUT_BUF)
      BY <1>0, <1>7, <2>2 DEF Abstract!Final
    <3> QED  BY <1>8, <1>9, <2>8, <3>1, <3>2, Zenon DEF Abstract!Type
  <2> QED  BY <2>7, <2>9, Zenon
<1> QED  BY <1>11, <1>12, Zenon

(* What ^U and backspace do: the line loses its last character, or all of it. *)
LEMMA EraseStep ==
  ASSUME RingInv, NEW c, input' = TakeBack(input, Erases(c)), UNCHANGED pc,
         UNCHANGED readVars
  PROVE  RingInv' /\ (Abstract!Erase \/ UNCHANGED Abstract!vars)
<1> DEFINE k == Erases(c)
           b == Span(input, input.w, input.e)
           d == Sub(input.w, input.r)
           l == Sub(input.e, input.w)
<1>0. /\ INPUT_BUF \in Nat /\ UINT \in Nat /\ d \in Nat /\ l \in Nat
      /\ input \in Ring /\ Indices(input) /\ d + l = Sub(input.e, input.r) /\ d + l <= INPUT_BUF
      /\ d + l = INPUT_BUF => l = 0
      /\ input.r \in 0 .. UINT - 1 /\ input.w \in 0 .. UINT - 1 /\ input.e \in 0 .. UINT - 1
  BY Sizes, Distances, EmptySpan DEF RingInv, TypeOK, Indices
<1>1. k \in {0, 1, l} /\ k \in 0 .. l /\ (k = 0 => l = 0)
  BY ErasesIs, Zenon DEF RingInv, TypeOK
<1> HIDE DEF k
<1>2. /\ input' \in Ring /\ input'.buf = input.buf
      /\ input'.w = input.w /\ input'.r = input.r
      /\ Sub(input'.e, input.w) = l - k
      /\ Sub(input'.e, input.r) = d + l - k
  <2>1. Sub(input.e, input.r) - k = d + l - k
    BY <1>0, <1>1
  <2>2. input' = TakeBack(input, k)
    BY Zenon DEF k
  <2> QED  BY <1>0, <1>1, <2>1, <2>2, BackRing, Zenon
<1>3. /\ Span(input', input.w, input'.e) = SubSeq(b, 1, Len(b) - k)
      /\ Span(input', input.r, input.w) = Span(input, input.r, input.w)
  BY <1>0, <1>1, BackSpans, Zenon DEF k
<1>4. b \in Seq(Stored) /\ Len(b) = l
  BY <1>0, SpanIs, Zenon
<1>5. /\ Between(input.w, input.e) = b
      /\ Between(input.r, input.w)' = Between(input.r, input.w)
      /\ Between(input.w, input.e)' = SubSeq(b, 1, Len(b) - k)
  BY <1>2, <1>3, Zenon DEF Between, Span
<1>6. dst' = dst /\ n' = n /\ pc' = pc
  BY Zenon DEF readVars
<1>7. Unended(input)'
  <2>1. ASSUME NEW j \in 0 .. l - k - 1  PROVE At(input', input.w + j) # "NL"
    <3>1. j \in 0 .. l - 1
      BY <1>0, <1>1
    <3>2. At(input', input.w + j) = At(input, input.w + j)
      BY <1>2, Zenon DEF At
    <3> QED  BY <3>1, <3>2, Zenon DEF RingInv, Unended
  <2> QED  BY <1>2, <2>1, Zenon DEF Unended
<1> HIDE DEF b
<1>8. Indices(input)'
  <2>1. Sub(input'.w, input'.r) = d
    BY <1>2, Zenon
  <2>2. k # 0 => d + l - k < INPUT_BUF
    BY <1>0, <1>1
  <2>3. k = 0 => Sub(input'.e, input.w) = 0
    BY <1>0, <1>1, <1>2
  <2>4. Sub(input'.e, input.w) = 0 => input'.e = input.w
    <3>1. input'.e \in 0 .. UINT - 1
      BY <1>2, Zenon DEF Ring
    <3>2. /\ input.w <= input'.e => Sub(input'.e, input.w) = input'.e - input.w
          /\ input'.e < input.w => Sub(input'.e, input.w) = input'.e - input.w + UINT
      BY <1>0, <3>1, SubIs, Zenon
    <3> QED  BY <1>0, <3>1, <3>2
  <2> HIDE DEF d, l
  <2> QED  BY <1>0, <1>1, <1>2, <2>1, <2>2, <2>3, <2>4 DEF Indices
<1>9. TypeOK'
  BY <1>2, <1>6, Zenon DEF RingInv, TypeOK
<1>10. RingInv'
  BY <1>2, <1>6, <1>7, <1>8, <1>9 DEF RingInv, Wanting, Waiting
<1>11. CASE l = 0
  <2>1. SubSeq(b, 1, Len(b) - k) = b
    BY <1>1, <1>4, <1>11
  <2> QED  BY <1>5, <1>6, <1>10, <2>1, Zenon DEF Abstract!vars
<1>12. CASE l # 0
  <2>1. b # << >>
    BY <1>0, <1>4, <1>12, Zenon
  <2>2. SubSeq(b, 1, Len(b) - k) \in {SubSeq(b, 1, Len(b) - 1), << >>}
    <3>1. k = 1 \/ k = l
      BY <1>1, <1>12, Zenon
    <3>2. k = l => SubSeq(b, 1, Len(b) - k) = << >>
      BY <1>0, <1>4
    <3> QED  BY <3>1, <3>2, Zenon
  <2> QED  BY <1>5, <1>6, <1>10, <2>1, <2>2, Zenon DEF Abstract!Erase
<1> QED  BY <1>11, <1>12, Zenon

(* The characters that the two devices send. *)
Sent == {"BS", "u", "U", "NL", "d", "D", "KILL", "CR", "EOF", "NUL"} \union Serial

LEMMA KeySends ==
  ASSUME NEW data
  PROVE  kbdgetc(data).c \in Sent
<1>1. ASSUME NEW bits, NEW k
      PROVE  charcode(bits, k) \in Sent /\ Swapped(charcode(bits, k)) \in Sent
  <2>1. ASSUME NEW x \in {"BS", "u", "U", "NL", "d", "D", "KILL", "CR", "EOF", "NUL"}
        PROVE  Swapped(x) \in Sent
    BY Zenon DEF Swapped, Sent
  <2>2. charcode(bits, k) \in {"BS", "u", "U", "NL", "d", "D", "KILL", "CR", "EOF", "NUL"}
    BY Zenon DEF charcode, ctlmap, shiftmap, normalmap
  <2> QED  BY <2>1, <2>2, Zenon DEF Sent
<1>2. "NUL" \in Sent
  BY Zenon DEF Sent
<1> QED  BY <1>1, <1>2 DEF kbdgetc

(* A character from a device is typed, is dropped, or erases. *)
LEMMA IntrStep ==
  ASSUME RingInv, NEW c \in Sent, consoleintr(c)
  PROVE  /\ RingInv'
         /\ Abstract!Erase \/ UNCHANGED Abstract!vars \/ \E x \in Chars : Abstract!Type(x)
<1>1. Unlocked /\ UNCHANGED readVars
  BY Zenon DEF consoleintr
<1>2. CASE c \in {"KILL", "BS", "DEL"}
  <2>1. input' = TakeBack(input, Erases(c)) /\ UNCHANGED pc
    BY <1>2, Zenon DEF consoleintr, TakeBack
  <2> QED  BY <1>1, <2>1, EraseStep, Zenon
<1>3. CASE c \notin {"KILL", "BS", "DEL"}
  <2> DEFINE ch == IF c = "CR" THEN "NL" ELSE c
  <2>1. Put(c)
    BY <1>3, Zenon DEF consoleintr
  <2>2. CASE c # "NUL" /\ Sub(input.e, input.r) < INPUT_BUF
    <3>1. ch \in Chars
      BY <1>3, <2>2, Zenon DEF Sent, Chars
    <3>2. Puts(ch)
      BY <2>1, <2>2, Zenon DEF Put, Puts, PutIn
    <3> HIDE DEF ch
    <3> QED  BY <1>1, <2>2, <3>1, <3>2, PutsStep, Zenon
  <2>3. CASE ~ (c # "NUL" /\ Sub(input.e, input.r) < INPUT_BUF)
    <3>1. UNCHANGED <<input, pc, n, dst>>
      BY <1>1, <2>1, <2>3, Zenon DEF Put, readVars
    <3>2. RingInv'
      BY <3>1, Zenon DEF RingInv, TypeOK, Indices, Unended, Wanting, Waiting
    <3>3. UNCHANGED Abstract!vars
      BY <3>1, Zenon DEF Abstract!vars, Between
    <3> QED  BY <3>2, <3>3, Zenon
  <2> QED  BY <2>2, <2>3, Zenon
<1> QED  BY <1>2, <1>3, Zenon

-----------------------------------------------------------------------------
(***************************************************************************)
(* What the loop of consoleread() takes: k characters and x EOFs.          *)
(***************************************************************************)
Takes(p, left, got, k, x) ==
  LET c(i) == At(input, input.r + i)
      d == Sub(input.w, input.r)
      all == got \o [i \in 1 .. k |-> c(i - 1)]
  IN  /\ k \in 0 .. d /\ k + x <= d
      /\ \A i \in 0 .. k - 1 : c(i) # "EOF" /\ (c(i) = "NL" => i = k - 1)
      /\ x = IF Len(got) + k = 0 /\ k < d /\ c(k) = "EOF" THEN 1 ELSE 0
      /\ input' = TakeOut(input, k + x)
      /\ dst' = [dst EXCEPT ![p] = all]
      /\ \/ /\ pc' = [pc EXCEPT ![p] = "sleep"]
            /\ k + x = d /\ k < left /\ n' = [n EXCEPT ![p] = left - k]
         \/ /\ \E q \in {"user", "gone"} : pc' = [pc EXCEPT ![p] = q]
            /\ \E m \in Nat : n' = [n EXCEPT ![p] = m]

LEMMA ReadTakes ==
  ASSUME RingInv, NEW p \in Procs, NEW left \in Nat \ {0}, NEW got \in Seq(Stored),
         ReadLoop(p, left, got)
  PROVE  \E k \in Nat, x \in {0, 1} : Takes(p, left, got, k, x)
<1> DEFINE c(i) == At(input, input.r + i)
           d == Sub(input.w, input.r)
           most == Min({left, d})
           ends == {i \in 0 .. most - 1 : c(i) \in {"NL", "EOF"}}
           stop == Min(ends)
           k == IF ends = {} THEN most ELSE IF c(stop) = "NL" THEN stop + 1 ELSE stop
           eof == ends # {} /\ c(stop) = "EOF"
           more == ends = {} /\ k < left
           all == got \o [i \in 1 .. k |-> c(i - 1)]
           x == IF eof THEN Eof(Len(all)) ELSE 0
<1>0. /\ INPUT_BUF \in Nat /\ UINT \in Nat \ {0} /\ d \in Nat
      /\ input \in Ring /\ Indices(input) /\ input.r \in 0 .. UINT - 1
  BY Sizes, Distances DEF RingInv, TypeOK
<1>1. /\ input' = [input EXCEPT !.r = (@ + k + x) % UINT]
      /\ dst' = [dst EXCEPT ![p] = all]
      /\ n' = [n EXCEPT ![p] = IF more THEN left - k ELSE 0]
      /\ pc' = [pc EXCEPT ![p] = IF more /\ ~killed[p] THEN "sleep" ELSE Returns(p)]
  BY Zenon DEF ReadLoop
<1> HIDE DEF d
<1>2. most = IF left <= d THEN left ELSE d
  BY <1>0, LeastOfTwo, Zenon
<1> HIDE DEF most
<1>3. most \in Nat /\ most <= d /\ (d > 0 => most > 0) /\ (most < left => most = d)
  BY <1>0, <1>2
<1> HIDE DEF c
<1>4. ends \in SUBSET Nat /\ ends \subseteq 0 .. most - 1
  BY <1>3
<1>5. ends # {} => stop \in ends /\ \A i \in ends : stop <= i
  BY <1>4, MinIs, Zenon
<1>6. ASSUME ends # {}
      PROVE  /\ stop \in 0 .. most - 1 /\ c(stop) \in {"NL", "EOF"}
             /\ \A i \in 0 .. stop - 1 : c(i) \notin {"NL", "EOF"}
  <2> HIDE DEF stop
  <2>1. stop \in 0 .. most - 1 /\ c(stop) \in {"NL", "EOF"}
    BY <1>5, <1>6, Zenon
  <2>2. ASSUME NEW i \in 0 .. stop - 1, c(i) \in {"NL", "EOF"}  PROVE FALSE
    <3>1. i \in 0 .. most - 1 /\ ~ (stop <= i)
      BY <1>3, <2>1, <2>2
    <3> QED  BY <1>5, <1>6, <2>2, <3>1, Zenon
  <2> QED  BY <2>1, <2>2, Zenon
<1>7. ends = {} => \A i \in 0 .. most - 1 : c(i) \notin {"NL", "EOF"}
  OBVIOUS
<1>8. (0 \in ends /\ c(0) = "EOF") => stop = 0
  BY <1>4, <1>5
<1>9. most > 0 /\ c(0) = "EOF" => 0 \in ends
  BY <1>3
<1> HIDE DEF stop, ends
<1>10. /\ k \in 0 .. most
       /\ \A i \in 0 .. k - 1 : c(i) # "EOF" /\ (c(i) = "NL" => i = k - 1)
  <2>1. CASE ends = {}
    BY <1>3, <1>7, <2>1
  <2>2. CASE ends # {} /\ c(stop) = "NL"
    <3>1. k = stop + 1
      BY <2>2, Zenon
    <3>2. ASSUME NEW i \in 0 .. k - 1  PROVE i = stop \/ i \in 0 .. stop - 1
      BY <1>3, <1>6, <2>2, <3>1
    <3> HIDE DEF k
    <3>3. stop = k - 1 /\ k \in 0 .. most
      BY <1>3, <1>6, <2>2, <3>1
    <3> QED  BY <1>6, <2>2, <3>2, <3>3, Zenon
  <2>3. CASE ends # {} /\ c(stop) # "NL"
    <3>1. k = stop
      BY <2>3, Zenon
    <3> HIDE DEF k
    <3>2. k \in 0 .. most
      BY <1>3, <1>6, <2>3, <3>1
    <3> QED  BY <1>6, <2>3, <3>1, <3>2, Zenon
  <2> QED  BY <2>1, <2>2, <2>3, Zenon
<1>11. eof => k < most /\ c(k) = "EOF" /\ ends # {}
  BY <1>3, <1>6
<1>12. eof <=> ends # {} /\ c(stop) = "EOF"
  OBVIOUS
<1>13. more => ends = {} /\ k = most /\ k < left
  OBVIOUS
<1> HIDE DEF k, eof
<1>14. all \in Seq(Stored) /\ Len(all) = Len(got) + k /\ Len(all) \in Nat
  <2> DEFINE f == [i \in 1 .. k |-> c(i - 1)]
  <2>1. k \in Nat
    BY <1>3, <1>10
  <2>2. \A i \in 1 .. k : c(i - 1) \in Stored
    BY <1>0, <2>1, AtIs DEF c
  <2>3. f \in [1 .. k -> Stored]
    BY <2>2, Zenon
  <2>4. f \in Seq(Stored) /\ Len(f) = k
    BY <2>1, <2>3, FunctionIsSeq, Zenon
  <2> HIDE DEF f
  <2>5. got \o f \in Seq(Stored) /\ Len(got \o f) = Len(got) + k
    BY <2>4
  <2> QED  BY <2>1, <2>5 DEF f
<1>15. k \in Nat /\ Len(got) \in Nat
  BY <1>3, <1>10
<1> HIDE DEF all
<1>16. x = IF Len(got) + k = 0 /\ k < d /\ c(k) = "EOF" THEN 1 ELSE 0
  <2>1. CASE eof
    <3>1. k < d /\ c(k) = "EOF"
      BY <1>0, <1>3, <1>11, <1>15, <2>1
    <3>2. x = IF Len(got) + k > 0 THEN 0 ELSE 1
      BY <1>14, <2>1, Zenon DEF Eof
    <3> QED  BY <1>15, <3>1, <3>2
  <2>2. CASE ~ eof
    <3>1. x = 0
      BY <2>2, Zenon
    <3>2. ASSUME Len(got) + k = 0, k < d, c(k) = "EOF"  PROVE FALSE
      <4>1. k = 0 /\ most > 0
        BY <1>0, <1>3, <1>15, <3>2
      <4>2. 0 \in ends /\ c(0) = "EOF"
        BY <1>9, <3>2, <4>1, Zenon
      <4>3. stop = 0
        BY <1>8, <4>2, Zenon
      <4> QED  BY <1>12, <2>2, <4>2, <4>3, Zenon
    <3> QED  BY <3>1, <3>2, Zenon
  <2> QED  BY <2>1, <2>2, Zenon
<1>17. more => x = 0
  BY <1>11, <1>13
<1> HIDE DEF x, more
<1>18. x \in {0, 1} /\ k \in 0 .. d /\ k + x <= d
  BY <1>0, <1>3, <1>10, <1>15, <1>16
<1>19. input' = TakeOut(input, k + x)
  <2>1. input.r + k + x = input.r + (k + x)
    BY <1>0, <1>15, <1>18
  <2> QED  BY <1>1, <2>1, Zenon DEF TakeOut
<1>20. \/ /\ pc' = [pc EXCEPT ![p] = "sleep"]
          /\ k + x = d /\ k < left /\ n' = [n EXCEPT ![p] = left - k]
       \/ /\ \E q \in {"user", "gone"} : pc' = [pc EXCEPT ![p] = q]
          /\ \E m \in Nat : n' = [n EXCEPT ![p] = m]
  <2>1. CASE more /\ ~killed[p]
    <3>1. k + x = d /\ k < left
      BY <1>0, <1>3, <1>13, <1>15, <1>17, <2>1
    <3> QED  BY <1>1, <2>1, <3>1, Zenon
  <2>2. CASE ~ (more /\ ~killed[p])
    <3>1. \E q \in {"user", "gone"} : pc' = [pc EXCEPT ![p] = q]
      BY <1>1, <2>2, Zenon DEF Returns
    <3>2. more => left - k \in Nat
      BY <1>13, <1>15
    <3>3. \E m \in Nat : n' = [n EXCEPT ![p] = m]
      BY <1>1, <3>2, Zenon
    <3> QED  BY <3>1, <3>3, Zenon
  <2> QED  BY <2>1, <2>2, Zenon
<1>21. Takes(p, left, got, k, x)
  BY <1>1, <1>10, <1>16, <1>18, <1>19, <1>20, Zenon DEF Takes, all, c, d
<1> QED  BY <1>15, <1>18, <1>21, Zenon

LEMMA ReadStep ==
  ASSUME RingInv, Unlocked, NEW p \in Procs, NEW left \in Nat \ {0},
         NEW got \in Seq(Stored), ReadLoop(p, left, got)
  PROVE  RingInv' /\ \E k \in 0 .. INPUT_BUF : Abstract!Read(p, got, k)
<1>1. PICK k \in Nat, x \in {0, 1} : Takes(p, left, got, k, x)
  BY ReadTakes, Zenon
<1> DEFINE c(i) == At(input, input.r + i)
           d == Sub(input.w, input.r)
           a == Span(input, input.r, input.w)
           f == [i \in 1 .. k |-> c(i - 1)]
           all == got \o f
<1>2. /\ k \in 0 .. d /\ k + x <= d
      /\ \A i \in 0 .. k - 1 : c(i) # "EOF" /\ (c(i) = "NL" => i = k - 1)
      /\ x = IF Len(got) + k = 0 /\ k < d /\ c(k) = "EOF" THEN 1 ELSE 0
      /\ input' = TakeOut(input, k + x)
      /\ dst' = [dst EXCEPT ![p] = all]
      /\ \/ /\ pc' = [pc EXCEPT ![p] = "sleep"]
            /\ k + x = d /\ k < left /\ n' = [n EXCEPT ![p] = left - k]
         \/ /\ \E q \in {"user", "gone"} : pc' = [pc EXCEPT ![p] = q]
            /\ \E m \in Nat : n' = [n EXCEPT ![p] = m]
  BY <1>1, Zenon DEF Takes
<1>3. /\ INPUT_BUF \in Nat /\ UINT \in Nat \ {0} /\ d \in Nat
      /\ input \in Ring /\ Indices(input) /\ input.r \in 0 .. UINT - 1
      /\ input.w \in 0 .. UINT - 1 /\ input.e \in 0 .. UINT - 1
      /\ d <= INPUT_BUF /\ Sub(input.e, input.w) \in Nat /\ Sub(input.e, input.r) \in Nat
  BY Sizes, Distances DEF RingInv, TypeOK, Indices
<1>4. k + x \in 0 .. d
  BY <1>2, <1>3
<1>5. /\ input' \in Ring /\ input'.buf = input.buf /\ input'.w = input.w /\ input'.e = input.e
      /\ Sub(input.w, input'.r) = d - (k + x)
      /\ Sub(input.e, input'.r) = Sub(input.e, input.r) - (k + x)
  BY <1>2, <1>3, <1>4, TakeRing, Zenon
<1>6. /\ Span(input', input'.r, input.w) = SubSeq(a, k + x + 1, Len(a))
      /\ Span(input', input.w, input.e) = Span(input, input.w, input.e)
  BY <1>2, <1>3, <1>4, TakeSpans, Zenon
<1>7. /\ Between(input.r, input.w) = a
      /\ Between(input.r, input.w)' = SubSeq(a, k + x + 1, Len(a))
      /\ Between(input.w, input.e)' = Between(input.w, input.e)
  BY <1>5, <1>6, Zenon DEF Between, Span
<1>8. /\ a \in Seq(Stored) /\ Len(a) = d
      /\ \A i \in 1 .. d : a[i] = c(i - 1)
  <2>1. /\ a \in Seq(Stored) /\ Len(a) = d
        /\ \A i \in 1 .. d : a[i] = At(input, input.r + i - 1)
    BY <1>3, SpanIs, Zenon
  <2>2. \A i \in 1 .. d : input.r + i - 1 = input.r + (i - 1)
    BY <1>3, Zenon
  <2> QED  BY <2>1, <2>2, Zenon
<1> HIDE DEF c, d, a
<1>9. f \in Seq(Stored) /\ Len(f) = k /\ \A i \in 1 .. k : f[i] = c(i - 1)
  <2>2. ASSUME NEW i \in 1 .. k  PROVE c(i - 1) \in Stored
    <3>1. input.r + (i - 1) \in Int
      BY <1>3
    <3> QED  BY <1>3, <3>1, AtIs, Zenon DEF c
  <2>3. f \in [1 .. k -> Stored]
    BY <2>2, Zenon
  <2> QED  BY <2>3, FunctionIsSeq, Zenon
<1> HIDE DEF f
<1>10. f = SubSeq(a, 1, k)
  <2> DEFINE t == SubSeq(a, 1, k)
  <2>1. t \in Seq(Stored) /\ Len(t) = k /\ \A i \in 1 .. k : t[i] = a[i]
    BY <1>2, <1>3, <1>8
  <2> HIDE DEF t
  <2>2. ASSUME NEW i \in 1 .. k  PROVE f[i] = t[i]
    <3>1. i \in 1 .. d
      BY <1>2, <1>3
    <3> QED  BY <1>8, <1>9, <2>1, <3>1, Zenon
  <2>3. f = t
    BY <1>9, <2>1, <2>2, SeqsEqual, Zenon
  <2> QED  BY <2>3, Zenon DEF t
<1>11. all \in Seq(Stored) /\ Len(all) = Len(got) + k /\ (all = << >> <=> Len(got) + k = 0)
  BY <1>9
<1> HIDE DEF all
<1>12. RingInv'
  <2>1. TypeOK'
    <3>1. pc' \in [Procs -> {"user", "sleep", "asleep", "awake", "gone"}]
      BY <1>2, Zenon DEF RingInv, TypeOK
    <3>2. n' \in [Procs -> Nat]
      <4>1. k < left => left - k \in Nat
        OBVIOUS
      <4> QED  BY <1>2, <4>1, Zenon DEF RingInv, TypeOK
    <3>3. dst' \in [Procs -> Seq(Stored)]
      BY <1>2, <1>11, Zenon DEF RingInv, TypeOK
    <3> QED  BY <1>5, <3>1, <3>2, <3>3, Zenon DEF TypeOK
  <2>2. Indices(input)'
    <3>1. /\ d + Sub(input.e, input.w) = Sub(input.e, input.r)
          /\ Sub(input.e, input.r) <= INPUT_BUF
          /\ Sub(input.e, input.r) = INPUT_BUF => input.w = input.e
      BY <1>3, Zenon DEF Indices, d
    <3>2. /\ Sub(input'.w, input'.r) = d - (k + x)
          /\ Sub(input'.e, input'.w) = Sub(input.e, input.w)
          /\ Sub(input'.e, input'.r) = Sub(input.e, input.r) - (k + x)
      BY <1>5, Zenon
    <3>3. /\ d - (k + x) + Sub(input.e, input.w) = Sub(input.e, input.r) - (k + x)
          /\ Sub(input.e, input.r) - (k + x) <= INPUT_BUF
          /\ Sub(input.e, input.r) - (k + x) = INPUT_BUF => Sub(input.e, input.r) = INPUT_BUF
      <4> DEFINE y == k + x
                 s == Sub(input.e, input.r)
                 l == Sub(input.e, input.w)
      <4>1. y \in 0 .. d /\ d + l = s /\ s <= INPUT_BUF /\ s \in Nat /\ l \in Nat
        BY <1>3, <1>4, <3>1, Zenon
      <4> HIDE DEF y, s, l
      <4>2. d - y + l = s - y /\ s - y <= INPUT_BUF /\ (s - y = INPUT_BUF => s = INPUT_BUF)
        BY <1>3, <4>1
      <4> QED  BY <4>2, Zenon DEF y, s, l
    <3> QED  BY <1>5, <3>1, <3>2, <3>3, Zenon DEF Indices
  <2>3. Unended(input)'
    BY <1>5, Zenon DEF RingInv, Unended, At
  <2>4. Wanting'
    <3>1. k < left => left - k > 0
      OBVIOUS
    <3> QED  BY <1>2, <3>1, Zenon DEF RingInv, TypeOK, Wanting
  <2>5. Waiting'
    <3>1. ASSUME NEW q \in Procs, pc'[q] \in {"sleep", "asleep"}  PROVE k + x = d
      <4>1. CASE q = p
        BY <1>2, <3>1, <4>1, Zenon DEF RingInv, TypeOK
      <4>2. CASE q # p
        <5>1. pc[q] = "asleep"
          BY <1>2, <3>1, <4>2, Zenon DEF RingInv, TypeOK, Unlocked
        <5>2. input.r = input.w
          BY <5>1, Zenon DEF RingInv, Waiting
        <5>3. d = 0
          BY <1>3, <5>2, EmptySpan, Zenon DEF d
        <5> QED  BY <1>4, <5>3
      <4> QED  BY <4>1, <4>2, Zenon
    <3>2. k + x = d => input'.r = input'.w
      <4>1. input'.r \in 0 .. UINT - 1
        BY <1>5, Zenon DEF Ring
      <4>2. /\ input'.r <= input.w => Sub(input.w, input'.r) = input.w - input'.r
            /\ input.w < input'.r => Sub(input.w, input'.r) = input.w - input'.r + UINT
        BY <1>3, <4>1, SubIs, Zenon
      <4> QED  BY <1>3, <1>4, <1>5, <4>1, <4>2
    <3> QED  BY <3>1, <3>2, Zenon DEF Waiting
  <2> QED  BY <2>1, <2>2, <2>3, <2>4, <2>5, Zenon DEF RingInv
<1>13. Abstract!Read(p, got, k)
  <2> DEFINE rest == SubSeq(a, k + 1, Len(a))
             ends == all = << >> /\ rest # << >> /\ Head(rest) = "EOF"
  <2>1. k <= Len(a)
    BY <1>2, <1>8
  <2>2. ASSUME NEW i \in 1 .. k  PROVE a[i] # "EOF" /\ (a[i] = "NL" => i = k)
    <3>1. i - 1 \in 0 .. k - 1 /\ i \in 1 .. d /\ (i - 1 = k - 1 => i = k)
      BY <1>2, <1>3
    <3> QED  BY <1>2, <1>8, <3>1, Zenon
  <2>3. /\ rest \in Seq(Stored) /\ Len(rest) = d - k
        /\ k < d => rest[1] = a[k + 1] /\ a[k + 1] = c(k)
    <3>1. rest \in Seq(Stored) /\ Len(rest) = d - k
      BY <1>2, <1>3, <1>8
    <3>2. k < d => rest[1] = a[k + 1]
      BY <1>2, <1>3, <1>8
    <3>3. k < d => k + 1 \in 1 .. d /\ k + 1 - 1 = k
      BY <1>2, <1>3
    <3> QED  BY <1>8, <3>1, <3>2, <3>3
  <2>4. ends <=> x = 1
    <3> HIDE DEF rest
    <3>1. rest # << >> <=> k < d
      BY <1>2, <1>3, <2>3
    <3>2. Head(rest) = rest[1]
      BY <2>3
    <3> QED  BY <1>2, <1>11, <2>3, <3>1, <3>2
  <2>5. x = 1 => SubSeq(a, k + x + 1, Len(a)) = Tail(rest)
    <3>1. ASSUME x = 1  PROVE k + 1 \in 1 .. Len(a) /\ Len(a) \in k + 1 .. Len(a)
      BY <1>2, <1>3, <1>8, <3>1
    <3>2. x = 1 => Tail(rest) = SubSeq(a, (k + 1) + 1, Len(a))
      BY <1>8, <3>1, HeadTailOfSubSeq, Zenon
    <3>3. x = 1 => k + x + 1 = (k + 1) + 1
      OBVIOUS
    <3> HIDE DEF rest
    <3> QED  BY <3>2, <3>3, Zenon
  <2>6. x # 1 => SubSeq(a, k + x + 1, Len(a)) = rest
    <3>1. x # 1 => k + x + 1 = k + 1
      OBVIOUS
    <3> QED  BY <3>1, Zenon
  <2>7. SubSeq(a, k + x + 1, Len(a)) = IF ends THEN Tail(rest) ELSE rest
    BY <2>4, <2>5, <2>6, Zenon
  <2>8. all = got \o SubSeq(a, 1, k)
    BY <1>10, Zenon DEF all
  <2>9. /\ Between(input.r, input.w)' =
             IF /\ got \o SubSeq(a, 1, k) = << >>
                /\ rest # << >> /\ Head(rest) = "EOF" THEN Tail(rest) ELSE rest
        /\ dst' = [dst EXCEPT ![p] = got \o SubSeq(a, 1, k)]
    BY <1>2, <1>7, <2>7, <2>8, Zenon
  <2> QED  BY <1>7, <2>1, <2>2, <2>9, Zenon DEF Abstract!Read
<1>14. k \in 0 .. INPUT_BUF
  BY <1>2, <1>3
<1> QED  BY <1>12, <1>13, <1>14, Zenon

-----------------------------------------------------------------------------
LEMMA RingInit ==
  ASSUME consoleinit
  PROVE  RingInv /\ Abstract!Init
<1>1. INPUT_BUF \in Nat \ {0} /\ UINT \in Nat \ {0} /\ 0 \in 0 .. UINT - 1
  BY Sizes
<1>2. input \in Ring /\ input.r = 0 /\ input.w = 0 /\ input.e = 0
  BY <1>1, Zenon DEF consoleinit, Ring, Stored
<1>3. Sub(0, 0) = 0 /\ Span(input, 0, 0) = << >>
  BY <1>1, <1>2, EmptySpan, Zenon
<1>4. TypeOK
  BY <1>2 DEF consoleinit, TypeOK
<1>5. RingInv
  BY <1>1, <1>2, <1>3, <1>4 DEF consoleinit, RingInv, Indices, Unended, Wanting, Waiting
<1>6. Between(input.r, input.w) = << >> /\ Between(input.w, input.e) = << >>
  BY <1>2, <1>3, Zenon DEF Between, Span
<1> QED  BY <1>5, <1>6, Zenon DEF consoleinit, Abstract!Init

(* Steps that leave the ring alone. *)
LEMMA RingKept ==
  ASSUME UNCHANGED <<input, dst>>
  PROVE  /\ UNCHANGED Abstract!vars
         /\ Indices(input) => Indices(input)'
         /\ Unended(input) => Unended(input)'
BY Zenon DEF Abstract!vars, Between, Indices, Unended

(* Every step keeps the invariant and is a step of the line editor. *)
LEMMA RingNext ==
  ASSUME RingInv, [Next]_vars
  PROVE  RingInv' /\ [Abstract!Next]_(Abstract!vars)
<1>1. CASE kbdintr
  <2>1. PICK data \in Bytes : consoleintr(kbdgetc(data).c)
    BY <1>1, Zenon DEF kbdintr
  <2>2. kbdgetc(data).c \in Sent
    BY KeySends, Zenon
  <2> QED  BY <2>1, <2>2, IntrStep, Zenon DEF Abstract!Next
<1>2. CASE uartintr
  <2>1. PICK c \in Serial : consoleintr(c)
    BY <1>2, Zenon DEF uartintr
  <2>2. c \in Sent
    BY Zenon DEF Sent
  <2> QED  BY <2>1, <2>2, IntrStep, Zenon DEF Abstract!Next
<1>3. ASSUME NEW p \in Procs, NEW count \in Counts, consoleread(p, count)
      PROVE  RingInv' /\ [Abstract!Next]_(Abstract!vars)
  <2>1. Unlocked /\ ReadLoop(p, count, << >>)
    BY <1>3, Zenon DEF consoleread
  <2>2. count \in Nat \ {0} /\ << >> \in Seq(Stored)
    BY ConsoleAssumption
  <2>3. RingInv' /\ \E k \in 0 .. INPUT_BUF : Abstract!Read(p, << >>, k)
    BY <2>1, <2>2, ReadStep, Zenon
  <2> QED  BY <2>3, Zenon DEF Abstract!Next
<1>4. ASSUME NEW p \in Procs, consoleread_on(p)
      PROVE  RingInv' /\ [Abstract!Next]_(Abstract!vars)
  <2>1. Unlocked /\ ReadLoop(p, n[p], dst[p])
    BY <1>4, Zenon DEF consoleread_on
  <2>2. n[p] \in Nat \ {0} /\ dst[p] \in Seq(Stored)
    BY <1>4 DEF consoleread_on, RingInv, TypeOK, Wanting
  <2>3. RingInv' /\ \E k \in 0 .. INPUT_BUF : Abstract!Read(p, dst[p], k)
    BY <2>1, <2>2, ReadStep, Zenon
  <2> QED  BY <2>3, Zenon DEF Abstract!Next
<1>5. ASSUME NEW p \in Procs, sleep(p)
      PROVE  RingInv' /\ [Abstract!Next]_(Abstract!vars)
  <2>1. UNCHANGED <<input, dst>>
    BY <1>5, Zenon DEF sleep
  <2>2. TypeOK' /\ Wanting' /\ Waiting'
    BY <1>5, Zenon DEF sleep, RingInv, TypeOK, Wanting, Waiting
  <2> QED  BY <2>1, <2>2, RingKept, Zenon DEF RingInv
<1>6. ASSUME NEW p \in Procs, NEW str \in Outputs, consolewrite(p, str)
      PROVE  RingInv' /\ [Abstract!Next]_(Abstract!vars)
  <2>1. UNCHANGED <<input, dst, pc, n>>
    BY <1>6, Zenon DEF consolewrite
  <2>2. TypeOK' /\ Wanting' /\ Waiting'
    BY <2>1, Zenon DEF RingInv, TypeOK, Wanting, Waiting
  <2> QED  BY <2>1, <2>2, RingKept, Zenon DEF RingInv
<1>7. ASSUME NEW p \in Procs, kill(p)
      PROVE  RingInv' /\ [Abstract!Next]_(Abstract!vars)
  <2>1. UNCHANGED <<input, dst>>
    BY <1>7, Zenon DEF kill
  <2>2. TypeOK' /\ Wanting' /\ Waiting'
    BY <1>7, Zenon DEF kill, RingInv, TypeOK, Wanting, Waiting
  <2> QED  BY <2>1, <2>2, RingKept, Zenon DEF RingInv
<1>8. CASE UNCHANGED vars
  <2>1. UNCHANGED <<input, dst, pc, n>>
    BY <1>8, Zenon DEF vars
  <2>2. TypeOK' /\ Wanting' /\ Waiting'
    BY <2>1, Zenon DEF RingInv, TypeOK, Wanting, Waiting
  <2> QED  BY <2>1, <2>2, RingKept, Zenon DEF RingInv
<1> QED  BY <1>1, <1>2, <1>3, <1>4, <1>5, <1>6, <1>7, <1>8 DEF Next

-----------------------------------------------------------------------------
(***************************************************************************)
(* The invariant of the ring: its indices, which wrap at UINT, stay in     *)
(* order and at most INPUT_BUF apart, and a reader that goes to sleep has  *)
(* emptied it.                                                             *)
(***************************************************************************)
THEOREM RingInvariance == Spec => []RingInv
<1>1. consoleinit => RingInv
  BY RingInit, Zenon
<1>2. RingInv /\ [Next]_vars => RingInv'
  BY RingNext, Zenon
<1> QED  BY <1>1, <1>2, PTL DEF Spec

(***************************************************************************)
(* Input never gets stuck: a full ring can be read, and nobody sleeps in   *)
(* consoleread() while there is something to read.                         *)
(***************************************************************************)
THEOREM NeverWedgedHolds == Spec => []NeverWedged
<1>1. RingInv => NeverWedged
  BY Zenon DEF RingInv, Indices, Waiting, NeverWedged
<1> QED  BY <1>1, RingInvariance, PTL

(***************************************************************************)
(* consoleintr() and consoleread() implement a line editor before a queue. *)
(***************************************************************************)
THEOREM LinesHold == Spec => Lines
<1>1. consoleinit => Abstract!Init
  BY RingInit, Zenon
<1>2. RingInv /\ [Next]_vars => [Abstract!Next]_(Abstract!vars)
  BY RingNext, Zenon
<1> QED  BY <1>1, <1>2, RingInvariance, PTL DEF Spec, Lines, Abstract!Spec

-----------------------------------------------------------------------------
(* The byte for a key below 128, or the second one for a key above. *)
LEMMA CodeIs ==
  ASSUME NEW k \in Keys, NEW up \in BOOLEAN
  PROVE  /\ k \in 1 .. 255
         /\ Code(k, up) \in 1 .. 255 /\ Code(k, up) # E0
         /\ up => /\ Code(k, up) >= 128
                  /\ k = IF k < 128 THEN Code(k, up) - 128 ELSE Code(k, up)
         /\ ~up => /\ ~ (Code(k, up) >= 128)
                   /\ k = IF k < 128 THEN Code(k, up) ELSE Code(k, up) + 128
<1>1. k \in 1 .. 255 /\ k % 128 # 0 /\ k % 128 # 96
  BY KeysAssumption
<1>2. k % 128 = IF k < 128 THEN k ELSE k - 128
  <2>1. k < 128 => k % 128 = k
    BY <1>1, RemainderIs, k = 128 * 0 + k
  <2>2. k >= 128 => k % 128 = k - 128
    BY <1>1, RemainderIs, k = 128 * 1 + (k - 128)
  <2> QED  BY <1>1, <2>1, <2>2
<1> DEFINE x == k % 128
<1> HIDE DEF x
<1>3. x = (IF k < 128 THEN k ELSE k - 128) /\ x # 0 /\ x # 96
  BY <1>1, <1>2, Zenon DEF x
<1>4. up => Code(k, up) = x + 128
  BY Zenon DEF Code, x
<1>5. ~up => Code(k, up) = x
  BY <1>1, <1>3 DEF Code, x
<1>6. CASE up
  <2> DEFINE z == Code(k, up)
  <2>1. z = x + 128
    BY <1>4, <1>6, Zenon
  <2> HIDE DEF z
  <2>2. z \in 1 .. 255 /\ z # 224 /\ z >= 128 /\ k = IF k < 128 THEN z - 128 ELSE z
    BY <1>1, <1>3, <2>1
  <2> QED  BY <1>1, <1>6, <2>2, Zenon DEF E0, z
<1>7. CASE ~up
  BY <1>1, <1>3, <1>5, <1>7 DEF E0
<1> QED  BY <1>6, <1>7, Zenon

(* What a shift key and a toggle key may set. *)
LEMMA BitsOf ==
  ASSUME NEW k
  PROVE  /\ shiftcode(k) \subseteq Modifiers
         /\ togglecode(k) \cap (Modifiers \union {"E0ESC"}) = {}
         /\ "E0ESC" \notin Modifiers
BY Zenon DEF shiftcode, togglecode, Modifiers

(* A byte from the keyboard keeps the modifiers right. *)
LEMMA KeyStep ==
  ASSUME KeysInv, kbdintr
  PROVE  KeysInv'
<1>1. PICK data \in Bytes : Sends(data) /\ shift' = kbdgetc(data).bits
  BY Zenon DEF kbdintr
<1>2. CASE pend = 0
  <2>1. PICK k \in Keys, up \in BOOLEAN :
             /\ shiftcode(k) # {} => (up <=> k \in down)
             /\ Moves(k, up)
             /\ IF k < 128 THEN data = Code(k, up) /\ pend' = 0
                           ELSE data = E0 /\ pend' = Code(k, up)
    BY <1>1, <1>2, Zenon DEF Sends
  <2>2. SetBy(down) /\ "E0ESC" \notin shift
    BY <1>2, Zenon DEF KeysInv
  <2>3. CASE k < 128 /\ up
    <3>1. data = Code(k, up) /\ pend' = 0 /\ data # E0 /\ data >= 128 /\ data - 128 = k
      <4>1. Code(k, up) # E0 /\ Code(k, up) >= 128 /\ k = Code(k, up) - 128
        BY <2>3, CodeIs, Zenon
      <4> QED  BY <2>1, <2>3, <4>1, Zenon
    <3>2. shift' = shift \ (shiftcode(k) \union {"E0ESC"})
      BY <1>1, <2>2, <3>1, Zenon DEF kbdgetc, released
    <3>4. down' = IF shiftcode(k) = {} THEN down ELSE down \ {k}
      BY <2>1, <2>3, Zenon DEF Moves
    <3>5. SetBy(down)'
      <4>1. down \ {k} \subseteq down'
        BY <3>4, Zenon
      <4>2. ASSUME NEW m \in shift' \cap Modifiers  PROVE \E j \in down' : m \in shiftcode(j)
        <5>1. m \in shift \cap Modifiers /\ m \notin shiftcode(k)
          BY <3>2, Zenon
        <5>2. PICK j \in down : m \in shiftcode(j)
          BY <2>2, <5>1, Zenon DEF SetBy
        <5> QED  BY <4>1, <5>1, <5>2, Zenon
      <4> QED  BY <4>2, Zenon DEF SetBy
    <3> QED  BY <3>1, <3>2, <3>5 DEF KeysInv
  <2>4. CASE k < 128 /\ ~up
    <3>1. data = Code(k, up) /\ pend' = 0 /\ data # E0 /\ ~ (data >= 128) /\ data = k
      BY <2>1, <2>4, CodeIs
    <3>2. shift' = pressed(k)
      BY <1>1, <2>2, <3>1, Zenon DEF kbdgetc
    <3>3. down' = IF shiftcode(k) = {} THEN down ELSE down \union {k}
      BY <2>1, <2>4, Zenon DEF Moves
    <3>4. SetBy(down') /\ (shiftcode(k) # {} => k \in down')
      BY <2>2, <3>3, Zenon DEF SetBy
    <3>5. \A m \in shift' \cap Modifiers : \E j \in down' : m \in shiftcode(j)
      <4>1. ASSUME NEW m \in shift' \cap Modifiers
            PROVE  m \in shift \cap Modifiers \/ m \in shiftcode(k)
        BY <3>2, BitsOf, Zenon DEF pressed
      <4> QED  BY <3>4, <4>1, Zenon DEF SetBy
    <3>6. "E0ESC" \notin shift'
      BY <3>2, BitsOf, Zenon DEF pressed
    <3> QED  BY <3>1, <3>5, <3>6, Zenon DEF KeysInv, SetBy
  <2>5. CASE ~ (k < 128)
    <3>1. data = E0 /\ pend' = Code(k, up) /\ pend' # 0 /\ k >= 128
      BY <2>1, <2>5, CodeIs
    <3>2. shift' = shift \union {"E0ESC"}
      BY <1>1, <3>1, Zenon DEF kbdgetc
    <3>3. shift' \cap Modifiers = shift \cap Modifiers /\ "E0ESC" \in shift'
      BY <3>2, BitsOf, Zenon
    <3>4. down' = IF shiftcode(k) = {} THEN down ELSE IF up THEN down \ {k} ELSE down \union {k}
      BY <2>1, Zenon DEF Moves
    <3>5. down \subseteq (IF up THEN down' \union {k} ELSE down')
      BY <3>4, Zenon
    <3>6. \A m \in shift' \cap Modifiers :
            \E j \in (IF up THEN down' \union {k} ELSE down') : m \in shiftcode(j)
      BY <2>2, <3>3, <3>5, Zenon DEF SetBy
    <3>7. ~up /\ shiftcode(k) # {} => k \in down'
      BY <3>4, Zenon
    <3> QED  BY <3>1, <3>3, <3>6, <3>7, Zenon DEF KeysInv, SetBy
  <2> QED  BY <2>3, <2>4, <2>5, Zenon
<1>3. CASE pend # 0
  <2>1. data = pend /\ pend' = 0 /\ down' = down /\ "E0ESC" \in shift
    BY <1>1, <1>3, Zenon DEF Sends, KeysInv
  <2>2. PICK k \in Keys, up \in BOOLEAN :
             /\ k >= 128 /\ pend = Code(k, up)
             /\ SetBy(IF up THEN down \union {k} ELSE down)
             /\ ~up /\ shiftcode(k) # {} => k \in down
    BY <1>3, Zenon DEF KeysInv
  <2>3. CASE up
    <3>1. data # E0 /\ data >= 128 /\ data = k
      <4>1. ~ (k < 128)
        BY <2>2, KeysAssumption
      <4>2. Code(k, up) # E0 /\ Code(k, up) >= 128 /\ k = Code(k, up)
        BY <2>3, <4>1, CodeIs, ZenonT(30)
      <4> QED  BY <2>1, <2>2, <4>2, Zenon
    <3>2. shift' = shift \ (shiftcode(k) \union {"E0ESC"})
      BY <1>1, <2>1, <3>1, Zenon DEF kbdgetc, released
    <3>3. ASSUME NEW m \in shift' \cap Modifiers  PROVE \E j \in down' : m \in shiftcode(j)
      <4>1. m \in shift \cap Modifiers /\ m \notin shiftcode(k)
        BY <3>2, Zenon
      <4>2. PICK j \in down \union {k} : m \in shiftcode(j)
        BY <2>2, <2>3, <4>1, Zenon DEF SetBy
      <4> QED  BY <2>1, <4>1, <4>2, Zenon
    <3> QED  BY <2>1, <3>2, <3>3, Zenon DEF KeysInv, SetBy
  <2>4. CASE ~up
    <3>1. data # E0 /\ ~ (data >= 128) /\ data + 128 = k
      BY <2>1, <2>2, <2>4, CodeIs
    <3>2. shift' = pressed(k)
      BY <1>1, <2>1, <3>1, Zenon DEF kbdgetc
    <3>3. SetBy(down) /\ (shiftcode(k) # {} => k \in down)
      BY <2>2, <2>4, Zenon
    <3>4. ASSUME NEW m \in shift' \cap Modifiers  PROVE \E j \in down' : m \in shiftcode(j)
      <4>1. m \in shift \cap Modifiers \/ m \in shiftcode(k)
        BY <3>2, BitsOf, Zenon DEF pressed
      <4> QED  BY <2>1, <3>3, <4>1, Zenon DEF SetBy
    <3>5. "E0ESC" \notin shift'
      BY <3>2, BitsOf, Zenon DEF pressed
    <3> QED  BY <2>1, <3>4, <3>5, Zenon DEF KeysInv, SetBy
  <2> QED  BY <2>3, <2>4, Zenon
<1> QED  BY <1>2, <1>3, Zenon

(***************************************************************************)
(* kbdgetc() keeps track of the keys, one and two bytes long, in whatever  *)
(* order they go down and up: between keys no half of an escape is left,   *)
(* and no modifier is set without a key that is held.                      *)
(***************************************************************************)
THEOREM ModifiersMatchHolds == Spec => []ModifiersMatch
<1>1. consoleinit => KeysInv
  BY Zenon DEF consoleinit, KeyboardInit, KeysInv, SetBy
<1>2. KeysInv /\ [Next]_vars => KeysInv'
  <2> SUFFICES ASSUME KeysInv, [Next]_vars  PROVE KeysInv'
    OBVIOUS
  <2>1. kbdintr \/ UNCHANGED keyVars
    BY Zenon DEF Next, uartintr, consoleread, consoleread_on, sleep, consolewrite, kill,
                 vars, keyVars
  <2>2. CASE UNCHANGED keyVars
    BY <2>2, Zenon DEF keyVars, KeysInv, SetBy
  <2> QED  BY <2>1, <2>2, KeyStep, Zenon
<1>3. KeysInv => ModifiersMatch
  BY Zenon DEF KeysInv, SetBy, Modifiers, ModifiersMatch
<1> QED  BY <1>1, <1>2, <1>3, PTL DEF Spec
=============================================================================
