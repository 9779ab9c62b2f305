------------------------------ MODULE Umalloc ------------------------------
(***************************************************************************)
(* The user-level allocator of umalloc.c: a ring of free blocks in address *)
(* order.  Memory is counted in headers (sizeof(Header) bytes); a turn of  *)
(* a loop is a step.  sbrk() is the kernel's, and the program may call it  *)
(* too.  Requests are small enough that the sums of malloc() and           *)
(* morecore() fit their types.                                             *)
(***************************************************************************)
EXTENDS Integers, FiniteSets

CONSTANTS
  HeaderSize,  (* bytes                                                    *)
  NALLOC,      (* the least that morecore() asks for                       *)
  MAXBRK,      (* where the address space ends                             *)
  Requests     (* what programs ask malloc() for, in bytes                 *)

NULL == 0
base == 1        (* the static header, below the heap                      *)
HeapStart == 3

ASSUME UmallocAssumption ==
  /\ HeaderSize \in Nat \ {0} /\ NALLOC \in Nat \ {0}
  /\ MAXBRK \in Nat /\ MAXBRK >= HeapStart
  /\ Requests \subseteq Nat

VARIABLES
  ptr, size,   (* s.ptr and s.size of the header at an address             *)
  freep,
  brk,         (* the end of the heap                                      *)
  held,        (* history: the blocks the program has, and their sizes     *)
  own,         (* history: what the program got from sbrk() itself         *)
  call         (* the call that is going on                                *)

heapvars == <<ptr, size, freep, brk, held, own, call>>

Addrs == 0 .. MAXBRK
NoCall == [op |-> "none", nunits |-> 0, p |-> NULL, prevp |-> NULL, bp |-> NULL]

HeapInit ==
  /\ ptr = [a \in Addrs |-> NULL] /\ size = [a \in Addrs |-> 0]
  /\ freep = NULL
  /\ brk = HeapStart
  /\ held = << >>
  /\ own = {}
  /\ call = NoCall

nunits(nbytes) == (nbytes + HeaderSize - 1) \div HeaderSize + 1

Without(f, a) == [x \in DOMAIN f \ {a} |-> f[x]]
With(f, a, v) == [x \in DOMAIN f \union {a} |-> IF x = a THEN v ELSE f[x]]

-----------------------------------------------------------------------------
(* malloc() begins, on an empty ring the first time. *)
malloc(nbytes) ==
  /\ call.op = "none"
  /\ IF freep = NULL
       THEN /\ ptr' = [ptr EXCEPT ![base] = base]
            /\ size' = [size EXCEPT ![base] = 0]
            /\ freep' = base
       ELSE UNCHANGED <<ptr, size, freep>>
  /\ call' = [NoCall EXCEPT !.op = "malloc", !.nunits = nunits(nbytes),
                            !.prevp = freep', !.p = ptr'[freep']]
  /\ UNCHANGED <<brk, held, own>>

Searching(fits) == call.op = "malloc" /\ (size[call.p] >= call.nunits) = fits

(* A block that is large enough: all of it, or its tail. *)
take ==
  LET p == call.p
      rest == size[p] - call.nunits
  IN  /\ Searching(TRUE)
      /\ IF rest = 0
           THEN ptr' = [ptr EXCEPT ![call.prevp] = ptr[p]] /\ UNCHANGED size
           ELSE /\ size' = [size EXCEPT ![p] = rest, ![p + rest] = call.nunits]
                /\ UNCHANGED ptr
      /\ held' = With(held, p + rest, call.nunits)
      /\ freep' = call.prevp
      /\ call' = NoCall
      /\ UNCHANGED <<brk, own>>

(* The next block of the ring. *)
search ==
  /\ Searching(FALSE) /\ call.p # freep
  /\ call' = [call EXCEPT !.prevp = call.p, !.p = ptr[call.p]]
  /\ UNCHANGED <<ptr, size, freep, brk, held, own>>

(* Around the ring: morecore() as far as its free(); sbrk() may fail. *)
morecore ==
  LET nu == IF call.nunits < NALLOC THEN NALLOC ELSE call.nunits
  IN  /\ Searching(FALSE) /\ call.p = freep
      /\ \/ /\ brk + nu <= MAXBRK
            /\ brk' = brk + nu
            /\ size' = [size EXCEPT ![brk] = nu]
            /\ call' = [call EXCEPT !.op = "free", !.bp = brk, !.p = freep]
         \/ /\ call' = NoCall
            /\ UNCHANGED <<brk, size>>
      /\ UNCHANGED <<ptr, freep, held, own>>

(* free() begins. *)
free(bp) ==
  /\ call.op = "none"
  /\ call' = [NoCall EXCEPT !.op = "free", !.bp = bp, !.p = freep]
  /\ held' = Without(held, bp)
  /\ UNCHANGED <<ptr, size, freep, brk, own>>

(* Whether bp belongs between p and the block after it. *)
Between(p, bp) ==
  \/ bp > p /\ bp < ptr[p]
  \/ p >= ptr[p] /\ (bp > p \/ bp < ptr[p])

walk ==
  /\ call.op = "free" /\ ~Between(call.p, call.bp)
  /\ call' = [call EXCEPT !.p = ptr[call.p]]
  /\ UNCHANGED <<ptr, size, freep, brk, held, own>>

(* The block and the one above it joined, as header of bp. *)
JoinUp_Never(p, bp) == [ptr |-> ptr[p], size |-> size[bp]]
JoinUp(p, bp) ==
  IF bp + size[bp] = ptr[p]
    THEN [ptr |-> ptr[ptr[p]], size |-> size[bp] + size[ptr[p]]]
    ELSE [ptr |-> ptr[p], size |-> size[bp]]

(* The end of free(): malloc() looks on from freep when morecore() called. *)
link ==
  LET p == call.p
      bp == call.bp
      joined == JoinUp(p, bp)
      below == p + size[p] = bp
  IN  /\ call.op = "free" /\ Between(p, bp)
      /\ ptr' = [ptr EXCEPT ![bp] = joined.ptr, ![p] = IF below THEN joined.ptr ELSE bp]
      /\ size' = [size EXCEPT ![bp] = joined.size, ![p] = IF below THEN @ + joined.size ELSE @]
      /\ freep' = p
      /\ call' = IF call.nunits = 0 THEN NoCall
                 ELSE [call EXCEPT !.op = "malloc", !.prevp = p, !.p = ptr'[p]]
      /\ UNCHANGED <<brk, held, own>>

(* The program takes memory for itself: the heap has a hole. *)
sbrk ==
  /\ call.op = "none" /\ brk < MAXBRK
  /\ own' = own \union {brk}
  /\ brk' = brk + 1
  /\ UNCHANGED <<ptr, size, freep, held, call>>

HeapNext ==
  \/ \E n \in Requests : malloc(n)
  \/ \E bp \in DOMAIN held : free(bp)
  \/ sbrk
  \/ take \/ search \/ morecore \/ walk \/ link

-----------------------------------------------------------------------------
(* The headers on the ring, from base on. *)
Ring ==
  LET at[k \in 0 .. MAXBRK] == IF k = 0 THEN base ELSE ptr[at[k - 1]]
  IN  IF freep = NULL THEN {} ELSE {at[k] : k \in 0 .. MAXBRK}

Free == Ring \ {base}
Extent(b) == b .. b + size[b] - 1

(***************************************************************************)
(* malloc() and free() together, in any order and around holes: between    *)
(* calls, every unit of the heap is in exactly one free block, one block   *)
(* of the program or the program's own memory; the program's blocks still  *)
(* have the sizes they were asked for; the ring visits the free blocks in  *)
(* address order, and no two of them are adjacent.                         *)
(***************************************************************************)
HeapTiled ==
  call.op = "none" =>
    LET blocks == Free \union DOMAIN held
    IN  /\ UNION {Extent(b) : b \in blocks} = (HeapStart .. brk - 1) \ own
        /\ \A b, c \in blocks : b < c => b + size[b] <= c
        /\ Free \intersect DOMAIN held = {}
        /\ \A b \in DOMAIN held : size[b] = held[b]
        /\ \A b \in Ring :
             ptr[b] = IF \E c \in Ring : c > b
                        THEN CHOOSE c \in Ring : c > b /\ \A d \in Ring : d > b => d >= c
                        ELSE base
        /\ \A b, c \in Free : b + size[b] # c

=============================================================================
