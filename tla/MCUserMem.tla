----------------------------- MODULE MCUserMem -----------------------------
(***************************************************************************)
(* Instances of UserMem for TLC.  Frames are interchangeable: kalloc() may *)
(* return any free one.  The view keeps of a frame only the places that    *)
(* refer to it and whether it is on the free list, not its number.         *)
(***************************************************************************)
EXTENDS UserMem

Width == NPDE + KERNBASE

(* Every place that can refer to a frame, in one sequence. *)
Place ==
  [k \in 1 .. NPROC * Width + N_SHARED_PAGES |->
     IF k > NPROC * Width THEN shared_memory[k - NPROC * Width - 1].pa
     ELSE LET p == (k - 1) \div Width + 1
              j == (k - 1) % Width
          IN  IF j < NPDE THEN dir[p][j] ELSE tab[p][j - NPDE]]

(* A frame is named after the first place that refers to it. *)
FrameView ==
  LET place == Place
      named == [k \in DOMAIN place |->
                  IF place[k] <= 0 THEN <<place[k], 0>>
                  ELSE <<Min({j \in DOMAIN place : place[j] = place[k]}),
                         free[place[k]]>>]
      unplaced(n) == Cardinality({f \in Frames : /\ free[f] = n
                                                /\ \A k \in DOMAIN place : place[k] # f})
  IN  <<phystop, named, [n \in 0 .. 2 |-> unplaced(n)],
        [i \in Idx |-> shared_memory[i].ref_cnt],
        sz, shm_va, shm_idx, status, parent, panicked, nullpte>>
=============================================================================
