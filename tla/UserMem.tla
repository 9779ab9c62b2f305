------------------------------ MODULE UserMem ------------------------------
(***************************************************************************)
(* User memory: the frame allocator of kalloc.c, the two-level page tables *)
(* of vm.c with their lazy pages, and the shared pages of sh_mem.c, driven *)
(* by the system calls that change them.  A system call works on its own   *)
(* page table and on pools that have their own locks, so one call is one   *)
(* step; each step computes a memory record from the one before.           *)
(***************************************************************************)
EXTENDS Integers, FiniteSets, FiniteSetsExt, Sequences, SequencesExt

CONSTANTS
  NPROC,           (* processes; number 1 is init                          *)
  NFRAME,          (* frames of physical memory for user pages and tables  *)
  FewFrames,       (* and on a machine that runs out of them               *)
  NPDE,            (* page-directory entries below KERNBASE                *)
  NPTE,            (* entries of a page table                              *)
  N_SHARED_PAGES,  (* entries of shared_memory[]                           *)
  ImagePages,      (* pages of a fresh program image                       *)
  Calls,           (* the system calls that programs make                  *)
  Deltas,          (* pages by which sbrk() grows or shrinks               *)
  MinSz, MaxSz,    (* programs keep their heap between these, in pages     *)
  MapPages,        (* start pages given to mmap() and munmap()             *)
  MapLens,         (* and the lengths, in pages                            *)
  NullWord,        (* the frame the word at user address 0 reads like as a *)
                   (* PTE, 0 if it is like none                            *)
  Disciplined      (* programs keep to the use of shm_open in test-shm.c   *)

ASSUME SizesAssumption ==
  /\ {NPROC, NFRAME, NPDE, NPTE, N_SHARED_PAGES, ImagePages} \subseteq Nat \ {0}
  /\ FewFrames \in 1 .. NFRAME
  /\ Deltas \cup MapLens \subseteq Nat \ {0}
  /\ MinSz \in Nat /\ MaxSz \in Nat
  /\ NullWord \in 0 .. NFRAME
  /\ Disciplined \in BOOLEAN

VARIABLES
  phystop,        (* frames that kinit2() has found on this machine        *)
  free,           (* kmem.freelist: how often each frame is on it          *)
  shared_memory,  (* the table of sh_mem.c                                 *)
  dir, tab,       (* per process: frames of its page tables, and its PTEs  *)
  sz,             (* proc->sz, in pages                                    *)
  shm_va, shm_idx,(* fields of struct proc                                 *)
  status, parent, (* life of a process, as ProcTable has it                *)
  panicked,
  nullpte         (* the last call has read *pte with pte = 0              *)

vars == <<phystop, free, shared_memory, dir, tab, sz, shm_va, shm_idx, status, parent,
          panicked, nullpte>>

Procs == 1 .. NPROC
init == 1
Frames == 1 .. NFRAME
Pdes == 0 .. NPDE - 1
KERNBASE == NPDE * NPTE
Pages == 0 .. KERNBASE - 1
Idx == 0 .. N_SHARED_PAGES - 1

PDX(a) == a \div NPTE

(* A page-table entry: a frame if PTE_P, LAZY if only PTE_LAZY, else NONE. *)
NONE == 0
LAZY == -1
Present(e) == e > 0
PTE_ADDR(e) == IF Present(e) THEN e ELSE 0

NoDir == [i \in Pdes |-> NONE]
NoTab == [a \in Pages |-> NONE]

(* Pages lo .. hi - 1 in increasing order, as the loops of vm.c visit them. *)
Range2(lo, hi) == [k \in 1 .. (IF hi > lo THEN hi - lo ELSE 0) |-> lo + k - 1]

-----------------------------------------------------------------------------
(***************************************************************************)
(* A memory record m: the two global pools, one page table under work, and *)
(* how the work goes.  Frames are interchangeable, so kalloc() may as well *)
(* take the smallest; 0 is its failure.                                    *)
(***************************************************************************)
kalloc(m) ==
  LET avail == {f \in Frames : m.free[f] > 0}
  IN  IF avail = {} THEN 0 ELSE Min(avail)

Take(m, f) == [m EXCEPT !.free[f] = @ - 1]

kfree(m, f) == [m EXCEPT !.free[f] = @ + 1]

shm_add_NoCount(m, pa) ==
  LET known == {i \in Idx : m.shm[i].pa = pa}
      unused == {i \in Idx : m.shm[i].ref_cnt = 0}
  IN  IF known # {} THEN [m EXCEPT !.idx = Min(known)]
      ELSE IF unused = {} THEN [m EXCEPT !.idx = -1]
      ELSE [m EXCEPT !.shm[Min(unused)] = [pa |-> pa, ref_cnt |-> 1],
                     !.idx = Min(unused)]

(* shm_add(pa): count one more reference, in a fresh entry if need be. *)
shm_add(m, pa) ==
  LET known == {i \in Idx : m.shm[i].pa = pa}
      unused == {i \in Idx : m.shm[i].ref_cnt = 0}
  IN  IF known # {} THEN [m EXCEPT !.shm[Min(known)].ref_cnt = @ + 1,
                                   !.idx = Min(known)]
      ELSE IF unused = {} THEN [m EXCEPT !.idx = -1]
      ELSE [m EXCEPT !.shm[Min(unused)] = [pa |-> pa, ref_cnt |-> 1],
                     !.idx = Min(unused)]

(* shm_remove(pa): the last reference frees the page. *)
shm_remove(m, pa) ==
  LET found == {i \in Idx : m.shm[i].pa = pa /\ m.shm[i].ref_cnt > 0}
      i == Min(found)
  IN  IF found = {} THEN [m EXCEPT !.idx = -1]
      ELSE IF m.shm[i].ref_cnt = 1
        THEN kfree([m EXCEPT !.shm[i] = [pa |-> 0, ref_cnt |-> 0], !.idx = i], pa)
        ELSE [m EXCEPT !.shm[i].ref_cnt = @ - 1, !.idx = i]

(* walkpgdir(.., 1): make sure page a has a page table; st is "fail" if not. *)
walkpgdir(m, a) ==
  IF m.dir[PDX(a)] # NONE THEN m
  ELSE IF kalloc(m) = 0 THEN [m EXCEPT !.st = "fail"]
  ELSE [Take(m, kalloc(m)) EXCEPT !.dir[PDX(a)] = kalloc(m)]

(* mappages() of the one frame f at page a. *)
mappages(m, a, f) ==
  LET w == walkpgdir(m, a)
  IN  IF w.st = "fail" THEN w
      ELSE IF Present(w.tab[a]) THEN [w EXCEPT !.st = "panic"]
      ELSE [w EXCEPT !.tab[a] = f]

(* A page table that is not there is passed over, from its first page on. *)
Visited(m, a, newsz) == m.dir[PDX(a)] # NONE \/ a = newsz \/ a % NPTE = 0

(* deallocuvm(): myproc() has the shared page va, entry idx, if idx # -1. *)
deallocuvm(m0, oldsz, newsz, idx, va) ==
  FoldLeft(LAMBDA m, a :
             IF idx # -1 /\ a = va /\ Visited(m, a, newsz)
               THEN IF m.dir[PDX(a)] = NONE
                      THEN [shm_remove(m, NullWord) EXCEPT !.null = TRUE]
                      ELSE shm_remove(m, PTE_ADDR(m.tab[a]))
             ELSE IF m.dir[PDX(a)] = NONE THEN m
             ELSE IF Present(m.tab[a])
               THEN [kfree(m, m.tab[a]) EXCEPT !.tab[a] = NONE]
             ELSE m,
           m0, Range2(newsz, oldsz))

(* The cleanup of allocuvm() after it ran out of memory. *)
undo_grow_None(m, newsz, oldsz, idx, va) == m
undo_grow(m, newsz, oldsz, idx, va) == deallocuvm(m, newsz, oldsz, idx, va)

(* allocuvm(): all pages or none; a page that is already there is a panic. *)
allocuvm(m0, oldsz, newsz, idx, va) ==
  LET grown ==
        FoldLeft(LAMBDA m, a :
                   IF m.st # "ok" THEN m
                   ELSE IF kalloc(m) = 0 THEN [m EXCEPT !.st = "fail"]
                   ELSE LET f == kalloc(m)
                            n == mappages(Take(m, f), a, f)
                        IN  IF n.st = "fail" THEN kfree(n, f) ELSE n,
                 m0, Range2(oldsz, newsz))
  IN  IF grown.st = "fail" THEN undo_grow(grown, newsz, oldsz, idx, va)
                           ELSE grown

freevm_KeepsTables(m0, idx, va) ==
  [deallocuvm(m0, KERNBASE, 0, idx, va) EXCEPT !.dir = NoDir]

(* freevm(): the user pages, then the page tables. *)
freevm(m0, idx, va) ==
  LET pages == deallocuvm(m0, KERNBASE, 0, idx, va)
  IN  FoldLeft(LAMBDA m, i :
                 IF m.dir[i] = NONE THEN m
                 ELSE [kfree(m, m.dir[i]) EXCEPT !.dir[i] = NONE],
               pages, Range2(0, NPDE))

(* The page tables that the outer loop of copyuvm() copies. *)
Copied(srcdir) == {i \in Pdes : srcdir[i] # NONE}

(***************************************************************************)
(* copyuvm() of (srcdir, srctab) by a process with shared page va.  A page *)
(* table is linked into the new directory only when it is complete, so on  *)
(* a failure freevm() does not see the one in the making (m.tab is cut     *)
(* back to what is linked).                                                *)
(***************************************************************************)
copyuvm(m0, srcdir, srctab, idx, va) ==
  LET page(m, a) ==
        IF m.st = "fail" THEN m
        ELSE IF ~Present(srctab[a]) THEN [m EXCEPT !.tab[a] = srctab[a]]
        ELSE IF idx # -1 /\ a = va
          THEN shm_add([m EXCEPT !.tab[a] = srctab[a]], srctab[a])
        ELSE IF kalloc(m) = 0 THEN [m EXCEPT !.st = "fail"]
        ELSE [Take(m, kalloc(m)) EXCEPT !.tab[a] = kalloc(m)]
      table(m, i) ==
        IF m.st = "fail" \/ i \notin Copied(srcdir) THEN m
        ELSE IF kalloc(m) = 0 THEN [m EXCEPT !.st = "fail"]
        ELSE LET t == kalloc(m)
                 n == FoldLeft(page, Take(m, t), Range2(i * NPTE, (i + 1) * NPTE))
             IN  IF n.st = "fail" THEN [n EXCEPT !.tab = m.tab]
                                  ELSE [n EXCEPT !.dir[i] = t]
      copy == FoldLeft(table, m0, Range2(0, NPDE))
  IN  IF copy.st = "fail" THEN freevm(copy, idx, va) ELSE copy

(* The record for work on the page table (d, t). *)
Mem(d, t) == [free |-> free, shm |-> shared_memory, dir |-> d, tab |-> t,
              idx |-> -1, va |-> 0, st |-> "ok", null |-> FALSE]

(* The image exec() and userinit() build, in an empty page table. *)
Image(m) == allocuvm(m, 0, ImagePages, -1, 0)

Init ==
  /\ phystop \in {NFRAME, FewFrames}
  /\ LET m == Image([free |-> [f \in Frames |-> IF f <= phystop THEN 1 ELSE 0],
                     shm |-> [i \in Idx |-> [pa |-> 0, ref_cnt |-> 0]],
                     dir |-> NoDir, tab |-> NoTab, idx |-> -1, va |-> 0,
                     st |-> "ok", null |-> FALSE])
     IN  /\ free = m.free
         /\ shared_memory = m.shm
         /\ dir = [p \in Procs |-> IF p = init THEN m.dir ELSE NoDir]
         /\ tab = [p \in Procs |-> IF p = init THEN m.tab ELSE NoTab]
  /\ sz = [p \in Procs |-> IF p = init THEN ImagePages ELSE 0]
  /\ shm_va = [p \in Procs |-> 0]
  /\ shm_idx = [p \in Procs |-> -1]
  /\ status = [p \in Procs |-> IF p = init THEN "run" ELSE "unused"]
  /\ parent = [p \in Procs |-> 0]
  /\ panicked = FALSE
  /\ nullpte = FALSE

-----------------------------------------------------------------------------
(* init.c only makes children and waits for them. *)
Runs(p, call) ==
  /\ call \in Calls
  /\ status[p] = "run"
  /\ p = init => call \in {"fork", "exit"}

(* The outcome m of a call that worked on p's own page table. *)
Becomes(p, m) ==
  /\ free' = m.free
  /\ shared_memory' = m.shm
  /\ dir' = [dir EXCEPT ![p] = m.dir]
  /\ tab' = [tab EXCEPT ![p] = m.tab]
  /\ UNCHANGED phystop
  /\ panicked' = (m.st = "panic")
  /\ nullpte' = m.null

Mine(p) == Mem(dir[p], tab[p])

(* proc->sz after growproc() by n; 0 from (de)allocuvm is a failure. *)
NewSz(old, n, st) == IF (n > 0 /\ st = "fail") \/ old + n = 0 THEN old ELSE old + n

(* sbrk(n pages), that is growproc(). *)
growproc(p, n) ==
  LET new == sz[p] + n
      up == allocuvm(Mine(p), sz[p], new, shm_idx[p], shm_va[p])
      down == deallocuvm(Mine(p), sz[p], new, shm_idx[p], shm_va[p])
  IN  /\ Runs(p, "sbrk")
      /\ new \in MinSz .. MaxSz
      /\ n > 0 => new < KERNBASE
      /\ Becomes(p, IF n > 0 THEN up ELSE down)
      /\ sz' = [sz EXCEPT ![p] = NewSz(@, n, up.st)]
      /\ UNCHANGED <<shm_va, shm_idx, status, parent>>

(***************************************************************************)
(* mmap(a, n pages): stops at the first page that is present.  When        *)
(* walkpgdir() fails, *pte is the word at user address 0, and odd says     *)
(* whether that has the bit PTE_P.                                         *)
(***************************************************************************)
sys_mmap(p, a, n, odd) ==
  LET m1 == FoldLeft(LAMBDA m, b :
                       LET w == walkpgdir(m, b)
                       IN  IF m.st # "ok" THEN m
                           ELSE IF w.st = "fail"
                             THEN [m EXCEPT !.null = TRUE,
                                            !.st = IF odd THEN "busy" ELSE "ok"]
                           ELSE IF Present(w.tab[b]) THEN [w EXCEPT !.st = "busy"]
                           ELSE [w EXCEPT !.tab[b] = LAZY],
                     Mine(p), Range2(a, a + n))
  IN  /\ Runs(p, "mmap")
      /\ a + n <= KERNBASE
      /\ Becomes(p, m1)
      /\ UNCHANGED <<sz, shm_va, shm_idx, status, parent>>

(* The loop body of sys_munmap(). *)
unmap_page(m, b) ==
  IF m.st # "ok" THEN m
  ELSE IF m.dir[PDX(b)] = NONE THEN [m EXCEPT !.st = "gone"]
  ELSE IF Present(m.tab[b]) THEN [kfree(m, m.tab[b]) EXCEPT !.tab[b] = NONE]
  ELSE [m EXCEPT !.tab[b] = NONE]

(* munmap(a, n pages): stops at the first page without a page table. *)
sys_munmap(p, a, n) ==
  LET m1 == FoldLeft(unmap_page, Mine(p), Range2(a, a + n))
  IN  /\ Runs(p, "munmap")
      /\ a + n <= KERNBASE
      /\ Becomes(p, m1)
      /\ UNCHANGED <<sz, shm_va, shm_idx, status, parent>>

(* exit(): the children go to init; memory stays until wait(). *)
Zombie(p) ==
  /\ status' = [status EXCEPT ![p] = "zombie"]
  /\ parent' = [q \in Procs |-> IF parent[q] = p THEN init ELSE parent[q]]

(* The page fault of trap() on a lazy page: filled, or the process exits. *)
page_fault(p, a) ==
  LET f == kalloc(Mine(p))
  IN  /\ Runs(p, "touch")
      /\ tab[p][a] = LAZY
      /\ IF f = 0
           THEN /\ Becomes(p, [Mine(p) EXCEPT !.tab[a] = NONE])
                /\ Zombie(p)
           ELSE /\ Becomes(p, [Take(Mine(p), f) EXCEPT !.tab[a] = f])
                /\ UNCHANGED <<status, parent>>
      /\ UNCHANGED <<sz, shm_va, shm_idx>>

(* fork() of p into the free slot q. *)
fork(p, q) ==
  LET m == copyuvm(Mem(NoDir, NoTab), dir[p], tab[p], shm_idx[p], shm_va[p])
  IN  /\ Runs(p, "fork")
      /\ status[q] = "unused"
      /\ Becomes(q, m)
      /\ IF m.st = "fail"
           THEN UNCHANGED <<sz, shm_va, shm_idx, status, parent>>
           ELSE /\ sz' = [sz EXCEPT ![q] = sz[p]]
                /\ shm_va' = [shm_va EXCEPT ![q] = shm_va[p]]
                /\ shm_idx' = [shm_idx EXCEPT ![q] = shm_idx[p]]
                /\ status' = [status EXCEPT ![q] = "run"]
                /\ parent' = [parent EXCEPT ![q] = p]

(* cow_fork() is fork() over again: it copies the pages at once. *)
sys_cow_fork(p, q) == fork(p, q)

(***************************************************************************)
(* What test-shm.c does and a program must do for shared pages to work: a  *)
(* process opens a page before it forks, exits with it open only if its    *)
(* parent has it too, and calls shm_close() only when its children are     *)
(* gone and exec() only after shm_close(); and there is memory to spare,   *)
(* since a fork() that fails half-way loses its reference.                 *)
(***************************************************************************)
Childless(p) == \A q \in Procs : parent[q] # p
MayOpen(p) == Disciplined => Childless(p) /\ phystop = NFRAME
MayExit(p) == Disciplined => shm_va[p] = 0 \/ shm_va[parent[p]] # 0
MayClose(p) == Disciplined => Childless(p)
MayExec(p) == Disciplined => shm_va[p] = 0

(* exec(): a new image, then freevm() of the old one. *)
exec(p) ==
  LET new == Image(Mem(NoDir, NoTab))
      old == freevm([new EXCEPT !.dir = dir[p], !.tab = tab[p]],
                    shm_idx[p], shm_va[p])
      undo == freevm(new, shm_idx[p], shm_va[p])
  IN  /\ Runs(p, "exec")
      /\ MayExec(p)
      /\ IF new.st = "fail"
           THEN /\ Becomes(p, [undo EXCEPT !.dir = dir[p], !.tab = tab[p]])
                /\ UNCHANGED sz
           ELSE /\ Becomes(p, [old EXCEPT !.dir = new.dir, !.tab = new.tab])
                /\ sz' = [sz EXCEPT ![p] = ImagePages]
      /\ UNCHANGED <<shm_va, shm_idx, status, parent>>

exit(p) ==
  /\ Runs(p, "exit")
  /\ p # init
  /\ MayExit(p)
  /\ Zombie(p)
  /\ UNCHANGED <<phystop, free, shared_memory, dir, tab, sz, shm_va, shm_idx, panicked,
                 nullpte>>

(* wait() of p finds zombie q: freevm() runs with p as myproc(). *)
wait(p, q) ==
  /\ Runs(p, "exit")
  /\ status[q] = "zombie" /\ parent[q] = p
  /\ Becomes(q, [freevm(Mine(q), shm_idx[p], shm_va[p]) EXCEPT !.tab = NoTab])
  /\ status' = [status EXCEPT ![q] = "unused"]
  /\ parent' = [parent EXCEPT ![q] = 0]
  /\ sz' = [sz EXCEPT ![q] = 0]
  /\ shm_va' = [shm_va EXCEPT ![q] = 0]
  /\ shm_idx' = [shm_idx EXCEPT ![q] = -1]

(* The highest page below KERNBASE that is not present gets frame f. *)
map_last_page(m, f) ==
  LET top == CHOOSE a \in Pages : /\ ~Present(m.tab[a])
                                  /\ \A b \in Pages : b > a => Present(m.tab[b])
      w == walkpgdir(m, top)
  IN  IF \A a \in Pages : Present(m.tab[a]) THEN [m EXCEPT !.st = "fail"]
      ELSE IF w.st = "fail" THEN w
      ELSE [w EXCEPT !.tab[top] = f, !.va = top]

sys_shm_open(p) ==
  LET f == kalloc(Mine(p))
      m1 == map_last_page(Take(Mine(p), f), f)
      m2 == shm_add(m1, f)
  IN  /\ Runs(p, "shm")
      /\ shm_va[p] = 0
      /\ MayOpen(p)
      /\ f # 0
      /\ IF m1.st = "fail"
           THEN Becomes(p, m1) /\ UNCHANGED <<shm_va, shm_idx>>
           ELSE /\ Becomes(p, m2)
                /\ shm_va' = [shm_va EXCEPT ![p] = IF m2.idx = -1 THEN @ ELSE m1.va]
                /\ shm_idx' = [shm_idx EXCEPT ![p] = IF m2.idx = -1 THEN @ ELSE m2.idx]
      /\ UNCHANGED <<sz, status, parent>>

(* shm_close() before it clears anything: m.idx = -1 if it gives up. *)
Unshared(p) ==
  IF dir[p][PDX(shm_va[p])] = NONE
    THEN [shm_remove(Mine(p), NullWord) EXCEPT !.null = TRUE]
    ELSE shm_remove(Mine(p), PTE_ADDR(tab[p][shm_va[p]]))

sys_shm_close_KeepsVa(p) ==
  LET m == Unshared(p)
  IN  /\ Runs(p, "shm")
      /\ shm_va[p] # 0
      /\ MayClose(p)
      /\ Becomes(p, IF m.idx = -1 THEN m ELSE [m EXCEPT !.tab[shm_va[p]] = NONE])
      /\ shm_idx' = [shm_idx EXCEPT ![p] = IF m.idx = -1 THEN @ ELSE -1]
      /\ UNCHANGED <<sz, shm_va, status, parent>>

sys_shm_close(p) ==
  LET m == Unshared(p)
  IN  /\ Runs(p, "shm")
      /\ shm_va[p] # 0
      /\ MayClose(p)
      /\ Becomes(p, IF m.idx = -1 THEN m ELSE [m EXCEPT !.tab[shm_va[p]] = NONE])
      /\ shm_va' = [shm_va EXCEPT ![p] = IF m.idx = -1 THEN @ ELSE 0]
      /\ shm_idx' = [shm_idx EXCEPT ![p] = IF m.idx = -1 THEN @ ELSE -1]
      /\ UNCHANGED <<sz, status, parent>>

-----------------------------------------------------------------------------
Next ==
  /\ ~panicked
  /\ \E p \in Procs :
       \/ \E n \in Deltas : growproc(p, n) \/ growproc(p, -n)
       \/ \E a \in MapPages, n \in MapLens, odd \in BOOLEAN : sys_mmap(p, a, n, odd)
       \/ \E a \in MapPages, n \in MapLens : sys_munmap(p, a, n)
       \/ \E a \in Pages : page_fault(p, a)
       \/ \E q \in Procs : fork(p, q) \/ sys_cow_fork(p, q) \/ wait(p, q)
       \/ exec(p) \/ exit(p) \/ sys_shm_open(p) \/ sys_shm_close(p)

Spec == Init /\ [][Next]_vars

-----------------------------------------------------------------------------
Mappings(f) == {<<p, a>> \in Procs \X Pages : tab[p][a] = f}
Entries(f) == {i \in Idx : shared_memory[i].pa = f /\ shared_memory[i].ref_cnt > 0}

(* How many owners a frame has: the free list, a page table, a mapping... *)
Owners(f) ==
  free[f]
  + Cardinality({<<p, i>> \in Procs \X Pdes : dir[p][i] = f})
  + (IF Entries(f) = {} THEN Cardinality(Mappings(f)) ELSE Cardinality(Entries(f)))

(***************************************************************************)
(* kalloc()/kfree() and their callers: no frame has two owners.  It is     *)
(* never on the free list twice, never free while a page table or a PTE    *)
(* uses it, and never mapped twice unless shared_memory[] counts it.  With *)
(* memory to spare it always has one: what fork, exec, sbrk, mmap and page *)
(* faults take comes back to the free list through munmap, exec and wait.  *)
(***************************************************************************)
OneOwner ==
  \A f \in 1 .. phystop :
    Owners(f) <= 1 /\ (phystop = NFRAME => Owners(f) = 1)

(***************************************************************************)
(* shm_add/shm_remove: an entry of shared_memory[] counts exactly the      *)
(* page tables that map its page.                                          *)
(***************************************************************************)
RefsExact ==
  \A i \in Idx :
    shared_memory[i].ref_cnt > 0 =>
      shared_memory[i].ref_cnt = Cardinality(Mappings(shared_memory[i].pa))

(***************************************************************************)
(* A shm_va that shm_open() and shm_get() hand to the program is the       *)
(* address of a page that is mapped, and so neither deallocuvm() nor       *)
(* shm_close() nor mmap() reads through the null pointer that walkpgdir()  *)
(* returns for a page table that was never made.                           *)
(***************************************************************************)
ShmVaMapped ==
  /\ nullpte => \A f \in Frames : free[f] = 0
  /\ \A p \in Procs :
       status[p] = "run" /\ shm_va[p] # 0 => Present(tab[p][shm_va[p]])

(***************************************************************************)
(* The heap: after sbrk() every page below proc->sz is there, unless the   *)
(* program unmapped it itself; and since a growproc() that failed has left *)
(* nothing above it, no later one panics with "remap".                     *)
(***************************************************************************)
HeapMapped ==
  /\ ~panicked
  /\ \A p \in Procs : status[p] = "run" => \A a \in 0 .. sz[p] - 1 : Present(tab[p][a])

=============================================================================
