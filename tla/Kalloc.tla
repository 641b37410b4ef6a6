------------------------------- MODULE Kalloc -------------------------------
(***************************************************************************)
(* The physical page allocator of xv6 (src/kalloc.c) together with the    *)
(* start-up sequence of src/main.c that decides when it runs without its   *)
(* lock.  main() on the boot processor (BSP) frees the low pages (kinit1,  *)
(* use_lock = 0), starts every other processor (AP) on a stack it          *)
(* kalloc()s, frees the high pages (kinit2) and only then sets use_lock,   *)
(* creates the first process and enters the scheduler.  Once a process     *)
(* exists, processes on every CPU kalloc and kfree pages concurrently.     *)
(*                                                                         *)
(* The free list is kept as the code keeps it: kmem.freelist and the       *)
(* r->next word of every page.  kalloc and kfree are split at their        *)
(* accesses to it, so an unlocked call can interleave with another.        *)
(* Addresses are kernel virtual addresses with KERNBASE taken as 0 (v2p is *)
(* the identity) and 0 is the null pointer.  KSTACKSIZE = PGSIZE.          *)
(***************************************************************************)
EXTENDS Naturals, Sequences, FiniteSets, Functions

CONSTANTS
  CPUs,         \* cpus[0..ncpu-1], as the numbers 0..ncpu-1
  BSP,          \* cpunum() of the processor that runs main()
  PGSIZE,       \* bytes per page
  END,          \* end[]: first address after the kernel image
  P4MB,         \* P2V(4*1024*1024): top of the memory entrypgdir maps
  PHYSTOP,      \* top of physical memory
  NoCPU         \* lock holder of a free spinlock

ASSUME /\ CPUs \subseteq Nat /\ BSP \in CPUs /\ NoCPU \notin CPUs
       /\ PGSIZE \in Nat \ {0}
       /\ END \in Nat \ {0} /\ END < P4MB /\ P4MB < PHYSTOP

APs == CPUs \ {BSP}
Addrs == 0..PHYSTOP

\* PGROUNDUP(a) of mmu.h.
PGROUNDUP(a) == ((a + PGSIZE - 1) \div PGSIZE) * PGSIZE

\* entrypgdir maps virtual [0, 4MB) and [KERNBASE, KERNBASE+4MB) to
\* physical [0, 4MB) with one 4MB page each: in the kernel's addresses,
\* the bytes below P2V(4MB).
EntryMapped(a) == a < P4MB

\* The addresses kfree accepts: page aligned, at or above end, below PHYSTOP.
Pages == {a \in Addrs : a % PGSIZE = 0 /\ a >= END /\ a < PHYSTOP}

VARIABLES
  freelist,     \* kmem.freelist: the first free page, 0 if none
  runnext,      \* r->next, the first word of every page
  use_lock,     \* kmem.use_lock
  lock,         \* holder of kmem.lock, NoCPU if free
  pc,           \* where each CPU is
  ret,          \* where each CPU's current kalloc/kfree returns to
  r,            \* kalloc's r / kfree's v, per CPU
  mstage,       \* main(): index of the next call in MainOrder
  frp, frend,   \* freerange's p and vend
  socpu,        \* startothers' loop variable c
  stack,        \* the stack startothers gave each AP (0: none yet)
  started,      \* cpu->started
  procs,        \* a process exists (userinit has run)
  inuse,        \* pages processes have allocated and not yet freed
  kpt,          \* pages of the kernel page table kvmalloc built
  freed         \* ghost: the addresses freerange passed to kfree

vars == <<freelist, runnext, use_lock, lock, pc, ret, r, mstage, frp, frend,
          socpu, stack, started, procs, inuse, kpt, freed>>

\* CPU c is between its use_lock test and its release of the free list.
InList(c) == pc[c] \in {"kf_link", "kf_push", "ka_read", "ka_pop"}

\* Mutants: main() with kinit2 before startothers, and with the first
\* process created before kinit2.
MainOrderKinit2First == <<"kinit1", "kvmalloc", "kinit2", "startothers", "userinit",
                         "mpmain">>
MainOrderUserinitFirst == <<"kinit1", "kvmalloc", "startothers", "userinit", "kinit2",
                           "mpmain">>

\* The allocator-related calls of main(), in the order it makes them.
MainOrder == <<"kinit1", "kvmalloc", "startothers", "kinit2", "userinit", "mpmain">>

\* startothers' loop: the first cpus[] entry of S, NoCPU at the end.
NextAP(S) == IF S = {} THEN NoCPU ELSE CHOOSE d \in S : \A e \in S : d <= e

-----------------------------------------------------------------------------
(* kfree(v) and kalloc().  A call is entered by the caller's step, which   *)
(* sets the return point; the entry performs the first test of use_lock.   *)

\* kfree(v): panic unless v is a whole page in [end, PHYSTOP); memset;
\* take kmem.lock if use_lock.
KfreeCall(c, v, back) ==
  /\ r' = [r EXCEPT ![c] = v]
  /\ ret' = [ret EXCEPT ![c] = back]
  /\ pc' = [pc EXCEPT ![c] = IF v \notin Pages THEN "panic"
                             ELSE IF use_lock THEN "kf_acq" ELSE "kf_link"]

\* kalloc(): take kmem.lock if use_lock.
KallocCall(c, back) ==
  /\ ret' = [ret EXCEPT ![c] = back]
  /\ pc' = [pc EXCEPT ![c] = IF use_lock THEN "ka_acq" ELSE "ka_read"]

\* acquire(&kmem.lock): spin until it is free.
Acquire(c) ==
  /\ pc[c] \in {"kf_acq", "ka_acq"}
  /\ lock = NoCPU
  /\ lock' = c
  /\ pc' = [pc EXCEPT ![c] = IF pc[c] = "kf_acq" THEN "kf_link" ELSE "ka_read"]
  /\ UNCHANGED <<freelist, runnext, use_lock, ret, r, mstage, frp, frend,
                 socpu, stack, started, procs, inuse, kpt, freed>>

\* r->next = kmem.freelist;
KfreeLink(c) ==
  /\ pc[c] = "kf_link"
  /\ runnext' = [runnext EXCEPT ![r[c]] = freelist]
  /\ pc' = [pc EXCEPT ![c] = "kf_push"]
  /\ UNCHANGED <<freelist, use_lock, lock, ret, r, mstage, frp, frend, socpu,
                 stack, started, procs, inuse, kpt, freed>>

\* kmem.freelist = r;
KfreePush(c) ==
  /\ pc[c] = "kf_push"
  /\ freelist' = r[c]
  /\ pc' = [pc EXCEPT ![c] = "kf_rel"]
  /\ UNCHANGED <<runnext, use_lock, lock, ret, r, mstage, frp, frend, socpu,
                 stack, started, procs, inuse, kpt, freed>>

\* r = kmem.freelist;
KallocRead(c) ==
  /\ pc[c] = "ka_read"
  /\ r' = [r EXCEPT ![c] = freelist]
  /\ pc' = [pc EXCEPT ![c] = "ka_pop"]
  /\ UNCHANGED <<freelist, runnext, use_lock, lock, ret, mstage, frp, frend,
                 socpu, stack, started, procs, inuse, kpt, freed>>

\* Mutant: kalloc hands out the first page without unlinking it.
KallocNoPop(c) ==
  /\ pc[c] = "ka_pop"
  /\ pc' = [pc EXCEPT ![c] = "ka_rel"]
  /\ UNCHANGED <<freelist, runnext, use_lock, lock, ret, r, mstage, frp, frend,
                 socpu, stack, started, procs, inuse, kpt, freed>>

\* if(r) kmem.freelist = r->next;
KallocPop(c) ==
  /\ pc[c] = "ka_pop"
  /\ freelist' = IF r[c] # 0 THEN runnext[r[c]] ELSE freelist
  /\ pc' = [pc EXCEPT ![c] = "ka_rel"]
  /\ UNCHANGED <<runnext, use_lock, lock, ret, r, mstage, frp, frend, socpu,
                 stack, started, procs, inuse, kpt, freed>>

\* if(kmem.use_lock) release(&kmem.lock); then return to the caller.
\* (release() of spinlock.c panics unless the caller holds the lock:
\* FreeListExclusive below states that it does.)
Release(c) ==
  /\ pc[c] \in {"kf_rel", "ka_rel"}
  /\ lock' = IF use_lock THEN NoCPU ELSE lock
  /\ pc' = [pc EXCEPT ![c] = ret[c]]
  /\ UNCHANGED <<freelist, runnext, use_lock, ret, r, mstage, frp, frend,
                 socpu, stack, started, procs, inuse, kpt, freed>>

-----------------------------------------------------------------------------
(* main() on the BSP, and mpenter()/mpmain() on the APs.                   *)

Init ==
  /\ freelist = 0
  /\ runnext = [a \in Pages |-> 0]
  /\ use_lock = FALSE
  /\ lock = NoCPU
  /\ pc = [c \in CPUs |-> IF c = BSP THEN "main" ELSE "off"]
  /\ ret = [c \in CPUs |-> "sched"]
  /\ r = [c \in CPUs |-> 0]
  /\ mstage = 1
  /\ frp = 0 /\ frend = 0
  /\ socpu = NoCPU
  /\ stack = [c \in CPUs |-> 0]
  /\ started = [c \in CPUs |-> FALSE]
  /\ procs = FALSE
  /\ inuse = {}
  /\ kpt = {}
  /\ freed = {}

\* The BSP is in main() and its next call is s.
Stage(s) == pc[BSP] = "main" /\ MainOrder[mstage] = s

\* Mutant: kinit1 starts freerange at end without rounding it up.
Kinit1NoRoundUp ==
  /\ Stage("kinit1")
  /\ lock' = NoCPU
  /\ use_lock' = FALSE
  /\ frp' = END /\ frend' = P4MB
  /\ pc' = [pc EXCEPT ![BSP] = "fr"]
  /\ UNCHANGED <<freelist, runnext, ret, r, mstage, socpu, stack, started,
                 procs, inuse, kpt, freed>>

\* kinit1(end, P2V(4MB)): initlock; use_lock = 0; freerange.
Kinit1 ==
  /\ Stage("kinit1")
  /\ lock' = NoCPU
  /\ use_lock' = FALSE
  /\ frp' = PGROUNDUP(END) /\ frend' = P4MB
  /\ pc' = [pc EXCEPT ![BSP] = "fr"]
  /\ UNCHANGED <<freelist, runnext, ret, r, mstage, socpu, stack, started,
                 procs, inuse, kpt, freed>>

\* kinit2(P2V(4MB), P2V(PHYSTOP)): freerange, then use_lock = 1.
Kinit2 ==
  /\ Stage("kinit2")
  /\ frp' = PGROUNDUP(P4MB) /\ frend' = PHYSTOP
  /\ pc' = [pc EXCEPT ![BSP] = "fr"]
  /\ UNCHANGED <<freelist, runnext, use_lock, lock, ret, r, mstage, socpu,
                 stack, started, procs, inuse, kpt, freed>>

\* Mutant: freerange's loop also frees the page that starts at vend.
FreeRangeInclusive ==
  /\ pc[BSP] = "fr"
  /\ \/ /\ frp <= frend
        /\ KfreeCall(BSP, frp, "fr")
        /\ frp' = frp + PGSIZE
        /\ freed' = freed \cup {frp}
        /\ UNCHANGED <<use_lock, mstage>>
     \/ /\ frp > frend
        /\ use_lock' = (MainOrder[mstage] = "kinit2" \/ use_lock)
        /\ mstage' = mstage + 1
        /\ pc' = [pc EXCEPT ![BSP] = "main"]
        /\ UNCHANGED <<ret, r, frp, freed>>
  /\ UNCHANGED <<freelist, runnext, lock, frend, socpu, stack, started, procs,
                 inuse, kpt>>

\* freerange's loop: kfree(p) and p += PGSIZE while p + PGSIZE <= vend;
\* at its end kinit1 returns, kinit2 sets use_lock = 1 and returns.
FreeRange ==
  /\ pc[BSP] = "fr"
  /\ \/ /\ frp + PGSIZE <= frend
        /\ KfreeCall(BSP, frp, "fr")
        /\ frp' = frp + PGSIZE
        /\ freed' = freed \cup {frp}
        /\ UNCHANGED <<use_lock, mstage>>
     \/ /\ frp + PGSIZE > frend
        /\ use_lock' = (MainOrder[mstage] = "kinit2" \/ use_lock)
        /\ mstage' = mstage + 1
        /\ pc' = [pc EXCEPT ![BSP] = "main"]
        /\ UNCHANGED <<ret, r, frp, freed>>
  /\ UNCHANGED <<freelist, runnext, lock, frend, socpu, stack, started, procs,
                 inuse, kpt>>

\* startothers' loop head for cpus[] entry c: stack = kalloc(), or return
\* to main() after the last entry.
SOLoop(c) ==
  /\ socpu' = c
  /\ \/ /\ c # NoCPU
        /\ KallocCall(BSP, "so_launch")
        /\ UNCHANGED mstage
     \/ /\ c = NoCPU
        /\ mstage' = mstage + 1
        /\ pc' = [pc EXCEPT ![BSP] = "main"]
        /\ UNCHANGED ret

\* startothers(): copy entryother to 0x7000 and enter the loop.
StartOthers ==
  /\ Stage("startothers")
  /\ SOLoop(NextAP(APs))
  /\ UNCHANGED <<freelist, runnext, use_lock, lock, r, frp, frend, stack,
                 started, procs, inuse, kpt, freed>>

\* Pass the stack to entryother and lapicstartap(c->id): the AP runs.
SOLaunch ==
  /\ pc[BSP] = "so_launch"
  /\ stack' = [stack EXCEPT ![socpu] = r[BSP]]
  /\ pc' = [pc EXCEPT ![BSP] = "so_wait", ![socpu] = "entry"]
  /\ UNCHANGED <<freelist, runnext, use_lock, lock, ret, r, mstage, frp, frend,
                 socpu, started, procs, inuse, kpt, freed>>

\* while(c->started == 0); then the next cpus[] entry.
SOWait ==
  /\ pc[BSP] = "so_wait"
  /\ started[socpu]
  /\ SOLoop(NextAP({d \in APs : d > socpu}))
  /\ UNCHANGED <<freelist, runnext, use_lock, lock, r, frp, frend, stack,
                 started, procs, inuse, kpt, freed>>

\* userinit(): allocproc and setupkvm kalloc the first process's pages.
Userinit ==
  /\ Stage("userinit")
  /\ KallocCall(BSP, "ui_done")
  /\ UNCHANGED <<freelist, runnext, use_lock, lock, r, mstage, frp, frend,
                 socpu, stack, started, procs, inuse, kpt, freed>>

\* kvmalloc(): setupkvm kalloc()s the kernel page directory (its page
\* tables are abstracted into it).
Kvmalloc ==
  /\ Stage("kvmalloc")
  /\ KallocCall(BSP, "kvm_done")
  /\ UNCHANGED <<freelist, runnext, use_lock, lock, r, mstage, frp, frend,
                 socpu, stack, started, procs, inuse, kpt, freed>>

\* switchkvm(): the page table is installed.
KvmallocDone ==
  /\ pc[BSP] = "kvm_done"
  /\ kpt' = kpt \cup ({r[BSP]} \ {0})
  /\ mstage' = mstage + 1
  /\ pc' = [pc EXCEPT ![BSP] = "main"]
  /\ UNCHANGED <<freelist, runnext, use_lock, lock, ret, r, frp, frend, socpu,
                 stack, started, procs, inuse, freed>>

\* The first process exists and is runnable.
UserinitDone ==
  /\ pc[BSP] = "ui_done"
  /\ inuse' = inuse \cup ({r[BSP]} \ {0})
  /\ procs' = TRUE
  /\ mstage' = mstage + 1
  /\ pc' = [pc EXCEPT ![BSP] = "main"]
  /\ UNCHANGED <<freelist, runnext, use_lock, lock, ret, r, frp, frend, socpu,
                 stack, started, kpt, freed>>

\* mpmain() on the BSP: xchg(&cpu->started, 1); scheduler().
Mpmain ==
  /\ Stage("mpmain")
  /\ started' = [started EXCEPT ![BSP] = TRUE]
  /\ pc' = [pc EXCEPT ![BSP] = "sched"]
  /\ UNCHANGED <<freelist, runnext, use_lock, lock, ret, r, mstage, frp, frend,
                 socpu, stack, procs, inuse, kpt, freed>>

\* xchg(addr, newval): one locked instruction stores newval at f[k] (the
\* old value it returns is unused by mpmain).  Being atomic, it publishes
\* started to startothers' spin loop in a single step.
Xchg(f, k, v) == [f EXCEPT ![k] = v]

\* Mutant: mpmain on an AP enters the scheduler without setting started.
ApEnterNotStarted(c) ==
  /\ pc[c] = "entry"
  /\ pc' = [pc EXCEPT ![c] = "sched"]
  /\ UNCHANGED <<freelist, runnext, use_lock, lock, ret, r, mstage, frp, frend,
                 socpu, stack, started, procs, inuse, kpt, freed>>

\* An AP on its new stack: mpenter(); mpmain(): started = 1; scheduler().
ApEnter(c) ==
  /\ pc[c] = "entry"
  /\ started' = Xchg(started, c, TRUE)
  /\ pc' = [pc EXCEPT ![c] = "sched"]
  /\ UNCHANGED <<freelist, runnext, use_lock, lock, ret, r, mstage, frp, frend,
                 socpu, stack, procs, inuse, kpt, freed>>

\* A process running on c allocates a page (fork, exec, sbrk, pipes ...).
SchedAlloc(c) ==
  /\ pc[c] = "sched" /\ procs
  /\ KallocCall(c, "got")
  /\ UNCHANGED <<freelist, runnext, use_lock, lock, r, mstage, frp, frend,
                 socpu, stack, started, procs, inuse, kpt, freed>>

SchedGot(c) ==
  /\ pc[c] = "got"
  /\ inuse' = inuse \cup ({r[c]} \ {0})
  /\ pc' = [pc EXCEPT ![c] = "sched"]
  /\ UNCHANGED <<freelist, runnext, use_lock, lock, ret, r, mstage, frp, frend,
                 socpu, stack, started, procs, kpt, freed>>

\* A process running on c frees a page it was given.
SchedFree(c, v) ==
  /\ pc[c] = "sched" /\ v \in inuse
  /\ inuse' = inuse \ {v}
  /\ KfreeCall(c, v, "sched")
  /\ UNCHANGED <<freelist, runnext, use_lock, lock, mstage, frp, frend, socpu,
                 stack, started, procs, kpt, freed>>

Next ==
  \/ Kinit1 \/ Kinit2 \/ FreeRange \/ StartOthers \/ SOLaunch \/ SOWait
  \/ Kvmalloc \/ KvmallocDone \/ Userinit \/ UserinitDone \/ Mpmain
  \/ \E c \in CPUs :
       \/ Acquire(c) \/ KfreeLink(c) \/ KfreePush(c) \/ KallocRead(c)
       \/ KallocPop(c) \/ Release(c) \/ ApEnter(c) \/ SchedGot(c)
       \/ SchedAlloc(c) \/ \E v \in inuse : SchedFree(c, v)

\* Every CPU runs its own code: each step of main(), of an AP's entry and
\* of a started kalloc/kfree is weakly fair.  Whether a process allocates
\* or frees is its choice.
Fairness ==
  /\ WF_vars(Kinit1) /\ WF_vars(Kinit2) /\ WF_vars(FreeRange)
  /\ WF_vars(StartOthers) /\ WF_vars(SOLaunch) /\ WF_vars(SOWait)
  /\ WF_vars(Kvmalloc) /\ WF_vars(KvmallocDone) /\ WF_vars(Userinit) /\ WF_vars(UserinitDone) /\ WF_vars(Mpmain)
  /\ \A c \in CPUs :
       /\ WF_vars(Acquire(c)) /\ WF_vars(KfreeLink(c)) /\ WF_vars(KfreePush(c))
       /\ WF_vars(KallocRead(c)) /\ WF_vars(KallocPop(c))
       /\ WF_vars(Release(c)) /\ WF_vars(ApEnter(c)) /\ WF_vars(SchedGot(c))

Spec == Init /\ [][Next]_vars /\ Fairness
-----------------------------------------------------------------------------
(* Properties.                                                             *)

\* The pages on the free list, following r->next from kmem.freelist for at
\* most one step more than there are pages (so a cycle shows as a repeat).
RECURSIVE Chain(_, _)
Chain(p, n) == IF p = 0 \/ n = 0 THEN <<>> ELSE <<p>> \o Chain(runnext[p], n - 1)
FreeSeq == Chain(freelist, Cardinality(Pages) + 1)

\* CPU c holds page r[c] outside the free list: a kfree before its push,
\* or a kalloc result not yet handed to its caller's data.
Carrying(c) ==
  \/ pc[c] \in {"kf_acq", "kf_link", "kf_push"}
  \/ pc[c] \in {"ka_rel", "kvm_done", "so_launch", "ui_done", "got"} /\ r[c] # 0

\* The number of places that hold page x.
Holders(x) ==
  (IF x \in Range(FreeSeq) THEN 1 ELSE 0) + (IF x \in inuse THEN 1 ELSE 0)
  + (IF x \in kpt THEN 1 ELSE 0)
  + Cardinality({c \in APs : stack[c] = x})
  + Cardinality({c \in CPUs : Carrying(c) /\ r[c] = x})

\* The whole pages of [lo, hi): the reference for what freerange frees.
WholePages(lo, hi) ==
  {k * PGSIZE : k \in 0..(hi \div PGSIZE)} \cap {a \in Nat : a >= lo /\ a + PGSIZE <= hi}

TypeOK ==
  /\ freelist \in Pages \cup {0}
  /\ runnext \in [Pages -> Pages \cup {0}]
  /\ use_lock \in BOOLEAN
  /\ lock \in CPUs \cup {NoCPU}
  /\ pc \in [CPUs -> {"main", "fr", "kvm_done", "so_launch", "so_wait",
                      "ui_done", "off", "entry", "sched", "got", "kf_acq", "kf_link", "kf_push",
                      "kf_rel", "ka_acq", "ka_read", "ka_pop", "ka_rel",
                      "panic"}]
  /\ r \in [CPUs -> Pages \cup {0}]
  /\ mstage \in 1..(Len(MainOrder) + 1)
  /\ socpu \in CPUs \cup {NoCPU}
  /\ stack \in [CPUs -> Pages \cup {0}]
  /\ started \in [CPUs -> BOOLEAN]
  /\ procs \in BOOLEAN
  /\ inuse \in SUBSET Pages
  /\ kpt \in SUBSET Pages
  /\ freed \in SUBSET Addrs

\* kmem.use_lock = 0 is safe only while one CPU uses the allocator: main()
\* starts the APs before kinit2 but creates no process until use_lock is
\* set, so no two CPUs are ever inside kalloc/kfree's free-list accesses
\* at once, locked or not; and kalloc/kfree, which test use_lock twice,
\* never reach release() with use_lock set without holding kmem.lock.
FreeListExclusive ==
  /\ \A c, d \in CPUs : c # d => ~(InList(c) /\ InList(d))
  /\ \A c \in CPUs : pc[c] \in {"kf_rel", "ka_rel"} /\ use_lock => lock = c

\* No page is lost or handed out twice: the free list is acyclic, and every
\* page freerange freed is in exactly one place -- on the free list, the
\* kernel page table, an AP stack, a process, or in the hands of a kalloc/kfree in progress.
PagesConserved ==
  /\ IsInjective(FreeSeq)
  /\ \A x \in Pages : Holders(x) = IF x \in freed THEN 1 ELSE 0

\* entryother runs on entrypgdir, which maps only the first 4MB: the stack
\* startothers kalloc()s for an AP (main.c:177, unchecked) is a real page
\* lying wholly below P2V(4MB).  This is why kinit2 must follow startothers.
ApStackMapped ==
  \A c \in APs : pc[c] # "off" =>
    stack[c] # 0 /\ EntryMapped(stack[c] + PGSIZE - 1)

\* freerange's rounding and loop bound: kinit1 and kinit2 free only whole
\* pages between end and PHYSTOP, and once kinit2 has set use_lock they
\* have freed every one of them.
FreedExact ==
  /\ freed \subseteq WholePages(END, PHYSTOP)
  /\ use_lock => freed = WholePages(END, PHYSTOP)

\* Start-up completes: every CPU reaches the scheduler with started set
\* (startothers' spin on c->started ends for every AP).
BootCompletes == <>(\A c \in CPUs : started[c])
====
