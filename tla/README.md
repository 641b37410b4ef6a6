# TLA+ models of the xv6 storage core

This directory holds TLA+ models of the persistent-storage core of this xv6
tree: the write-ahead log (`log.c`, lines 108-361 of `src/unnamed/part_000`)
and the IDE disk driver (`src/ide.c`), and of the physical page allocator
(`src/kalloc.c`) with the start-up sequence of `src/main.c` that decides when
the allocator runs without its lock, and of the boot loader
(`bootmain.c`, lines 1-107 of `part_000`, with the ELF structs and the
`insl`/`stosb` helpers of `src/elf.h`). It holds the TLC configurations that
check them and `PROJECT.json`. `PROJECT.json` lists the components, the runs,
the mutants, the map from TLA+ definitions to source lines, the findings and
the hazards.

## 1. Inventory

### Components

| Component | Source | State | Operations |
|---|---|---|---|
| Write-ahead log | `part_000` 108-361 (log.c) | `struct log`: `lock`, `start`, `size`, `outstanding`, `committing`, `dev`, in-memory header `lh` (`n`, `sector[LOGSIZE]`); on disk: header block and `size-1` log blocks | `initlog`/`recover_from_log` (`read_head`, `install_trans`, `write_head`), `begin_op`, `end_op`, `log_write`, `commit` (`write_log`, `write_head`, `install_trans`, `write_head`) |
| IDE driver | `ide.c` | `idelock`, `idequeue` (a list linked through `b->qnext`), `havedisk1`; per buffer `flags` (B_BUSY/B_VALID/B_DIRTY) and `data`; the controller's registers | `ideinit`, `idestart`, `iderw`, `ideintr`, `idewait` |
| Buffer cache | `bio.c`, not in this repository | buffers with flags | `bread`, `bwrite`, `brelse`. This is the only caller of `iderw`. `log.c` uses it for every block. |
| Page allocator | `kalloc.c` (`part_001` is a second copy) | `kmem.lock`, `kmem.use_lock`, `kmem.freelist` | `kinit1`, `kinit2`, `freerange`, `kfree`, `kalloc` |
| Kernel start-up | `main.c` | `cpu->started` | `main` (calls `kinit1`, ..., `ideinit`, `startothers`, `kinit2`), `mpenter`, `mpmain`, `startothers` |
| Boot loader | `part_000` 1-107 (bootmain.c) | none | `bootmain`, `readseg`, `readsect`, `waitdisk` |
| ELF definitions and x86 helpers | `elf.h` (also holds `x86.h`) | none | `struct elfhdr`, `struct proghdr`; inline `insl`, `stosb`, `xchg`, ... |
| Boot signer | `sign.pl` | none | none (a build script) |

### Interactions

- A file-system operation (a process in a system call) calls `begin_op`. It
  then calls `bread` and modifies a buffer, calls `log_write(bp)` and `brelse`,
  and finally calls `end_op`. The log state is shared by all processes.
  `begin_op`, `end_op` and the commit-completion code take `log.lock`.
  `log_write` does **not** take it.
- The last `end_op` (the one that brings `outstanding` to 0) sets `committing`,
  releases the lock and runs `commit()`. Every block that commit writes is a
  `bwrite`, and every `bwrite` is a synchronous `iderw`.
- `iderw` appends the buffer to `idequeue` under `idelock`. It starts the
  controller if the buffer is the queue head, then sleeps. The controller
  raises an interrupt when it finishes. `ideintr` then unlinks the head,
  copies the read data in, sets `B_VALID`, clears `B_DIRTY`, wakes the owner
  and starts the next request.
- Sleep and wakeup are the only blocking mechanism. `sleep(chan, lock)`
  atomically releases the lock. `wakeup(chan)` wakes every sleeper on `chan`,
  and each one re-checks its loop condition.

### What is hard

- **Concurrency.** Several processes are in file-system calls at once, and the
  timer can preempt kernel code. `log_write` updates shared `log.lh` without a
  lock. `commit` runs outside `log.lock` and relies on `committing` alone.
- **Interrupt-driven I/O.** `ideintr` runs asynchronously to the processes
  that append to the queue. It must continue the pipeline.
- **Crashes.** Power can fail between any two block writes of `commit` or of
  recovery itself. The on-disk header write is the commit point.
- **Capacity.** `begin_op` reserves `MAXOPBLOCKS` header slots per admitted
  operation. `log_write` panics if the header is full.
- **Device errors.** A read can end with DF/ERR.

### What makes each component correct

- Log:
  - after any crash and recovery, the disk holds every committed transaction
    fully and no uncommitted one (all-or-nothing);
  - a commit runs alone, only at a quiescent point;
  - admitted operations never overflow the header;
  - every block passed to `log_write` is in the transaction;
  - a commit finishes.
- Driver:
  - only the queue head is at the controller, and the queue never stalls;
  - a waiter is woken only by the completion of its own request, with the
    right data;
  - every `iderw` returns.
- Allocator:
  - a page is never on the free list twice, and never both free and
    allocated;
  - no page is lost.

`PROJECT.json` "hazards" lists, at the line where each one bites, what is hard
to test here and which property covers it.

## 2. Plan

In order of importance:

1. **WAL**: the log with concurrent operations, crashes and recovery. *(Done.)*
2. **Ide**: the driver, its queue, the controller and interrupts. *(Done.)*
3. **SyncDisk**: an abstract `iderw` that reads or writes one sector
   atomically, refined by Ide. *(Done.)* An abstract **AtomicDisk** for the
   log would add nothing to `Recoverable`. The ghost `durable` changes only
   at the commit point, and the disk must replay to it in every state, which
   is already the all-or-nothing step such a refinement would check.
4. **Write errors in the log**: every `bwrite` of WAL may fail silently, as
   the driver allows (`ide.c:144`). *(Done: `wal_write_error`.)* A full
   composition of WAL with Ide's queue is left out. It is needed only for
   the interleaving of commit's writes with other processes' reads.
   `SyncDisk` shows that each `iderw` is one atomic step, which is how WAL
   treats a `bwrite`.
5. **Kalloc**: the free list, `kfree`/`kalloc` under `kmem.lock`, and the
   `use_lock = 0` phase of `kinit1`/`kinit2` in the order `main.c` runs them.
   *(Done.)*
6. **Bootmain**: `bootmain`'s segment loop and `readseg`'s byte-to-sector
   arithmetic, checked against the reference "every segment's file bytes
   and zero fill are in place" over all bounded ELF images. *(Done.)*
7. A second violation run: `NLOG = LOGSIZE` (the layout xv6's `mkfs` makes,
   where `log.size - 1 < LOGSIZE`). *(Not built.)* `NoTooBigPanic` cannot
   tell this panic from the absorption panic of `wal_absorb_panic`, since
   both fire at the same test. The hazard is listed in `PROJECT.json`.
8. **The task file**: the sector and drive encodings of `idestart` and
   `readsect`, modelled by what they do at the code's widths and decoded
   as the drive decodes them (`Ata`). *(Done.)*

## 3. Module WAL (log.c)

**State.** The disk has `home` (home sectors), `logdisk` (log blocks
`log.start+1 ..`) and `dhead` (the header block, as the sequence of sectors it
names). Memory has `cache` (the buffer cache's content of home sectors),
`lhn`/`lhsec` (`log.lh`), `outstanding`, `committing`, and per process `pc`
plus `log_write`'s locals `lwi`/`lws`. `tail` is the loop index of
`write_log`/`install_trans`. `boot` is `recover`, `rinstall`, `up` or `halted`
(panic). Three ghost variables serve the properties. `durable` is the
image of the last committed transaction, set at the commit point from the
cache. `before` is the image the disk denoted just before that commit
point. `txdirty` is the set of sectors written in the current transaction.
When a commit ends, or the machine crashes or reboots, `Settle` sets both
images to what recovery would replay. Where `Recoverable` holds, this
changes nothing. Under write errors it records that a transaction whose
writes failed may not have committed.

**Actions.** One action per source step:

| Action | Source |
|---|---|
| `ReadHead`, `RecoverInstall`, `RecoverClear` | `recover_from_log` |
| `BeginOp` | the `begin_op` loop. A process woken by `Wakeup` re-checks the condition. |
| `LogWrite`, `LogWriteSet`, `LogWriteInc` | `log_write`: the panics and the absorption scan; the store `lh.sector[i] = ...`; the conditional `n++`. They are three steps because nothing serialises them. |
| `EndOp` | `end_op` |
| `Commit`, `WriteLog` (one block per step), `WriteHead`, `Install` (one block per step), `ClearHead` (`lh.n = 0; write_head()`), `CommitEnd` | `commit` |
| `Crash` | power failure. Memory is lost; the cache then shows the disk. |
| `Reboot` | restart after a panic |

**Abstractions.** Block contents are the members of `Vals`. Each `bwrite` is
one atomic sector write (what `SyncDisk` shows of the driver). Under
`WriteErrors` it may also leave the block unchanged and return as if it had
succeeded (`Bwrite`): the driver never reads a write's status. `ClearHead` merges `lh.n = 0` with the following
`write_head`, because no other process reads `lh` in between (see
`QuiescentCommit`). `Install` copies the log buffer that `write_log`
left in the cache, which holds the intended data even if its disk write
failed. `RecoverInstall` reads the log block from disk, because the cache
is empty at boot. The case where the cache has evicted a log buffer before
`install_trans` runs is not modelled. The caller's modification of the buffer is part of
`LogWrite`. The caller keeps to `MAXOPBLOCKS` distinct blocks per operation.

**Fairness.** Every step of a started kernel path is weakly fair: a woken
`begin_op`, the rest of a `log_write`, the commit steps and recovery. A
process scheduled with the CPU runs these to completion. `end_op` is
strongly fair. A file-system operation makes finitely many `log_write`s
before it calls `end_op`, but while a `log_write` is half-done `end_op` is
not enabled. Under weak fairness alone, an operation that rewrote one block
forever would be a legal behaviour. Entering a system call, writing a block,
crashing and panicking are not fair.

**Starvation.** Admission in `begin_op` is not fair to a particular waiter.
`wakeup` is a broadcast, and another process can start an operation and
commit before the woken one re-checks. TLC shows a cycle in which this
happens forever. Neither the code nor the spec promises otherwise, so
`SleepersWoken` checks only that every sleeper is woken.

## 4. Module Ide (ide.c)

**State.** `queue` (`idequeue`). Per buffer (named by its owning process):
`blk` (dev, sector), `valid`, `dirty`, `data` and `isread`. The controller:
`ctrl` (idle/busy/done = interrupt pending), `creq`, `cblk`, `cwrite`,
`cdata`, `cerr`. Also `disk`, `havedisk1`, `pc` and `boot`.

**Actions.**

| Action | Source |
|---|---|
| `IdeInit` | `ideinit`'s probe |
| `IdeStart` | `idestart`. Its `idewait(0)` is the guard that the controller is not busy. `TaskFile` is its four `outb`s of the address; `cblk` is the block the controller decodes from them (`Ata`). |
| `Iderw` | `iderw` up to `sleep`, including the disk-1 panic |
| `IderwReturn` | the end of the sleep loop |
| `DiskComplete` | the controller finishing a command. Under `ReadErrors`/`WriteErrors` it may end the command with DF/ERR, having transferred nothing. |
| `IdeIntr` | `ideintr` |
| `BRead`, `BWrite`, `BRelse` | the buffer cache (spec-modelled). Two held buffers never name the same block (B_BUSY). |
| `Halted` | `panic` spinning forever |

Each driver step is atomic: `idelock` is held and interrupts are off.

**The task file.** `Ata.tla` holds what both disk users share: `Outb`,
which keeps the low byte of the value as `outb`'s `uchar` parameter does,
and the drive's reading of the four address registers (`AtaDrive`,
`AtaLbaMode`, `AtaLba`: LBA28, DRV in bit 4 of 0x1f6). Sectors are numbers
below 2^28. `MC_Ide` uses sector 0 and 0x0E0C0A01, whose three bytes and
top nibble all differ. So a wrong shift or mask in `TaskFile` sends the
command to another block, and `DeviceServesHead` fails. (Sending bits 8-15
to port 0x1f5 as well was tried as a mutant.)

**Fairness.** The controller completes every command. Its interrupt is
delivered and handled. A process in `iderw` runs once woken.

**Abstract specification: SyncDisk.** `SyncDisk.tla` states what
`iderw` promises its callers:
- a process holding a buffer submits a read or a write;
- the request takes effect atomically at one instant, one request at a
  time: a read returns the block's content at that instant, and a write
  replaces it;
- only then does the call return;
- a request for an absent drive halts the system.

`Ide` instantiates it with the refinement mapping:
- `adisk <- disk`;
- `apc <- AbsPc`: a sleeper is "served" once its command has completed at
  the controller, or once `ideintr` has set `B_VALID` and cleared `B_DIRTY`;
- `adata <- AbsData`: a completed read's data is in `cdata` until `ideintr`
  copies it in;
- `ahalted <- boot = "halted"`.

So `DiskComplete` is the abstract `Serve`, and every other driver step is
an abstract stutter. The run `ide_live` checks `SD!Spec`, including
its fairness, as a PROPERTY. While building the mapping, TLC showed that
the controller still completes a command it accepted before a panic. So a
write can reach the disk after the system halted, and `SyncDisk` allows a
request to be served after the halt.

## 5. Module Kalloc (kalloc.c, main.c)

**State.** `freelist` is `kmem.freelist` and `runnext[a]` is the `r->next`
word at the start of page `a`. So the free list is the linked structure the
code builds, and a cycle or a lost page can appear in it. `use_lock` and
`lock` (the holder of `kmem.lock`) are the lock state. Per CPU, `pc`, `ret`
(the return point of the current `kalloc`/`kfree`) and `r` (its `r` or `v`)
are the CPU's place in the code. The BSP's `main()` is `mstage`, an index
into `MainOrder`, the order of main's allocator-related calls, plus
freerange's `frp`/`frend` and startothers' `socpu`. `stack` and `started`
are what startothers gives each AP and the AP's `cpu->started`. `kpt`,
`inuse` and `procs` are the pages that the kernel page table and the
processes hold, and whether a process exists. `freed` is a ghost: every
address freerange passed to `kfree`.

Addresses are integers. `KERNBASE` is taken as 0, so `v2p` is the identity
and 0 is the null pointer. Pages are 2 units, and `end`, `P2V(4MB)` and
`PHYSTOP` are small constants with `end` not page aligned.

**Actions.**
- `kfree` is the caller's `KfreeCall`: the argument check, which panics, and
  the first `use_lock` test. It is followed by `Acquire`, `KfreeLink`
  (`r->next = kmem.freelist`), `KfreePush` (`kmem.freelist = r`) and
  `Release` (the second `use_lock` test).
- `kalloc` is `KallocCall`, then `Acquire`, `KallocRead`, `KallocPop`
  (`if(r) kmem.freelist = r->next`) and `Release`.
- The BSP runs `Kinit1`, `FreeRange` (one `kfree` per step; at the end of
  kinit2 it sets `use_lock`), `Kvmalloc`, `StartOthers`/`SOLaunch`/`SOWait`
  (kalloc a stack, start the AP, spin on `started`), `Kinit2`, `Userinit` and
  `Mpmain`.
- An AP runs `ApEnter` (mpenter, mpmain: `started = 1`, scheduler).
- Once a process exists, `SchedAlloc`/`SchedGot` and `SchedFree` are
  processes on any CPU allocating pages and freeing pages they hold.

`kvmalloc`, `userinit` and the processes live in `vm.c` and `proc.c`, which
are not in this repository. They appear only as the `kalloc`/`kfree` calls
they make, and the scheduler actions are marked spec-modelled in the map.

**Bounds.**
- Three CPUs (`MC_Kalloc`): two APs need two stacks, and three CPUs run
  processes at once.
- The low region holds three pages, for the page table and the two stacks.
  The high region holds three, so the first process and the others compete
  for the rest.
- 642k states.

**Fairness.** Each CPU runs its own code, so every step of `main()`, of an
AP's entry and of a started `kalloc`/`kfree` is weakly fair. Whether a
process allocates or frees is its own choice, and that is not fair.

## 6. Module Bootmain (bootmain.c, elf.h)

`bootmain` reads the first 4096 bytes of the kernel file (disk sector 1 on)
to scratch memory at 0x10000. If the magic number is right, it loads every
program header's segment with `readseg(paddr, filesz, off)`. Where `memsz >
filesz` it zero-fills the rest with `stosb`. Then it jumps to the entry
point. `readseg` rounds `pa` down by `offset % 512`, translates the byte
offset to a sector (`+1`, skipping the boot block), and calls `readsect` once
per whole sector while `pa < epa`. So it writes memory before and after the
range it was asked for.

**State.** `img` is the ELF image on disk (chosen in `Init`, then
constant). It is reduced to whether the magic matches and its program
headers (`off`, `paddr`, `filesz`, `memsz`; bootmain ignores `type` and
`flags`). `mem` maps each address to where its byte came from: the file
offset of the disk byte copied there, `Zero`, or `Junk` (never written).
This makes "the right byte is at the right place" checkable without
enumerating byte values. `pc`, `i` (the program header index) and readseg's
locals `rpa`, `repa`, `roff`, `rret` hold the control state.

**Actions.** `Start` (the header `readseg`). `ReadsegCall` (readseg's
prologue), `Readsect` (one loop iteration; `waitdisk` and the port commands
are one step, since nothing else uses the disk during boot) and
`ReadsegDone`. `BadMagic`/`GoodMagic`, `LoadSeg`, `ZeroFill`, `Enter`.
`Insl` and `Stosb0` are the memory effects of the `elf.h` helpers.
`ReadsectRegs` is readsect's four `outb`s of the sector, at the code's
32-bit width: `(offset >> 24) | 0xE0` is not masked to 4 bits. The drive
reads the sector `AtaLba` decodes from them. (Kalloc's
`Xchg` is `elf.h`'s `xchg`, with which `mpmain` publishes `started`.)

**Inputs.** `Images` is every image of one or two segments within the
bounds that satisfies ELF's rule `paddr = off (mod align)`. The segments
are also linked at increasing, disjoint addresses above the scratch page.
`MC_Bootmain.cfg` also requires different segments to lie on different
pages, as with xv6's page-aligned sections. `MC_Bootmain_shared.cfg` drops
that requirement.

**Bounds.** Sectors are 2 bytes and pages 4, so segments start and end
mid-sector and mid-page. The header is two sectors. Up to two segments are
linked at addresses 4-15, from file offsets 2-11, with sizes up to 3: 32k
images, 208k states.

**Fairness.** None is assumed: no liveness property is checked. bootmain
runs alone, and its only loop ends because readseg adds SECTSIZE to `pa` on
every iteration (part_000:105), so termination says nothing beyond that
one line. The run does not check deadlock, because bootmain ends: it jumps
to the kernel or returns to `bootasm.S`.

## 7. Runs

| Run | Checks | Bounds | Result |
|---|---|---|---|
| `wal` | `TypeOK`, `Recoverable`, `QuiescentCommit`, `LogSpaceReserved`, `CommitCompletes`, `SleepersWoken` | 2 procs, 2 sectors, 2 values, LOGSIZE 2, MAXOPBLOCKS 1, NLOG 3, 2 crashes, no write errors | pass (554k states, 2 min) |
| `wal_write_error` | `AllOrNothing` | same, with write errors | **violation**: recovery loses a committed transaction |
| `wal_lost_write` | `LoggedWritesRecorded` | same | **violation**: lost `log_write` |
| `wal_absorb_panic` | `NoTooBigPanic` | same | **violation**: panic on rewrite |
| `ide_safety` | `TypeOK`, `DeviceServesHead`, `CompletedOnReturn` | 3 procs, drives {0,1} with disk 1 absent, sectors 0 and 0x0E0C0A01, 2 values, no read errors | pass (142k states) |
| `ide_live` | `IderwReturns`, `ImplementsSyncDisk` | 2 procs, both drives present, sectors 0 and 0x0E0C0A01 on each, 2 values, no symmetry (3 procs take minutes) | pass (203k states, 55 s) |
| `ide_read_error` | `CompletedOnReturn` | as `ide_safety` with read errors | **violation**: failed read marked valid |
| `ide_write_error` | `CompletedOnReturn` | as `ide_safety` with write errors | **violation**: failed write reported as done |
| `kalloc` | `TypeOK`, `FreeListExclusive`, `PagesConserved`, `ApStackMapped`, `FreedExact`, `BootCompletes` | 3 CPUs, 3 low + 3 high pages | pass (642k states) |
| `boot_load` | `TypeOK`, `SegmentsLoaded`, `HeaderIntact`, `ReadsectAddressesKernel` | all images of ≤ 2 segments on separate pages, 2-byte sectors | pass (208k states) |
| `boot_shared_sector` | `SegmentsLoaded` | same, segments may share a page | **violation**: a later segment overwrites an earlier one |

**Why the WAL bounds are enough.** `LOGSIZE = 2` with `MAXOPBLOCKS = 1`
admits two operations into one transaction. They can write the same sector
(absorption) or different ones (a full header). Two sectors with two values
make a stale log or home block differ from the committed one. Two crashes
allow a crash during the recovery that follows a crash during commit.

**Why the Ide bounds are enough.** Three processes give a request at the
controller with two queued behind it. Disk 1 absent makes the panic path
reachable.

### Properties

- `Recoverable`: in every state, replaying the on-disk header over the home
  blocks gives `durable`. Since `Crash` can occur in any state, this is the
  all-or-nothing guarantee after any crash and recovery.
- `AllOrNothing` (run `wal_write_error` only): in every state, the disk
  replays to either `before` or `durable`. So a crash recovers to all or
  none of the last commit, even when block writes may fail.
- `QuiescentCommit`: a committer is alone, with `outstanding = 0` and no
  process inside a bracket.
- `LogSpaceReserved`: `lh.n` plus the unused reservation of every running
  operation is at most `LOGSIZE`.
- `CommitCompletes`: `committing ~> ~committing`.
- `SleepersWoken`: every process asleep in `begin_op` is eventually woken,
  unless a panic halts the system (a crash also ends its call). A committer
  that does not wake the sleepers breaks it.
- `DeviceServesHead`: the controller is idle iff the queue is empty, and
  otherwise it holds the head's block and direction. The block is the one
  the controller decodes from `idestart`'s task file.
- `CompletedOnReturn`: a process returning from `iderw` sees the disk's data
  (for a read), or the disk holds its data (for a write).
- `IderwReturns`: every sleeper in `iderw` returns.
- `ImplementsSyncDisk`: the driver implements the abstract `SyncDisk` under
  the mapping above.
- `FreeListExclusive`: no two CPUs are ever inside the free-list accesses of
  `kalloc`/`kfree` at once. No CPU reaches `release` with `use_lock` set
  without holding `kmem.lock`. This is why the unlocked phase is safe: the
  APs run during kinit2's `use_lock = 0` phase, but no process exists until
  `userinit`. The mutant that creates the first process before kinit2 breaks
  it.
- `PagesConserved`: the free list is acyclic, and every page freerange freed
  is in exactly one place. The places are the free list, the page table, an
  AP stack, a process, or a `kalloc`/`kfree` in progress.
- `ApStackMapped`: every AP's stack is a real page below `P2V(4MB)`, the
  memory `entrypgdir` maps. Running kinit2 before startothers breaks it.
- `FreedExact`: freerange's rounding and loop bound free exactly the whole
  pages of `[end, PHYSTOP)`, the reference set `WholePages`.
- `BootCompletes`: every CPU eventually has `started` set.
- `SegmentsLoaded`: whenever bootmain is between segments or has entered
  the kernel, every segment it finished holds its file bytes followed by
  zeros. readseg's extra writes must not disturb earlier segments. Reading
  without the round-down breaks it.
- `HeaderIntact`: every program header the loop reads is still the file's.
  This holds before the segment's `readseg` and again when the loop re-reads
  `memsz` and `filesz` after it. Reading only `sizeof(struct elfhdr)`
  instead of the first page breaks it.
- `ReadsectAddressesKernel`: each `readsect` call makes the drive read,
  from drive 0 in LBA mode, the sector readseg asked for. It is checked for
  the model's sectors and, at the code's widths (512-byte sectors, 32-bit
  offsets), for the sector of an offset at every bit boundary. TLC's
  integers stop at 2^31 - 1, so the largest uint offset enters as its
  sector, 2^23. The loop's `offset++` over a count of up to 2^32 bytes
  adds at most 2^23 more, so sectors 2^24 and 2^25 - 1 are checked too.
  The unmasked `offset >> 24` is then at most 1, and the DRV bit (bit 28)
  is never set. Sending bits 8-15 to port 0x1F5 breaks it.
- `TypeOK` of Bootmain also says memory only ever holds kernel-file bytes.
  The mutant that forgets to skip the boot block breaks it.

Every property of a passing run has a mutant in `PROJECT.json`. The mutant is
a plausible bug in the mapped action, and TLC finds the property violated
under it.

## 8. Findings

1. **`log_write` without `log.lock` loses blocks** (`part_000:353`). Two
   `log_write`s of one transaction interleave between scan, store and
   increment. One sector overwrites the other in `lh.sector[n]`, and only one
   `n++` happens. The first block is modified in the cache but never logged,
   so the commit does not make it durable. Later xv6 versions take
   `log.lock` in `log_write`.
2. **Header-full panic before absorption** (`part_000:342`). Operations that
   keep to their reservation can fill the header. Rewriting an already-logged
   block then panics, although it needs no new slot. The spec says admission
   control prevents any mid-flight abort.
3. **Failed reads are marked valid** (`ide.c:144`). On DF/ERR, `ideintr`
   skips `insl` but still sets `B_VALID`. The caller receives stale data as a
   successful read. The spec says the read fails and leaves the block invalid.
4. **Failed writes are reported as done** (`ide.c:144`, a spec gap).
   `ideintr` calls `idewait(1)` only for reads, so a write's status is
   never read. A write the controller failed leaves the sector unchanged,
   yet `iderw` returns with `B_DIRTY` cleared. The spec defines failure only
   for reads, while `commit` relies on the header write being durable.
5. **readseg's extra writes can clobber an earlier segment**
   (`part_000:102`, a spec gap). The comment says writing more than asked
   "doesn't matter -- we load in increasing order". But the round-down at
   the start of a segment rewrites the whole sector holding its first byte.
   If an earlier segment ends in that sector, its last bytes are replaced
   by file bytes, and so is its zero fill. TLC's example is a segment that
   is only bss, followed in the same sector by an empty segment. xv6's own
   kernel aligns its sections to pages, so it is not affected.
6. **A failed block write breaks the log's guarantee** (`part_000:234`, a
   spec gap). `commit` writes through `bwrite`, which cannot report a
   failure (finding 4). If `write_head` fails, the old header stays on disk,
   yet `commit` installs and `end_op` returns as if the transaction were
   durable. That alone is allowed: a crash then recovers to nothing.
   What breaks the guarantee is recovery. A transaction's header write
   succeeds, and the machine crashes. `recover_from_log` then runs
   `install_trans`, whose home write fails silently, and clears the header
   (`part_000:234-236`). The committed transaction is now gone from disk,
   while the cache shows it until the next reboot. This is TLC's shortest
   example (`AllOrNothing`). The same happens when commit's own install
   fails before `ClearHead`, or when a log-block write fails and recovery
   replays stale data.

## 9. Not modelled (yet)

- The buffer cache's eviction: it is external, and `log_write`'s `B_DIRTY`
  pin is assumed to hold.
- Spurious interrupts.
- Boot loader: a segment linked over the scratch page. The model reads
  program headers from scratch memory (`HeaderIntact`), but it assumes that
  segments are linked above that page, as they are in xv6's layout.
- WAL composed with Ide's request queue. WAL treats each `bwrite` as one
  atomic step, which `ImplementsSyncDisk` justifies. It is also a failure
  point (`WriteErrors`). What the composition would add is only the order
  in which commit's writes and other processes' reads reach the disk. It
  has not been built.
- The calls of `main()` that program hardware or initialise tables no
  modelled component reads (`mpinit`, `lapicinit`, `seginit`, `picinit`,
  `ioapicinit`, `consoleinit`, `uartinit`, `pinit`, `tvinit`, `binit`,
  `fileinit`, `iinit`, `timerinit`, `idtinit`).
- A page freed twice: `kfree` does not check for it. That is a contract on
  the caller, which the modelled callers keep.
- The other `x86.h` helpers in `elf.h` (`lgdt`, `lidt`, `ltr`,
  `readeflags`, `loadgs`, `cli`/`sti`, `rcr2`/`lcr3`, `stosl`, `struct
  trapframe`) are used only by files that are not in this repository
  (vm.c, trap.c, spinlock.c, proc.c, string.c). `inb` (the status polls)
  and `outsl` (the data transfer of a write) are abstracted into the
  controller steps. `sign.pl` is a build script.
- Sectors of 2^28 or more, and device numbers above 1, in `idestart`: it
  would drop their upper bits without a check. The file system never uses
  them, so `Ide` excludes them by ASSUME.
