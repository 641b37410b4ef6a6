------------------------------ MODULE Bootmain ------------------------------
(***************************************************************************)
(* The boot loader (bootmain.c, lines 1-107 of part_000): bootmain reads   *)
(* the first page of the kernel's ELF file into scratch memory, checks the *)
(* magic number, loads every program segment with readseg, zero-fills     *)
(* the part of a segment beyond its file size with stosb, and jumps to the *)
(* entry point.  readseg reads whole 512-byte sectors, so it may write     *)
(* memory before and after the range it is asked for.                      *)
(*                                                                         *)
(* Data is abstracted to where it came from: a memory byte holds the file  *)
(* offset of the disk byte copied into it (the kernel file starts at       *)
(* sector 1; sector 0, the boot block, holds offsets -SECTSIZE..-1), or    *)
(* Zero (written by stosb), or Junk (never written).  Sizes are scaled     *)
(* down: SECTSIZE bytes per sector, PAGE bytes per page, HDRLEN bytes read *)
(* for the header (4096 in the code).                                      *)
(***************************************************************************)
EXTENDS Integers, Sequences, Ata

CONSTANTS
  SECTSIZE,     \* bytes per disk sector
  PAGE,         \* the segment alignment of the kernel's ELF file
  HDRLEN,       \* bytes read for the ELF header (4096 in the code)
  EHSIZE,       \* size of struct elfhdr; the program headers follow it
  PHSIZE,       \* size of struct proghdr
  SCRATCH,      \* address of the scratch space for the header (0x10000)
  LOADBASE,     \* lowest address a segment is linked at (0x100000)
  MEMTOP,       \* memory addresses are 0..MEMTOP-1
  MAXPH,        \* at most MAXPH program headers
  MAXSZ,        \* segments' file and memory sizes are at most MAXSZ
  FILELEN,      \* segments lie within the first FILELEN bytes of the file
  SharedPages,  \* whether two segments may share a page of memory
  Zero, Junk    \* model values: a byte stosb wrote, a byte never written

ASSUME /\ PAGE % SECTSIZE = 0 /\ HDRLEN % SECTSIZE = 0
       /\ EHSIZE + MAXPH * PHSIZE <= HDRLEN
       /\ SCRATCH + HDRLEN <= LOADBASE /\ LOADBASE % PAGE = 0

Addr == 0..MEMTOP-1

\* Bytes of the kernel file a readsect can copy.
FileBytes == 0..FILELEN + PAGE

(***************************************************************************)
(* struct proghdr (elf.h) reduced to the fields bootmain reads: off,       *)
(* paddr, filesz, memsz.  bootmain ignores type and flags.  An ELF file    *)
(* maps file offset off to address paddr with paddr = off (mod align), and *)
(* the linker lays segments out at increasing, disjoint addresses above    *)
(* LOADBASE.  Unless SharedPages, different segments also lie on           *)
(* different pages, as when each section is page aligned.                  *)
(***************************************************************************)
Segs == {s \in [off : EHSIZE..FILELEN-1, paddr : LOADBASE..MEMTOP-1,
                filesz : 0..MAXSZ, memsz : 0..MAXSZ] :
           /\ s.filesz <= s.memsz
           /\ s.paddr % PAGE = s.off % PAGE
           /\ s.off + s.filesz <= FILELEN
           /\ s.paddr + s.memsz + SECTSIZE <= MEMTOP}

PageOf(a) == a \div PAGE

Laid(s, t) ==
  /\ s.paddr + s.memsz <= t.paddr
  /\ ~SharedPages =>
       PageOf(IF s.memsz = 0 THEN s.paddr ELSE s.paddr + s.memsz - 1)
         < PageOf(t.paddr)

\* struct elfhdr (elf.h) reduced to whether magic = ELF_MAGIC and the
\* program header table (phoff = EHSIZE, phnum = Len(ph)).
Images == {im \in [magic : BOOLEAN,
                   ph : UNION {[1..n -> Segs] : n \in 1..MAXPH}] :
             \A k \in 1..Len(im.ph) - 1 : Laid(im.ph[k], im.ph[k+1])}

VARIABLES
  img,     \* the kernel's ELF file on disk
  mem,     \* physical memory
  pc,      \* bootmain's control point
  i,       \* index of the program header being loaded (ph - first)
  rpa,     \* readseg's pa
  repa,    \* readseg's epa
  roff,    \* readseg's offset, in sectors once translated
  rret     \* where readseg returns to

vars == <<img, mem, pc, i, rpa, repa, roff, rret>>

Init ==
  /\ img \in Images
  /\ mem = [a \in Addr |-> Junk]
  /\ pc = "start"
  /\ i = 0
  /\ rpa = 0 /\ repa = 0 /\ roff = 0 /\ rret = "start"

\* insl(0x1F0, dst, SECTSIZE/4): copy sector sect of the disk to dst.
Insl(m, dst, sect) ==
  [a \in Addr |-> IF a \in dst..dst + SECTSIZE - 1
                  THEN (sect - 1) * SECTSIZE + (a - dst) ELSE m[a]]

\* stosb(addr, 0, cnt): zero cnt bytes from addr.
Stosb0(m, addr, cnt) ==
  [a \in Addr |-> IF a \in addr..addr + cnt - 1 THEN Zero ELSE m[a]]

\* readseg's translation of a byte offset to a sector: the kernel file
\* starts at sector 1.
Translate(offset, sectsize) == offset \div sectsize + 1

\* Mutants: translating without skipping the boot block, and reading
\* from pa without rounding it down to the sector boundary.
ReadsegCallFromSector0(pa, count, offset, back) ==
  /\ repa' = pa + count
  /\ rpa' = pa - (offset % SECTSIZE)
  /\ roff' = offset \div SECTSIZE
  /\ rret' = back
  /\ pc' = "readseg"

ReadsegCallNoRoundDown(pa, count, offset, back) ==
  /\ repa' = pa + count
  /\ rpa' = pa
  /\ roff' = offset \div SECTSIZE + 1
  /\ rret' = back
  /\ pc' = "readseg"

\* readseg(pa, count, offset): set up the loop over whole sectors.
ReadsegCall(pa, count, offset, back) ==
  /\ repa' = pa + count
  /\ rpa' = pa - (offset % SECTSIZE)
  /\ roff' = Translate(offset, SECTSIZE)
  /\ rret' = back
  /\ pc' = "readseg"

\* Mutant: only sizeof(struct elfhdr) is read, not the first page.
StartHeaderOnly ==
  /\ pc = "start"
  /\ ReadsegCall(SCRATCH, EHSIZE, 0, "check")
  /\ UNCHANGED <<img, mem, i>>

\* bootmain: read the first page off disk.
Start ==
  /\ pc = "start"
  /\ ReadsegCall(SCRATCH, HDRLEN, 0, "check")
  /\ UNCHANGED <<img, mem, i>>

\* x | 0xE0: bits 5-7 set, the other bits as in x.
OrE0(x) == (x - (x % 256)) + 224 + (x % 32)

\* Mutant: bits 16-23 of the sector go out as bits 8-15 again.
ReadsectRegsShift8(offset) ==
  [r3 |-> Outb(offset), r4 |-> Outb(offset \div 2^8),
   r5 |-> Outb(offset \div 2^8), r6 |-> Outb(OrE0(offset \div 2^24))]

\* readsect's outb's of the sector: offset, offset >> 8, offset >> 16
\* and (offset >> 24) | 0xE0, each truncated to a byte by outb.  Bits
\* 28-31 of the sector are not masked off.
ReadsectRegs(offset) ==
  [r3 |-> Outb(offset), r4 |-> Outb(offset \div 2^8),
   r5 |-> Outb(offset \div 2^16), r6 |-> Outb(OrE0(offset \div 2^24))]

\* One iteration of readseg's loop: readsect(pa, offset), waiting for
\* the disk before the command and before the data.  The drive reads the
\* sector it decodes from the task file (drive 0, where the kernel is:
\* ReadsectAddressesKernel below).
Readsect ==
  /\ pc = "readseg" /\ rpa < repa
  /\ mem' = Insl(mem, rpa, AtaLba(ReadsectRegs(roff)))
  /\ rpa' = rpa + SECTSIZE
  /\ roff' = roff + 1
  /\ UNCHANGED <<img, pc, i, repa, rret>>

ReadsegDone ==
  /\ pc = "readseg" /\ rpa >= repa
  /\ pc' = rret
  /\ UNCHANGED <<img, mem, i, rpa, repa, roff, rret>>

\* elf->magic is read from scratch memory.
MagicOK == img.magic /\ mem[SCRATCH] = 0

\* Program header k (1-based) lies at file offset EHSIZE + (k-1)*PHSIZE
\* (phoff follows the ELF header); bootmain reads it from scratch memory.
PhIntact(k) ==
  \A b \in 0..PHSIZE - 1 :
    LET o == EHSIZE + (k - 1) * PHSIZE + b IN mem[SCRATCH + o] = o

\* The header ph points at: the image's if scratch memory still holds it,
\* otherwise whatever the overwritten bytes denote.
PhAt(k) == IF PhIntact(k) THEN img.ph[k] ELSE CHOOSE s \in Segs : TRUE

\* Not an ELF file: return to bootasm.S.
BadMagic ==
  /\ pc = "check" /\ ~MagicOK
  /\ pc' = "returned"
  /\ UNCHANGED <<img, mem, i, rpa, repa, roff, rret>>

GoodMagic ==
  /\ pc = "check" /\ MagicOK
  /\ pc' = "loop" /\ i' = 0
  /\ UNCHANGED <<img, mem, rpa, repa, roff, rret>>

\* for(; ph < eph; ph++): readseg(ph->paddr, ph->filesz, ph->off).
LoadSeg ==
  /\ pc = "loop" /\ i < Len(img.ph)
  /\ LET ph == PhAt(i + 1) IN
       ReadsegCall(ph.paddr, ph.filesz, ph.off, "zero")
  /\ UNCHANGED <<img, mem, i>>

\* if(ph->memsz > ph->filesz) stosb(pa + filesz, 0, memsz - filesz).
ZeroFill ==
  /\ pc = "zero"
  /\ LET ph == PhAt(i + 1) IN
       mem' = IF ph.memsz > ph.filesz
              THEN Stosb0(mem, ph.paddr + ph.filesz, ph.memsz - ph.filesz)
              ELSE mem
  /\ i' = i + 1 /\ pc' = "loop"
  /\ UNCHANGED <<img, rpa, repa, roff, rret>>

\* Call the entry point; it does not return.
Enter ==
  /\ pc = "loop" /\ i = Len(img.ph)
  /\ pc' = "entered"
  /\ UNCHANGED <<img, mem, i, rpa, repa, roff, rret>>

Next ==
  \/ Start \/ Readsect \/ ReadsegDone \/ BadMagic \/ GoodMagic
  \/ LoadSeg \/ ZeroFill \/ Enter

\* bootmain runs alone on the boot processor.
Spec == Init /\ [][Next]_vars

-----------------------------------------------------------------------------
(* Properties *)

TypeOK ==
  /\ img \in Images
  /\ mem \in [Addr -> FileBytes \cup {Zero, Junk}]
  /\ pc \in {"start", "readseg", "check", "loop", "zero", "entered",
             "returned"}
  /\ i \in 0..Len(img.ph)
  /\ rret \in {"start", "check", "zero"}

\* Segment k is in memory as the ELF file says: its first filesz bytes are
\* the file's bytes from off, the rest up to memsz are zero.
Loaded(k) ==
  LET ph == img.ph[k] IN
  \A a \in ph.paddr..ph.paddr + ph.memsz - 1 :
    mem[a] = IF a < ph.paddr + ph.filesz THEN ph.off + (a - ph.paddr)
             ELSE Zero

\* Every segment bootmain has finished stays loaded while the later ones
\* are read, so the kernel is entered with all of them in place: readseg
\* writes more than asked, and the code's comment says this does not
\* matter because segments are loaded in increasing order.
SegmentsLoaded ==
  pc \in {"loop", "entered"} => \A k \in 1..i : Loaded(k)

\* Every program header the loop reads -- before readseg and again, for
\* the zero fill, after it -- is still the file's: the first page read
\* holds the whole table, and no segment load has overwritten it.
HeaderIntact ==
  pc \in {"loop", "zero"} /\ i < Len(img.ph) => PhIntact(i + 1)

\* Byte offsets at every bit boundary TLC's integers reach (below 2^31).
OffsetEdges ==
  {0, 511, 512, 2^30 + (2^30 - 1)} \cup {2^k - 1 : k \in 10..30}
                                   \cup {2^k : k \in 10..30}

\* The sectors readseg computes from them; the sector of the largest uint
\* offset, 2^32 - 1 = 2^23 * 512 - 1, which is 2^23; and the sectors the
\* loop's offset++ reaches after it, for a count of up to 2^32 bytes
\* (2^23 more sectors): 2^24, and the largest with bit 24 set.
SectorEdges ==
  {Translate(off, 512) : off \in OffsetEdges} \cup {2^23, 2^24, 2^25 - 1}

\* The drive reads sector s of drive 0 in LBA mode when readsect is
\* called with s.
AddressesSector(s) ==
  LET tf == ReadsectRegs(s) IN
    AtaLbaMode(tf) /\ AtaDrive(tf) = 0 /\ AtaLba(tf) = s

\* Each readsect call reads the sector readseg asked for, from drive 0:
\* the one the model makes, and, at the code's widths, the one for any
\* 32-bit offset readseg may be given (ph->off is a uint) with 512-byte
\* sectors.  readsect does not mask (offset >> 24) to 4 bits, so a
\* sector of 2^28 or more would set the DRV bit and read the other
\* drive; this holds because a 32-bit offset and count keep the sector
\* below 2^25.
ReadsectAddressesKernel ==
  pc = "readseg" /\ rpa < repa =>
    AddressesSector(roff) /\ \A s \in SectorEdges : AddressesSector(s)
====
