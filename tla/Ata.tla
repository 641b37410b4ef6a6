-------------------------------- MODULE Ata --------------------------------
(***************************************************************************)
(* The ATA task-file registers through which both the IDE driver          *)
(* (idestart in ide.c) and the boot loader (readsect in bootmain.c) name   *)
(* the sector they want, and how the drive reads them back.  The code      *)
(* writes them one byte each with outb:                                    *)
(*   0x1f3  LBA bits 0-7        0x1f5  LBA bits 16-23                      *)
(*   0x1f4  LBA bits 8-15       0x1f6  1 L 1 DRV LBA bits 24-27            *)
(* In the device register 0x1f6, bit 6 (L) selects LBA addressing and bit  *)
(* 4 (DRV) selects drive 0 or drive 1.  The drive side is hardware, not    *)
(* code of this repository.                                                *)
(***************************************************************************)
EXTENDS Naturals

\* outb(port, data) of x86.h (elf.h): data is a uchar, so only the low
\* byte of the value the caller passes reaches the port.
Outb(v) == v % 256

\* The four register bytes, as a record indexed by port.
TaskFiles == [r3 : 0..255, r4 : 0..255, r5 : 0..255, r6 : 0..255]

\* The drive a command goes to: the DRV bit of the device register.
AtaDrive(tf) == (tf.r6 \div 2^4) % 2

\* Whether the command addresses the sector by LBA (bit 6 set).
AtaLbaMode(tf) == (tf.r6 \div 2^6) % 2 = 1

\* The 28-bit sector number the drive assembles from the registers.
AtaLba(tf) ==
  tf.r3 + tf.r4 * 2^8 + tf.r5 * 2^16 + (tf.r6 % 2^4) * 2^24

\* LBA28 names the sectors 0..LbaLimit - 1.
LbaLimit == 2^28
====
