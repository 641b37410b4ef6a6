---------------------------- MODULE MC_Bootmain ----------------------------
(***************************************************************************)
(* Bootmain at a scale where 2-byte sectors and 4-byte pages let a segment *)
(* start mid-sector and mid-page, end mid-sector, and share a sector or a  *)
(* page with its neighbour: the header is two sectors (addresses 0..3),   *)
(* segments are linked at 4..15 from file offsets 2..11, up to 3 bytes in *)
(* the file and in memory, and there are up to two of them.               *)
(***************************************************************************)
EXTENDS Bootmain
====
