------------------------------ MODULE MCVolume ------------------------------
(* Volume.tla with values for TLC, given in MCVolume.cfg: a block table of  *)
(* one sector with four entries, so that it can be full when the disk is    *)
(* formatted again, a file table of two sectors with two entries each, and  *)
(* two sectors behind it.  A format may also be of a disk too small for the *)
(* tables.                                                                  *)
EXTENDS Volume

CONSTANTS v, w

MCLabel   == <<v>>
MCRelabel == <<w, w>>
=============================================================================
