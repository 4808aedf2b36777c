---------------------------- MODULE MCConfigWrite ----------------------------
(***************************************************************************)
(* ConfigWrite on a chip of five blocks.  The region is blocks 1 to 3; the *)
(* configuration ends in block 3 with its checksum, and its head in block  *)
(* 1 holds the time stamp, an edited cell and one the edit leaves erased.  *)
(***************************************************************************)
EXTENDS ConfigWrite

MCContainer == ({1, 2} \X (1..3)) \cup {<<3, 1>>}
MCStamps    == {<<1, 1>>, <<3, 1>>}
MCEdits     == {<<1, 2>>, <<1, 3>>}
MCBlank     == {<<1, 3>>}
=============================================================================
