--------------------------- MODULE MCFirmwareStage ---------------------------
(***************************************************************************)
(* FirmwareStage on three images of one, two and three pieces, the last    *)
(* beyond the copy limit, and a region of two blocks; one of the two that  *)
(* fit is no build whose status byte is known.  A remote comes blank, with *)
(* a whole staged image or a damaged one, and with either application or a *)
(* page of one missing.                                                    *)
(***************************************************************************)
EXTENDS FirmwareStage, TLC

CONSTANTS short, whole, long

MCImages == {short, whole, long}
MCSize   == short :> 1 @@ whole :> 2 @@ long :> 3
MCRead   == {whole}

MCRegions == {Blank, Staged(short), Staged(whole), [Staged(whole) EXCEPT ![2] = Wrong]}
MCApps    == {[i \in Application |-> whole], [i \in Application |-> IF i = 1 THEN short ELSE Erased],
              [i \in Application |-> IF i = 1 THEN whole ELSE Erased]}
=============================================================================
