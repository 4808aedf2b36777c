----------------------------- MODULE MCFileWrite -----------------------------
(***************************************************************************)
(* FileWrite on two configurations of four packets in chunks of three, so  *)
(* that there is a full chunk and a last one and the end marker is alone in*)
(* the last packet.                                                        *)
(***************************************************************************)
EXTENDS FileWrite

CONSTANTS a, b

MCConfigs == {a, b}
=============================================================================
