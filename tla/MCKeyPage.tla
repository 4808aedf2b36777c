------------------------------- MODULE MCKeyPage -------------------------------
(***************************************************************************)
(* KeyPage with two remotes and a face of two keys.                        *)
(***************************************************************************)
EXTENDS KeyPage

CONSTANTS k1, k2, h880, h885

MCFace == <<k1, k2>>
=============================================================================
