------------------------------- MODULE MCKeyLink -------------------------------
(***************************************************************************)
(* KeyLink with a remote the page reads and one it does not.               *)
(***************************************************************************)
EXTENDS KeyLink

CONSTANTS h885, h785
=============================================================================
