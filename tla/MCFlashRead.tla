----------------------------- MODULE MCFlashRead -----------------------------
(***************************************************************************)
(* FlashRead on a configuration of a header and three windows, the last    *)
(* one short, and a region of two; a window is longer than the sequence's  *)
(* range, so that losing as many chunks as it has values shows nowhere but *)
(* in the count, and than the host's queue.  In MCFlashReadStale.cfg, which *)
(* is about the order of what is filed, a window is one chunk.             *)
(***************************************************************************)
EXTENDS FlashRead

MCContent == [p \in Places |-> {p}]
=============================================================================
