------------------------------- MODULE KeyWatch -------------------------------
(***************************************************************************)
(* What the key reader's link and its press tracker promise the page: while*)
(* it watches a remote, a press made since is reported at most once, and   *)
(* the presses reported come in the order they were made.  Presses are     *)
(* numbered as they are made.                                              *)
(***************************************************************************)
EXTENDS Naturals, Sequences

VARIABLES
  made,      \* presses made so far
  watching,
  from,      \* presses made when the watch began
  reported   \* the presses reported in this watch
vars == <<made, watching, from, reported>>

Init == made = 0 /\ watching = FALSE /\ from = 0 /\ reported = <<>>

Latest == IF reported = <<>> THEN from ELSE reported[Len(reported)]

Press ==
  /\ made' = made + 1
  /\ UNCHANGED <<watching, from, reported>>

Begin ==
  /\ ~watching
  /\ watching' = TRUE /\ from' = made /\ reported' = <<>>
  /\ UNCHANGED made

\* A poll shows a press by the copy and another by the held byte at most.
Report ==
  /\ watching
  /\ \/ \E i \in Latest + 1..made : reported' = Append(reported, i)
     \/ \E i, j \in Latest + 1..made : i < j /\ reported' = reported \o <<i, j>>
  /\ UNCHANGED <<made, watching, from>>

End ==
  /\ watching
  /\ watching' = FALSE /\ from' = 0 /\ reported' = <<>>
  /\ UNCHANGED made

Next == Press \/ Begin \/ Report \/ End

Spec == Init /\ [][Next]_vars
=============================================================================
