----------------------------- MODULE TouchRequest -----------------------------
(***************************************************************************)
(* What a session on a Touch's request channel promises of one request,    *)
(* with no cable, packets or listener in it: the remote acts on it at most *)
(* once, a request that is answered was acted on, and every request is     *)
(* answered or thrown.                                                     *)
(***************************************************************************)
EXTENDS Naturals

CONSTANTS
  Requests,
  NoRequest

VARIABLES
  asked,   \* the request that runs, NoRequest for none
  ran,     \* how often the remote acted on it
  result   \* what came of the last one: "none", "answered" or "threw"

Init == asked = NoRequest /\ ran = 0 /\ result = "none"

Ask ==
  /\ asked = NoRequest
  /\ asked' \in Requests /\ ran' = 0 /\ result' = "none"

Act ==
  /\ asked # NoRequest /\ ran = 0
  /\ ran' = 1 /\ UNCHANGED <<asked, result>>

Return ==
  /\ asked # NoRequest /\ ran = 1
  /\ asked' = NoRequest /\ ran' = 0 /\ result' = "answered"

Throw ==
  /\ asked # NoRequest
  /\ asked' = NoRequest /\ ran' = 0 /\ result' = "threw"

Next == Ask \/ Act \/ Return \/ Throw

Safety == Init /\ [][Next]_<<asked, ran, result>>

Spec == Safety /\ WF_<<asked, ran, result>>(Return \/ Throw)
=============================================================================
