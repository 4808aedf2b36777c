--------------------------- MODULE MCTouchChannel ---------------------------
(***************************************************************************)
(* TouchChannel on a read that is a bare name, a request list read of two  *)
(* packets, a sync whose template numbers its opens one later, and a write *)
(* of answers of two chunks whose last one is a single packet.             *)
(***************************************************************************)
EXTENDS TouchChannel, TLC

CONSTANTS provisioning, list, sync, write

MCRequests  == {provisioning, list, sync, write}
MCAnswering == {write}
MCEnding    == {provisioning}
MCShifted   == {sync}
MCPackets   == provisioning :> 1 @@ list :> 2 @@ sync :> 2 @@ write :> 3
MCAnswers   == provisioning :> 1 @@ list :> 2 @@ sync :> 0 @@ write :> 1
=============================================================================
