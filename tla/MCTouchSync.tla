----------------------------- MODULE MCTouchSync -----------------------------
(***************************************************************************)
(* TouchSync on two core documents, a favourites document and a picture.   *)
(* An owner's change is readable or one the engine's reader raises on; a   *)
(* set is of ours or a recorded one, so its tags may be the remote's own.  *)
(***************************************************************************)
EXTENDS TouchSync, TLC

CONSTANTS c1, c2, f1, p1, account, own, bad, ours

MCCore      == {c1, c2}
MCFavs      == {f1}
MCPictures  == {p1}
MCBodies    == {account, own, bad, ours}
MCOwn       == {own, bad}
MCRaising   == {bad}
MCSetBodies == {ours, account}
MCDomains   == {MCCore, MCCore \cup MCFavs, MCCore \cup MCFavs \cup MCPictures, MCFavs}

MCOneCore    == {c1}
MCNone       == {}
MCFewDomains == {MCOneCore}

MCSymmetry  == Permutations(MCCore)
=============================================================================
