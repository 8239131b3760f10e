------------------------- MODULE MCServerGameState -------------------------
(* Instances of ServerGameState for TLC; the .cfg files give the constants. *)
EXTENDS ServerGameState
=============================================================================
