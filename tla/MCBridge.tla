------------------------------ MODULE MCBridge ------------------------------
(***************************************************************************)
(* An instance of Bridge: a short topic with a malformed message inside,   *)
(* and behind its last row a message that is no JSON object.               *)
(***************************************************************************)
EXTENDS Bridge

MCFeature == <<"row", "malformed", "row", "row", "unreadable">>
=============================================================================
