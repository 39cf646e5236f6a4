------------------------------ MODULE MCButtons ------------------------------
(***************************************************************************)
(* Buttons with two buttons and two profiles: the second has another key,  *)
(* and for the gesture an action whose constructor makes a request.        *)
(***************************************************************************)
EXTENDS Buttons, TLC

CONSTANTS k1, k2

MCCids == {1, 2}
MCFirst == 1 :> k1 @@ 2 :> Touch
MCSecond == 1 :> k2 @@ 2 :> Host
MCProfiles == {MCFirst, MCSecond}
=============================================================================
