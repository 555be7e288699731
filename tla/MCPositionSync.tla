--------------------------- MODULE MCPositionSync ---------------------------
(* Two assets; the holding of one of them may also change its size.        *)
EXTENDS PositionSync, TLC

CONSTANTS a1, a2

TwoAssets == {a1, a2}
TwoSizes == a1 :> {1, 2} @@ a2 :> {1}
=============================================================================
