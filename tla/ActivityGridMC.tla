--------------------------- MODULE ActivityGridMC ---------------------------
(* A small instance of ActivityGrid for TLC: two tiles, cameras of two     *)
(* NVRs, a layout and its mirror image.                                    *)
EXTENDS ActivityGridProps

MCHostOf  == [r \in Rows |-> IF r = 3 THEN 2 ELSE 1]
MCLayouts == {<<1, 2>>, <<2, 3>>}
=============================================================================
