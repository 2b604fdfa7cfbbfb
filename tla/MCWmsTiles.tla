----------------------------- MODULE MCWmsTiles -----------------------------
(* Instance of WmsTiles for TLC: two tiles of one layer that do not fit into   *)
(* the cache together, one published under the layer's short name and one      *)
(* under a name of the project's own.                                          *)
EXTENDS WmsTiles

CONSTANTS zoneTile, farTile, vungu_zones, zones, gweru_zones

MCShort == [l \in {vungu_zones} |-> zones]
MCDraws == [t \in {zoneTile, farTile} |-> vungu_zones]
MCName == [t \in {zoneTile, farTile} |-> IF t = zoneTile THEN zones ELSE gweru_zones]
MCBytes == [t \in {zoneTile, farTile} |-> IF t = zoneTile THEN 2 ELSE 3]
=============================================================================
