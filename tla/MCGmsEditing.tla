---------------------------- MODULE MCGmsEditing ----------------------------
(* Instance of GmsEditing for TLC: two sessions of one editor. The first      *)
(* updates a road, the second deletes it and draws another in its place.      *)
EXTENDS GmsEditing, TLC

CONSTANTS s1, s2, editor, road, new

MCOwner == [s \in Sessions |-> editor]

Change(op, f) == [op |-> op, feature |-> f]

MCSketches ==
    [s \in Sessions |->
       IF s = s1 THEN {{}, {Change("update", road)}}
                 ELSE {{Change("delete", road), Change("create", NoFeature)}}]

\* Requests are interchangeable.
Symmetry == Permutations(Requests)
=============================================================================
