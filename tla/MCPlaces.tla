------------------------------ MODULE MCPlaces ------------------------------
(***************************************************************************)
(* A village in a province in a country, and two ids for new places.       *)
(***************************************************************************)
EXTENDS Places, TLC

CONSTANTS village, province, country, new1, new2, e1, e2

SmallHierarchy == village :> province @@ province :> country @@ country :> None
                  @@ new1 :> Gone @@ new2 :> Gone
SmallEvents    == e1 :> village @@ e2 :> None
=============================================================================
