------------------------------- MODULE TreeIds -------------------------------
(***************************************************************************)
(* The ids of people and families, shared by the rows of the tree and by   *)
(* the graph that is read from them.                                       *)
(***************************************************************************)
CONSTANTS
    None,               \* no id, no row
    People, Families
=============================================================================
