--------------------------- MODULE MCComputeBuild ---------------------------
(***************************************************************************)
(* Two ports and two keys, one after the other in the one slot of the      *)
(* table, or both for the same key: a build that is closed or sealed gives *)
(* way to the next generation while a thread may still be inside the old   *)
(* one.  One place in the queue, in the cache and for a lease makes every  *)
(* limit bite.                                                             *)
(***************************************************************************)
EXTENDS ComputeBuild
=============================================================================
