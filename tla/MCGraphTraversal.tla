------------------------- MODULE MCGraphTraversal -------------------------
(***************************************************************************)
(* The walk over every acyclic graph of a few services, in both            *)
(* directions, with --parallel set below the number of services.           *)
(***************************************************************************)
EXTENDS GraphTraversal

MCSpec == Spec /\ Fairness
=============================================================================
