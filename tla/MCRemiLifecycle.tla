--------------------------- MODULE MCRemiLifecycle ---------------------------
(***************************************************************************)
(* A small instance of RemiLifecycle: p3 is a component of Bedrock, a1     *)
(* comes with a free function; nothing tells the others of a kind apart.   *)
(***************************************************************************)
EXTENDS RemiLifecycleInvariant, TLC

CONSTANTS p1, p2, p3, h1, h2, a1, a2, A, B

MCSymmetry ==
  Permutations({p1, p2}) \cup Permutations({h1, h2}) \cup Permutations({A, B})
=============================================================================
