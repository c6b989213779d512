-------------------------- MODULE MCEnhancerBinding --------------------------
(* EnhancerBinding with three objects, so that one can be closed, one open    *)
(* and one under construction; two libraries.                                 *)
EXTENDS EnhancerBinding
=============================================================================
