--------------------------- MODULE MCLoadBalancer ---------------------------
(* Instances of LoadBalancer: the calls.                                   *)
EXTENDS LoadBalancer

CONSTANTS c1, c2
=============================================================================
