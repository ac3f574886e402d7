---------------------------- MODULE MCRequestBody ----------------------------
(* Instances of RequestBody.                                               *)
EXTENDS RequestBody

CONSTANTS r1, r2
=============================================================================
