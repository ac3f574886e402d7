---------------------------- MODULE MCCertRenewal ----------------------------
(* Instances of CertRenewal: which listener the handshakes belong to.        *)
EXTENDS CertRenewal, TLC

CONSTANTS s1, s2

BothOnH1 == (s1 :> "h1") @@ (s2 :> "h1")
OneOnH1  == s1 :> "h1"
=============================================================================
