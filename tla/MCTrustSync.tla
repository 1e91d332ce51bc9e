---------------------------- MODULE MCTrustSync ----------------------------
(***************************************************************************)
(* Instances of TrustSync for TLC.                                         *)
(***************************************************************************)
EXTENDS TrustSync, TLC

CONSTANTS r1, r2, n1, cr1, cr2, cn1

\* Two devices with the root key and one without.
TwoRootsCertOf == (r1 :> cr1) @@ (r2 :> cr2) @@ (n1 :> cn1)

\* One device with the root key and one without.
OneRootCertOf == (r1 :> cr1) @@ (n1 :> cn1)
=============================================================================
