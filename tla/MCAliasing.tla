---------------------------- MODULE MCAliasing ----------------------------
(* The instance of Aliasing TLC checks.                                   *)
EXTENDS Aliasing
=============================================================================
