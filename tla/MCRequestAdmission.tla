------------------------- MODULE MCRequestAdmission -------------------------
(***************************************************************************)
(* Instances of RequestAdmission for TLC.                                  *)
(***************************************************************************)
EXTENDS AdmissionProperties
=============================================================================
