--------------------------- MODULE MCEnrollmentRepair ---------------------------
(* Instances of EnrollmentRepair for TLC. *)
EXTENDS EnrollmentRepair
CONSTANTS m1, m2
=============================================================================
