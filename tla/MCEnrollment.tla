---------------------------- MODULE MCEnrollment ----------------------------
(* The TLC instance of the agent enrollment: two enrollments, one of them    *)
(* perhaps after a new pairing, an install by hand and one failure.          *)
EXTENDS Enrollment
=============================================================================
