------------------------------ MODULE MCPreview ------------------------------
(* TLC instances of Preview: two registrations for different projects. *)
EXTENDS Preview

CONSTANTS r1, r2, a, b

TwoProjects == [r \in Reg |-> IF r = r1 THEN a ELSE b]
=============================================================================
