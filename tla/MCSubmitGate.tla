---------------------------- MODULE MCSubmitGate ----------------------------
(* Two requests of one student, who may reach the limit, and one of another. *)
EXTENDS SubmitGate, TLC

CONSTANTS st1, st2, r1, r2, r3

MCStudentOf == (r1 :> st1) @@ (r2 :> st1) @@ (r3 :> st2)
=============================================================================
