---------------------------- MODULE MCSampleBank ----------------------------
(* Two requests on one server, which share flights, and one on another. *)
EXTENDS SampleBank, TLC

CONSTANTS sv1, sv2, r1, r2, r3, k1

MCServerOf == (r1 :> sv1) @@ (r2 :> sv1) @@ (r3 :> sv2)
MCTaskOf == [r \in {r1, r2, r3} |-> k1]
=============================================================================
