------------------------------ MODULE MCAuthz ------------------------------
EXTENDS AuthzLease, TLC

CONSTANTS r1, r2, r3, p1, p2, u1, u2

MCOwner == (p1 :> u1) @@ (p2 :> u2)
MCOwner1 == (p1 :> u1)

(* The requests on a configured replica are interchangeable, and so are    *)
(* the PATs together with their owners.                                    *)
Swapped == (p1 :> p2) @@ (p2 :> p1) @@ (u1 :> u2) @@ (u2 :> u1)
Kept == [v \in {p1, p2, u1, u2} |-> v]
Symmetry == {f @@ g : f \in Permutations({r1, r2}), g \in {Kept, Swapped}}
=============================================================================
