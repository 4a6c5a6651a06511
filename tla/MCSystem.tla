------------------------------ MODULE MCSystem ------------------------------
EXTENDS System, TLC

CONSTANTS p1, p2, h1, h2

MCOwner2 == (p1 :> h1) @@ (p2 :> h2)
=============================================================================
