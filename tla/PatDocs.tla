------------------------------ MODULE PatDocs ------------------------------
(* What the documentation says of PAT management and the code does not do. *)
EXTENDS MCPatService

(* README.md:186: CreatePAT generates a PAT; e2e/test-pat/README.md:69-76: *)
(* ListPATs then finds one.  When the reply to an attempt is lost the HTTP *)
(* client posts again, and the first PAT stays, its token seen by nobody.  *)
OnePatPerCreate ==
  \A c \in Calls : Succeeded(c, "create") => Cardinality(minted[c]) = 1
=============================================================================
