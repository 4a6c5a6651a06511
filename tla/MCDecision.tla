----------------------------- MODULE MCDecision -----------------------------
EXTENDS Decision, TLC

(* Six names; "x-user" and "X-User" are the same header.                   *)
MCKeys == {"", "X-User", "x-user", "X-Email", "X-Groups", "X-Name", "X-JWT"}
MCCanonical == [k \in MCKeys |-> IF k = "x-user" THEN "X-User" ELSE k]

Default ==
  [user_id |-> "X-User", user_email |-> "X-Email", user_groups |-> "X-Groups",
   user_preferred_username |-> "X-Name", user_jwt |-> "X-JWT"]

(* As it should be; one name left out; two fields under one name; two      *)
(* names that differ in case; nothing configured.                          *)
MCHeaderKeys ==
  {Default,
   [Default EXCEPT !.user_groups = ""],
   [Default EXCEPT !.user_preferred_username = "X-User"],
   [Default EXCEPT !.user_email = "x-user"],
   [f \in Fields |-> ""]}

MCTexts == {"a"}
=============================================================================
