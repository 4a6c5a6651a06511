---------------------------- MODULE AuthzLease -----------------------------
(***************************************************************************)
(* Authz implements Lease.  Cache, calls and budgets are hidden; what is   *)
(* left of a request is whether it was answered, what, and for whom.       *)
(***************************************************************************)
EXTENDS Authz

(* What a client sees of the request in slot r.                            *)
Seen(r) ==
  [state |-> IF req[r].pc = "idle" THEN "free"
             ELSE IF Active(r) THEN "asking"
             ELSE IF Allowed(r) THEN "granted" ELSE "refused",
   pat |-> req[r].pat,
   user |-> IF Allowed(r) THEN req[r].user ELSE NoUser,
   waits |-> ~ req[r].gone]

Served == [r \in Requests |-> Seen(r)]

Promise ==
  INSTANCE Lease WITH
    served <- Served,
    lapse <- deadFor,
    failing <- Failing("zitadel"),
    Grace <- GrantLimit,
    Window <- CallBudget + CacheTTL

(* Every behaviour of the authorization path, with its cache, its races    *)
(* and its failures, is one the promise allows: a PAT outlives its         *)
(* revocation by less than two operations and a TTL, a valid PAT is        *)
(* refused only for an outage, and nobody is served in another's name.     *)
ImplementsLease == Promise!Spec
=============================================================================
