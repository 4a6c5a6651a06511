------------------------------- MODULE System -------------------------------
(***************************************************************************)
(* The two halves of the service together: PAT management (PatService) and *)
(* authorization (Authz).  They share no memory.  What joins them is       *)
(* ZITADEL: a PAT that CreatePAT mints is one that Check accepts, and one  *)
(* that DeletePAT removes is one that Check has yet to forget, because     *)
(* nothing tells the cache.                                                *)
(*                                                                         *)
(* Every step is a step of one component; live belongs to both, so minting *)
(* and removing a PAT are steps of both.  Authz takes the owner of a PAT   *)
(* as given: here it is whom the PAT is, or will be, minted for.           *)
(***************************************************************************)
EXTENDS Naturals, FiniteSets

CONSTANTS Requests, Configured, Pats, Owner, NoHeader, Blank,
          CacheTTL, CallBudget, Horizon,
          Calls, Humans, Taken, NoHuman, NoPat, Retry, Limit,
          Presented,   \* bound: the headers clients send with a request
          Operations,  \* bound: the PAT operations that are called
          Callers      \* bound: the users they are called for

ASSUME AuthzAssumption ==
  /\ Configured \subseteq Requests
  /\ Owner \in [Pats -> Humans] /\ NoHuman \notin Humans
  /\ NoHeader \notin Pats /\ Blank \notin Pats /\ NoHeader # Blank
  /\ CacheTTL \in Nat /\ CallBudget \in Nat /\ Horizon \in Nat
  /\ 2 * CallBudget + CacheTTL <= Horizon

ASSUME PatsAssumption ==
  /\ IsFiniteSet(Pats) /\ NoPat \notin Pats
  /\ Taken \subseteq Humans /\ NoHuman \notin Humans
  /\ Retry \in Nat /\ Limit \in Nat

ASSUME BoundsAssumption ==
  /\ Presented \subseteq Pats \cup {NoHeader, Blank}
  /\ Operations \subseteq {"create", "list", "delete"}
  /\ Callers \subseteq Humans \cup {NoHuman}

VARIABLES live,                               \* shared
          req, redis, deadFor, down, calm,    \* of Authz
          rpc, flight, machines, owner, minted  \* of PatService

authz == <<req, redis, deadFor, down, calm>>
pats == <<rpc, flight, machines, owner, minted>>
vars == <<live, authz, pats>>

A == INSTANCE Authz WITH Users <- Humans, NoUser <- NoHuman
P == INSTANCE PatService

(* A PAT some client holds: one from before, or one CreatePAT answered.    *)
(* PATs minted by an attempt whose reply was lost, or held no PAT, are     *)
(* held by nobody.                                                         *)
Held(p) ==
  /\ owner[p] # NoHuman
  /\ \A c \in Calls : p \in minted[c] => p \in rpc[c].answer

Init ==
  /\ P!Init
  /\ A!Init
  /\ \A p \in Pats : owner[p] \in {Owner[p], NoHuman}

-----------------------------------------------------------------------------

(* A request presents a PAT its client holds, or none.                     *)
Check(r) ==
  /\ \E h \in Presented :
       /\ h \in Pats => Held(h)
       /\ A!Check(r, h)
  /\ UNCHANGED pats

Authorize(r) ==
  /\ A!Step(r) \/ A!Disconnect(r) \/ A!Crash(r)
  /\ UNCHANGED pats

(* PATs expire, services fail and recover, time passes.                    *)
Around ==
  /\ \/ \E p \in Pats : A!Revoke(p)
     \/ \E s \in A!Services : A!Fail(s) \/ A!Recover(s)
     \/ A!Tick
  /\ UNCHANGED pats

Manage(c) ==
  /\ \/ \E op \in Operations, u \in Callers, p \in Pats \cup {NoPat} :
          P!Begin(c, op, u, p)
     \/ P!Step(c) \/ P!Disconnect(c) \/ P!Crash(c)
  /\ UNCHANGED authz

(* ZITADEL executes a message.  A PAT it mints starts to live; one it      *)
(* removes dies now.                                                       *)
AddToken(m) ==
  /\ P!AddToken(m)
  /\ \A p \in live' \ live : owner'[p] = Owner[p]
  /\ deadFor' = [p \in Pats |-> IF p \in live' \ live THEN 0 ELSE deadFor[p]]
  /\ UNCHANGED <<req, redis, down, calm>>

Execute(m) ==
  \/ AddToken(m)
  \/ /\ P!CreateUser(m) \/ P!RemoveToken(m) \/ P!Refuse(m)
     /\ UNCHANGED authz

Next ==
  \/ \E r \in Requests : Check(r) \/ Authorize(r)
  \/ Around
  \/ \E c \in Calls : Manage(c)
  \/ \E m \in flight : Execute(m)

Spec == Init /\ [][Next]_vars

-----------------------------------------------------------------------------
(* Properties.                                                             *)

TypeOK == A!TypeOK /\ P!TypeOK

(* A request is served as the human whose CreatePAT call minted the PAT it *)
(* presents: the name goes from the header of that call through the search *)
(* for a machine user, the PAT, the userinfo call, the exchange and the    *)
(* cache back to a header.                                                 *)
ServedAsCreator ==
  \A r \in Requests, c \in Calls :
    A!Allowed(r) /\ req[r].pat \in minted[c] => req[r].user = rpc[c].user

Reported(p) == \E c \in Calls : P!Succeeded(c, "delete") /\ rpc[c].pat = p

(* Once DeletePAT has reported a PAT as deleted the PAT is dead, and a     *)
(* request with it is allowed only within GrantLimit of its death, which   *)
(* came before the report.                                                 *)
DeletedStops ==
  [][\A r \in Requests :
       A!Answers(r) /\ A!Allowed(r)' /\ Reported(req'[r].pat) =>
         /\ req'[r].pat \notin live
         /\ deadFor[req'[r].pat] < A!GrantLimit]_vars

(* A PAT works from the moment CreatePAT answers: a configured replica     *)
(* does not refuse it to a client that waits, whatever happened to other   *)
(* PATs, unless ZITADEL fails or has just failed.                          *)
CreatedWorks ==
  [][\A r \in Configured, c \in Calls :
       /\ A!Answers(r) /\ A!Refused(r)'
       /\ ~ req'[r].gone
       /\ P!Succeeded(c, "create")
       /\ req'[r].pat \in rpc[c].answer
       /\ req'[r].pat \in live
       => calm < CallBudget + CacheTTL]_vars
=============================================================================
