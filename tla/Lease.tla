------------------------------- MODULE Lease -------------------------------
(***************************************************************************)
(* What the authorizer promises, without a cache, remote operations or     *)
(* Redis.  A PAT is a lease: the service grants requests that present it   *)
(* while ZITADEL accepts it and for less than Grace ticks afterwards, and  *)
(* always in the name of the user it stands for.  It refuses a valid PAT   *)
(* only for an outage of ZITADEL, under way or over for less than Window,  *)
(* to a client that has left or waited for too long, or where it has no    *)
(* admin PAT.                                                              *)
(*                                                                         *)
(* Authz implements this: see AuthzLease.                                  *)
(***************************************************************************)
EXTENDS Naturals

CONSTANTS Requests, Configured, Pats, Users, Owner, NoUser, NoHeader, Blank,
          Grace, Window, Horizon

VARIABLES
  served,   \* served[r]: the request in slot r and what it was told
  live,     \* the PATs ZITADEL accepts
  lapse,    \* lapse[p]: time since PAT p ceased to be accepted
  failing,  \* ZITADEL is failing
  calm      \* time since ZITADEL last failed

vars == <<served, live, lapse, failing, calm>>

Session(state, pat, user, waits) ==
  [state |-> state, pat |-> pat, user |-> user, waits |-> waits]

Free == Session("free", NoHeader, NoUser, TRUE)

Init ==
  /\ served = [r \in Requests |-> Free]
  /\ live \in SUBSET Pats
  /\ lapse = [p \in Pats |-> IF p \in live THEN 0 ELSE Horizon]
  /\ failing = FALSE
  /\ calm = Horizon

(* A request arrives; one that presents no PAT is refused at once.         *)
Arrive(r, h) ==
  /\ served[r].state # "asking"
  /\ served' = [served EXCEPT ![r] =
       Session(IF h \in Pats THEN "asking" ELSE "refused", h, NoUser, TRUE)]
  /\ UNCHANGED <<live, lapse, failing, calm>>

(* The client is not interested any more, or the server waits no longer.   *)
Leave(r) ==
  /\ served[r].state = "asking"
  /\ served' = [served EXCEPT ![r] =
       Session("asking", @.pat, @.user, FALSE)]
  /\ UNCHANGED <<live, lapse, failing, calm>>

Grant(r) ==
  /\ served[r].state = "asking"
  /\ served[r].pat \in live \/ lapse[served[r].pat] < Grace
  /\ served' = [served EXCEPT ![r] =
       Session("granted", @.pat, Owner[@.pat], @.waits)]
  /\ UNCHANGED <<live, lapse, failing, calm>>

Refuse(r) ==
  /\ served[r].state = "asking"
  /\ \/ served[r].pat \notin live
     \/ ~ served[r].waits
     \/ r \notin Configured
     \/ calm < Window
  /\ served' = [served EXCEPT ![r].state = "refused"]
  /\ UNCHANGED <<live, lapse, failing, calm>>

(* The replica that serves the request dies.                               *)
Drop(r) ==
  /\ served[r].state = "asking"
  /\ served' = [served EXCEPT ![r] = Free]
  /\ UNCHANGED <<live, lapse, failing, calm>>

Revoke(p) ==
  /\ p \in live
  /\ live' = live \ {p}
  /\ UNCHANGED <<served, lapse, failing, calm>>

Outage ==
  /\ ~ failing
  /\ failing' = TRUE
  /\ calm' = 0
  /\ UNCHANGED <<served, live, lapse>>

Recovery ==
  /\ failing
  /\ failing' = FALSE
  /\ UNCHANGED <<served, live, lapse, calm>>

Later(n) == IF n < Horizon THEN n + 1 ELSE Horizon

Tick ==
  /\ lapse' = [p \in Pats |-> IF p \in live THEN 0 ELSE Later(lapse[p])]
  /\ calm' = IF failing THEN 0 ELSE Later(calm)
  /\ UNCHANGED <<served, live, failing>>

Next ==
  \/ \E r \in Requests :
        \/ \E h \in Pats \cup {NoHeader, Blank} : Arrive(r, h)
        \/ Leave(r)
        \/ Grant(r)
        \/ Refuse(r)
        \/ Drop(r)
  \/ \E p \in Pats : Revoke(p)
  \/ Outage
  \/ Recovery
  \/ Tick

Spec == Init /\ [][Next]_vars
=============================================================================
