-------------------------- MODULE AuthzLeaseProofs --------------------------
(***************************************************************************)
(* Authz implements Lease, for any number of requests, PATs and users, and *)
(* any time limits with a TTL above 0.                                     *)
(***************************************************************************)
EXTENDS AuthzLease, AuthzProofs

(* A move of one request changes what is seen of that request alone.       *)
LEMMA SeenMoves ==
  ASSUME NEW r \in Requests, OthersStay(r)
  PROVE  Served' = [Served EXCEPT ![r] = Seen(r)']
<1>1. ASSUME NEW q \in Requests, q # r
      PROVE  Seen(q)' = Seen(q)
  <2>1. req'[q] = req[q]
    BY <1>1 DEF OthersStay
  <2> QED
    BY <2>1 DEF Seen, Active, Allowed
<1>2. Served' = [q \in Requests |-> Seen(q)']
  BY DEF Served
<1> QED
  BY <1>1, <1>2 DEF Served

(* While a request is active its client has been told nothing.             *)
LEMMA SeenAsking ==
  ASSUME NEW r \in Requests, Active(r)
  PROVE  Seen(r) = [state |-> "asking", pat |-> req[r].pat,
                    user |-> NoUser, waits |-> ~ req[r].gone]
BY DEF Seen, Active, Allowed, Remote

(* A step that leaves a request active, with its PAT and its client, is    *)
(* not seen.                                                               *)
LEMMA UnseenStep ==
  ASSUME NEW r \in Requests, Active(r), Active(r)', OthersStay(r),
         req'[r].pat = req[r].pat, req'[r].gone = req[r].gone
  PROVE  Served' = Served
<1>1. Seen(r)' = Seen(r)
  BY DEF Seen, Active, Allowed, Remote
<1> QED
  BY <1>1, SeenMoves DEF Served

(* A denial is seen as a refusal, an allowance as a grant.                 *)
LEMMA SeenDenied ==
  ASSUME TypeOK, NEW r \in Requests, Active(r),
         NEW reason \in Reasons \ {"ok"}, Deny(r, reason)
  PROVE  Served' = [Served EXCEPT ![r].state = "refused"]
<1>1. /\ OthersStay(r)
      /\ req'[r].pc = "done" /\ req'[r].reason # "ok"
      /\ req'[r].pat = req[r].pat /\ req'[r].gone = req[r].gone
  BY DenyEffect
<1>2. Seen(r)' = [state |-> "refused", pat |-> req[r].pat,
                  user |-> NoUser, waits |-> ~ req[r].gone]
  BY <1>1 DEF Seen, Active, Allowed, Remote
<1>3. Seen(r)' = [Seen(r) EXCEPT !.state = "refused"]
  BY <1>2, SeenAsking
<1> QED
  BY <1>1, <1>3, SeenMoves DEF Served

(* The same of an allowance.                                               *)
LEMMA SeenAllowed ==
  ASSUME TypeOK, NEW r \in Requests, Active(r),
         NEW u \in Users \cup {NoUser}, NEW age \in Clock, Allow(r, u, age)
  PROVE  Served' = [Served EXCEPT ![r] =
           Promise!Session("granted", @.pat, u, @.waits)]
<1>1. /\ OthersStay(r)
      /\ req'[r].pc = "done" /\ req'[r].reason = "ok" /\ req'[r].user = u
      /\ req'[r].pat = req[r].pat /\ req'[r].gone = req[r].gone
  BY AllowEffect
<1>2. Seen(r)' =
        Promise!Session("granted", req[r].pat, u, ~ req[r].gone)
  BY <1>1 DEF Seen, Active, Allowed, Remote, Promise!Session
<1>3. Served[r].pat = req[r].pat /\ Served[r].waits = ~ req[r].gone
  BY SeenAsking DEF Served
<1> QED
  BY <1>1, <1>2, <1>3, SeenMoves

-----------------------------------------------------------------------------
(* Each action maps to an action of Lease, or is not seen.                 *)

(* Nothing but a request moved.                                            *)
OnlyRequests == UNCHANGED <<live, deadFor, down, calm>>

(* Authz starts where the promise does.                                    *)
LEMMA StartMaps == Init => Promise!Init
<1> SUFFICES ASSUME Init
             PROVE  Promise!Init
  OBVIOUS
<1>1. \A r \in Requests : Seen(r) = Promise!Free
  BY DEF Init, Idle, Seen, Active, Allowed, Remote, Promise!Free,
         Promise!Session
<1>2. Failing("zitadel") = FALSE
  BY DEF Init, Failing
<1> QED
  BY <1>1, <1>2 DEF Init, Promise!Init, Served

(* A request that begins arrives, or is refused at once.                   *)
LEMMA CheckMaps ==
  ASSUME TypeOK, NEW r \in Requests, NEW h \in Pats \cup {NoHeader, Blank},
         Check(r, h)
  PROVE  Promise!Arrive(r, h)
<1> DEFINE state == IF h \in Pats THEN "asking" ELSE "refused"
<1>1. OthersStay(r)
  BY CheckEffect
<1>2. Seen(r)' = Promise!Session(state, h, NoUser, TRUE)
  <2>1. req'[r].pat = h /\ req'[r].gone = FALSE
    BY DEF Check, Idle, TypeOK
  <2>2. IF h \in Pats THEN req'[r].pc = "cacheGet"
                      ELSE req'[r].pc = "done" /\ req'[r].reason # "ok"
    BY CheckEffect, <2>1 DEF Check, Idle, TypeOK
  <2> QED
    BY <2>1, <2>2 DEF Seen, Active, Allowed, Remote, Promise!Session
<1>3. Served[r].state # "asking"
  BY DEF Check, Served, Seen
<1>4. Served' = [Served EXCEPT ![r] =
        Promise!Session(state, h, NoUser, TRUE)]
  BY <1>1, <1>2, SeenMoves
<1> QED
  BY <1>3, <1>4 DEF Promise!Arrive, Check, Failing

(* A denial is a refusal the promise allows.                               *)
LEMMA DenyMaps ==
  ASSUME CacheTTL > 0, IInv, [Next]_vars, OnlyRequests,
         NEW r \in Requests, Active(r),
         NEW reason \in Reasons \ {"ok"}, Deny(r, reason)
  PROVE  Promise!Refuse(r)
<1>1. TypeOK /\ ActivePats
  BY DEF IInv, RequestInv, ActivePats
<1>2. /\ req'[r].pc = "done" /\ req'[r].reason # "ok"
      /\ req'[r].pat = req[r].pat /\ req'[r].gone = req[r].gone
  BY <1>1, DenyEffect
<1>3. Served[r].state = "asking" /\ Served[r].pat = req[r].pat
      /\ Served[r].waits = ~ req[r].gone
  BY SeenAsking DEF Served
<1>4. Served' = [Served EXCEPT ![r].state = "refused"]
  BY <1>1, SeenDenied
<1>5. \/ req[r].pat \notin live \/ req[r].gone
      \/ r \notin Configured \/ calm < CallBudget + CacheTTL
  <2>1. Answers(r) /\ Refused(r)'
    BY <1>2 DEF Answers, Refused, Active, Remote
  <2> QED
    BY <1>2, <2>1, RefusalCalm DEF OnlyRequests
<1> QED
  BY <1>3, <1>4, <1>5 DEF Promise!Refuse, OnlyRequests, Failing

(* An allowance is a grant the promise allows.                             *)
LEMMA AllowMaps ==
  ASSUME CacheTTL > 0, IInv, IInv', [Next]_vars, OnlyRequests,
         NEW r \in Requests, Active(r),
         NEW u \in Users \cup {NoUser}, NEW age \in Clock, Allow(r, u, age)
  PROVE  Promise!Grant(r)
<1>1. TypeOK
  BY DEF IInv
<1>2. /\ req'[r].pc = "done" /\ req'[r].reason = "ok" /\ req'[r].user = u
      /\ req'[r].pat = req[r].pat
  BY <1>1, AllowEffect
<1>3. Served[r].state = "asking" /\ Served[r].pat = req[r].pat
  BY SeenAsking DEF Served
<1>4. req[r].pat \in live \/ deadFor[req[r].pat] < GrantLimit
  <2>1. Answers(r) /\ Allowed(r)'
    BY <1>2 DEF Answers, Allowed, Active, Remote
  <2> QED
    BY <1>2, <2>1, AnswerLag DEF OnlyRequests
<1>5. u = Owner[req[r].pat]
  BY <1>2 DEF IInv, RequestInv, Allowed
<1>6. Served' = [Served EXCEPT ![r] =
        Promise!Session("granted", @.pat, Owner[@.pat], @.waits)]
  BY <1>1, <1>3, <1>5, SeenAllowed
<1> QED
  BY <1>3, <1>4, <1>6 DEF Promise!Grant, OnlyRequests, Failing

(* A move that is not seen is a stutter of the promise.                    *)
LEMMA UnseenMaps ==
  ASSUME IInv, OnlyRequests, NEW r \in Requests, Active(r), Active(r)',
         OthersStay(r), req'[r].pat = req[r].pat, req'[r].gone = req[r].gone
  PROVE  UNCHANGED Promise!vars
<1>1. Served' = Served
  BY UnseenStep
<1> QED
  BY <1>1 DEF Promise!vars, OnlyRequests, Failing

(* The steps of a request.                                                 *)
LEMMA StepMaps ==
  ASSUME CacheTTL > 0, IInv, IInv', [Next]_vars,
         NEW r \in Requests, Step(r)
  PROVE  Promise!Grant(r) \/ Promise!Refuse(r) \/ UNCHANGED Promise!vars
<1>1. TypeOK /\ ActivePats
  BY DEF IInv, RequestInv, ActivePats
<1>2. OnlyRequests
  BY DEF Step, CacheGet, GetUserInfo, CacheInvalid, ExchangeWithActor,
         CacheSet, OnlyRequests
<1>3. Active(r)
  BY DEF Step, CacheGet, GetUserInfo, CacheInvalid, ExchangeWithActor,
         CacheSet, Active, Remote
<1>4. ASSUME NEW pc \in Remote, Call(r, pc)
      PROVE  UNCHANGED Promise!vars
  <2>1. OthersStay(r) /\ Active(r)'
        /\ req'[r].pat = req[r].pat /\ req'[r].gone = req[r].gone
    BY <1>1, <1>4, CallEffect DEF Active
  <2> QED
    BY <1>2, <1>3, <2>1, UnseenMaps
<1>5. ASSUME NEW reason \in Reasons \ {"ok"}, Deny(r, reason)
      PROVE  Promise!Refuse(r)
  BY <1>2, <1>3, <1>5, DenyMaps
<1>6. CASE CacheGet(r)
  <2> DEFINE e == redis[Key(r)]
  <2>1. PICK pat \in Pats : req[r].pat = pat
    BY <1>1, <1>3 DEF ActivePats
  <2>2. e.user \in Users \cup {NoUser} /\ e.age \in Clock
    BY <1>1, <2>1 DEF TypeOK, Keys, Key, CachedToken
  <2>3. ASSUME Allow(r, e.user, e.age)
        PROVE  Promise!Grant(r)
    BY <1>2, <1>3, <2>2, <2>3, AllowMaps
  <2>4. "userinfo" \in Remote
        /\ {"cached invalid token", "admin PAT is not set"}
             \subseteq Reasons \ {"ok"}
    BY DEF Remote, Reasons
  <2>5. \/ Deny(r, "cached invalid token") \/ Deny(r, "admin PAT is not set")
        \/ Allow(r, e.user, e.age) \/ Call(r, "userinfo")
    BY <1>6 DEF CacheGet
  <2> QED
    BY <1>4, <1>5, <2>3, <2>4, <2>5
<1>7. CASE GetUserInfo(r)
  <2>1. req[r].pat \in Pats
    BY <1>1, <1>3 DEF ActivePats
  <2>2. OthersStay(r) /\ Active(r)'
        /\ req'[r].pat = req[r].pat /\ req'[r].gone = req[r].gone
    BY <1>1, <1>7, <2>1, ConfirmEffect DEF Active, Remote
  <2> QED
    BY <1>2, <1>3, <2>2, UnseenMaps
<1>8. CASE CacheInvalid(r)
  BY <1>5, <1>8 DEF CacheInvalid, Reasons
<1>9. CASE ExchangeWithActor(r)
  BY <1>4, <1>5, <1>9 DEF ExchangeWithActor, Reasons, Remote
<1>10. CASE CacheSet(r)
  <2>1. req[r].user \in Users \cup {NoUser} /\ req[r].age \in Clock
    BY <1>1 DEF TypeOK, Request
  <2> QED
    BY <1>2, <1>3, <1>10, <2>1, AllowMaps DEF CacheSet
<1> QED
  BY <1>6, <1>7, <1>8, <1>9, <1>10 DEF Step

(* What happens around the requests.                                       *)
LEMMA DisconnectMaps ==
  ASSUME TypeOK, NEW r \in Requests, Disconnect(r)
  PROVE  Promise!Leave(r)
<1>1. OthersStay(r) /\ Active(r)
      /\ req'[r].pc = req[r].pc /\ req'[r].pat = req[r].pat /\ req'[r].gone
  BY DisconnectEffect DEF Disconnect, Active, Remote
<1>2. Seen(r)' = Promise!Session("asking", req[r].pat, NoUser, FALSE)
  BY <1>1 DEF Seen, Active, Allowed, Remote, Promise!Session
<1>3. Served[r].state = "asking" /\ Served[r].pat = req[r].pat
      /\ Served[r].user = NoUser
  BY <1>1, SeenAsking DEF Served
<1>4. Served' = [Served EXCEPT ![r] =
        Promise!Session("asking", @.pat, @.user, FALSE)]
  BY <1>1, <1>2, <1>3, SeenMoves
<1> QED
  BY <1>3, <1>4 DEF Promise!Leave, Disconnect, Failing

(* A crash drops the request.                                              *)
LEMMA CrashMaps ==
  ASSUME TypeOK, NEW r \in Requests, Crash(r)
  PROVE  Promise!Drop(r)
<1>1. OthersStay(r) /\ Active(r) /\ req'[r] = Idle
  BY CrashEffect DEF Crash
<1>2. Seen(r)' = Promise!Free
  <2>1. req'[r].pc = "idle" /\ req'[r].pat = NoHeader /\ req'[r].gone = FALSE
    BY <1>1 DEF Idle
  <2> QED
    BY <2>1 DEF Seen, Active, Allowed, Remote, Promise!Free, Promise!Session
<1>3. Served[r].state = "asking"
  BY <1>1, SeenAsking DEF Served
<1> QED
  BY <1>1, <1>2, <1>3, SeenMoves DEF Promise!Drop, Crash, Failing

(* Both clocks tick together.                                              *)
LEMMA TickMaps ==
  ASSUME TypeOK, Tick
  PROVE  Promise!Tick
<1>1. ASSUME NEW r \in Requests
      PROVE  Seen(r)' = Seen(r)
  <2>1. CASE ~ Active(r)
    <3>1. req'[r] = req[r]
      BY <2>1, TickEffect
    <3> QED
      BY <3>1 DEF Seen, Active, Allowed
  <2>2. CASE Active(r)
    <3>1. /\ req'[r].pc = req[r].pc /\ req'[r].pat = req[r].pat
          /\ req'[r].gone = req[r].gone
      BY <2>2, TickEffect
    <3> QED
      BY <2>2, <3>1 DEF Seen, Active, Allowed, Remote
  <2> QED
    BY <2>1, <2>2
<1>2. Served' = Served
  BY <1>1 DEF Served
<1> QED
  BY <1>2 DEF Promise!Tick, Promise!Later, Tick, Later, Failing

(* Revocations, outages and recoveries are those of the promise.           *)
LEMMA AroundMaps ==
  ASSUME \/ \E p \in Pats : Revoke(p)
         \/ \E s \in Services : Fail(s) \/ Recover(s)
         \/ UNCHANGED vars
  PROVE  [Promise!Next]_(Promise!vars)
<1>1. Served' = Served
  BY DEF Revoke, Fail, Recover, vars, Served, Seen, Active, Allowed
<1>2. ASSUME NEW p \in Pats, Revoke(p)
      PROVE  Promise!Revoke(p)
  BY <1>1, <1>2 DEF Revoke, Promise!Revoke, Failing
<1>3. ASSUME NEW s \in Services, Fail(s)
      PROVE  Promise!Outage \/ UNCHANGED Promise!vars
  BY <1>1, <1>3 DEF Fail, Failing, Services, Promise!Outage, Promise!vars
<1>4. ASSUME NEW s \in Services, Recover(s)
      PROVE  Promise!Recovery \/ UNCHANGED Promise!vars
  BY <1>1, <1>4 DEF Recover, Failing, Services, Promise!Recovery,
                    Promise!vars
<1>5. ASSUME UNCHANGED vars
      PROVE  UNCHANGED Promise!vars
  BY <1>1, <1>5 DEF vars, Promise!vars, Failing
<1> QED
  BY <1>2, <1>3, <1>4, <1>5 DEF Promise!Next

(* Every behaviour of Authz, seen from outside, is one that Lease allows.  *)
THEOREM Implementation ==
  ASSUME CacheTTL > 0
  PROVE  Spec => ImplementsLease
<1>1. ASSUME IInv, IInv', [Next]_vars
      PROVE  [Promise!Next]_(Promise!vars)
  <2>1. TypeOK
    BY <1>1 DEF IInv
  <2>2. ASSUME NEW r \in Requests, NEW h \in Pats \cup {NoHeader, Blank},
               Check(r, h)
        PROVE  Promise!Next
    BY <2>1, <2>2, CheckMaps DEF Promise!Next
  <2>3. ASSUME NEW r \in Requests, Step(r)
        PROVE  [Promise!Next]_(Promise!vars)
    BY <1>1, <2>3, StepMaps DEF Promise!Next
  <2>4. ASSUME NEW r \in Requests, Disconnect(r) \/ Crash(r)
        PROVE  Promise!Next
    BY <2>1, <2>4, DisconnectMaps, CrashMaps DEF Promise!Next
  <2>5. ASSUME Tick
        PROVE  Promise!Next
    BY <2>1, <2>5, TickMaps DEF Promise!Next
  <2> QED
    BY <1>1, <2>2, <2>3, <2>4, <2>5, AroundMaps DEF Next
<1> QED
  BY <1>1, StartMaps, Safety, PTL DEF Spec, ImplementsLease, Promise!Spec
=============================================================================
