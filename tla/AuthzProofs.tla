---------------------------- MODULE AuthzProofs ----------------------------
(***************************************************************************)
(* What Authz promises for any number of requests, PATs and users, and for *)
(* any cache TTL and call budget.                                          *)
(***************************************************************************)
EXTENDS Authz, TLAPS

USE ConfiguredAssumption, OwnerAssumption, HeaderAssumption, TimeAssumption

(* hashPAT keeps PATs apart.                                               *)
LEMMA HashIsInjective ==
  ASSUME NEW p \in Pats, NEW q \in Pats, hashPAT(p) = hashPAT(q)
  PROVE  p = q
BY DEF hashPAT

(* The history clocks stay within their range and move by at most one.     *)
LEMMA LaterBounds ==
  ASSUME NEW n \in Clock
  PROVE  /\ Later(n) \in Clock
         /\ n <= Later(n)
         /\ Later(n) <= n + 1
         /\ \A m \in Clock : m <= n => Later(m) <= Later(n)
BY DEF Later, Clock

(* The ends of the ranges of the clocks and countdowns.                    *)
LEMMA Ranges ==
  /\ 0 \in Clock /\ Horizon \in Clock
  /\ 0 \in Budget /\ CallBudget \in Budget
  /\ 0 \in Lifetime /\ CacheTTL \in Lifetime
  /\ Clock \subseteq Nat /\ Budget \subseteq Nat /\ Lifetime \subseteq Nat
BY DEF Clock, Budget, Lifetime

-----------------------------------------------------------------------------
(* Types.                                                                  *)

OthersStay(r) == \A q \in Requests \ {r} : req'[q] = req[q]

(* What the ways a request moves on do to the requests.                    *)
LEMMA CallEffect ==
  ASSUME TypeOK, NEW r \in Requests, NEW pc \in Remote, Call(r, pc)
  PROVE  /\ req' \in [Requests -> Request]
         /\ OthersStay(r)
         /\ req'[r].pc = pc
         /\ req'[r].pat = req[r].pat
         /\ req'[r].gone = req[r].gone
         /\ req'[r].due = CallBudget
         /\ req'[r].user = req[r].user
         /\ req'[r].age = req[r].age
         /\ req'[r].reason = req[r].reason
BY Ranges DEF TypeOK, Call, Request, OthersStay

LEMMA DenyEffect ==
  ASSUME TypeOK, NEW r \in Requests, NEW reason \in Reasons, Deny(r, reason)
  PROVE  /\ req' \in [Requests -> Request]
         /\ OthersStay(r)
         /\ req'[r].pc = "done"
         /\ req'[r].pat = req[r].pat
         /\ req'[r].gone = req[r].gone
         /\ req'[r].user = NoUser
         /\ req'[r].reason = reason
<1>1. req[r] \in Request
  BY DEF TypeOK
<1>2. req'[r] = [req[r] EXCEPT !.pc = "done", !.due = 0, !.age = 0,
                               !.user = NoUser, !.reason = reason]
  BY DEF Deny, TypeOK
<1>3. req'[r] \in Request
  BY <1>1, <1>2, Ranges DEF Request
<1> QED
  BY <1>1, <1>2, <1>3 DEF Deny, TypeOK, OthersStay, Request

LEMMA AllowEffect ==
  ASSUME TypeOK, NEW r \in Requests, NEW u \in Users \cup {NoUser},
         NEW age \in Clock, Allow(r, u, age)
  PROVE  /\ req' \in [Requests -> Request]
         /\ OthersStay(r)
         /\ req'[r].pc = "done"
         /\ req'[r].pat = req[r].pat
         /\ req'[r].gone = req[r].gone
         /\ req'[r].user = u
         /\ req'[r].age = age
         /\ req'[r].reason = "ok"
<1>1. req[r] \in Request /\ "ok" \in Reasons
  BY DEF TypeOK, Reasons
<1>2. req'[r] = [req[r] EXCEPT !.pc = "done", !.due = 0, !.age = age,
                               !.user = u, !.reason = "ok"]
  BY DEF Allow, TypeOK
<1>3. req'[r] \in Request
  BY <1>1, <1>2, Ranges DEF Request
<1> QED
  BY <1>1, <1>2, <1>3 DEF Allow, TypeOK, OthersStay, Request

(* What the actions that set more than that do to them.                    *)
LEMMA CheckEffect ==
  ASSUME TypeOK, NEW r \in Requests, NEW h \in Pats \cup {NoHeader, Blank},
         Check(r, h)
  PROVE  /\ req' \in [Requests -> Request]
         /\ OthersStay(r)
         /\ \/ req'[r].pc = "cacheGet" /\ req'[r].pat \in Pats
            \/ /\ req'[r].pc = "done"
               /\ req'[r].pat \notin Pats
               /\ req'[r].reason # "ok"
<1>1. Idle \in Request
  BY Ranges DEF Idle, Request, Reasons
<1>2. Idle.pat = NoHeader
  BY DEF Idle
<1>3. CASE h = NoHeader
  <2> DEFINE q == [Idle EXCEPT !.pc = "done",
                               !.reason = "missing authorization header"]
  <2>1. q \in Request
    BY <1>1 DEF Request, Reasons
  <2>2. q.pc = "done" /\ q.pat = NoHeader /\ q.reason # "ok"
    BY <1>1, <1>2 DEF Request
  <2>3. req' = [req EXCEPT ![r] = q]
    BY <1>3 DEF Check
  <2> QED
    BY <2>1, <2>2, <2>3 DEF TypeOK, OthersStay
<1>4. CASE h = Blank
  <2> DEFINE q == [Idle EXCEPT !.pc = "done", !.pat = Blank,
                               !.reason = "PAT is empty"]
  <2>1. q \in Request
    BY <1>1 DEF Request, Reasons
  <2>2. q.pc = "done" /\ q.pat = Blank /\ q.reason # "ok"
    BY <1>1 DEF Request
  <2>3. req' = [req EXCEPT ![r] = q]
    BY <1>4 DEF Check
  <2> QED
    BY <2>1, <2>2, <2>3 DEF TypeOK, OthersStay
<1>5. CASE h \in Pats
  <2> DEFINE q == [Idle EXCEPT !.pc = "cacheGet", !.pat = h,
                               !.due = CallBudget]
  <2>1. q \in Request
    BY <1>1, <1>5, Ranges DEF Request, Remote
  <2>2. q.pc = "cacheGet" /\ q.pat = h
    BY <1>1 DEF Request
  <2>3. req' = [req EXCEPT ![r] = q]
    BY <1>5 DEF Check
  <2> QED
    BY <1>5, <2>1, <2>2, <2>3 DEF TypeOK, OthersStay
<1> QED
  BY <1>3, <1>4, <1>5

LEMMA ConfirmEffect ==
  ASSUME TypeOK, NEW r \in Requests, req[r].pat \in Pats, GetUserInfo(r)
  PROVE  /\ req' \in [Requests -> Request]
         /\ OthersStay(r)
         /\ req'[r].pat = req[r].pat
         /\ req'[r].gone = req[r].gone
         /\ req'[r].due = CallBudget
         /\ \/ /\ req'[r].pc = "exchange"
               /\ req[r].pat \in live
               /\ req'[r].user = Owner[req[r].pat]
               /\ req'[r].age = 0
            \/ /\ req'[r].pc = "cacheInvalid"
               /\ req[r].pat \notin live \/ Failing("zitadel") \/ req[r].gone
<1>1. Owner[req[r].pat] \in Users
  OBVIOUS
<1>2. CASE Call(r, "cacheInvalid")
           /\ (req[r].pat \notin live \/ Failing("zitadel") \/ req[r].gone)
  <2>1. "cacheInvalid" \in Remote
    BY DEF Remote
  <2> QED
    BY <1>2, <2>1, CallEffect
<1>3. CASE req[r].pat \in live
           /\ req' = [req EXCEPT ![r] =
                [@ EXCEPT !.pc = "exchange", !.due = CallBudget,
                          !.user = Owner[req[r].pat], !.age = 0]]
  BY <1>1, <1>3, Ranges DEF TypeOK, Request, Remote, OthersStay
<1> QED
  BY <1>2, <1>3 DEF GetUserInfo

LEMMA DisconnectEffect ==
  ASSUME TypeOK, NEW r \in Requests, Disconnect(r)
  PROVE  /\ req' \in [Requests -> Request]
         /\ OthersStay(r)
         /\ req'[r].pc = req[r].pc
         /\ req'[r].pat = req[r].pat
         /\ req'[r].gone
         /\ req'[r].due = req[r].due
         /\ req'[r].user = req[r].user
         /\ req'[r].age = req[r].age
BY DEF TypeOK, Disconnect, Request, OthersStay

LEMMA CrashEffect ==
  ASSUME TypeOK, NEW r \in Requests, Crash(r)
  PROVE  /\ req' \in [Requests -> Request]
         /\ OthersStay(r)
         /\ req'[r] = Idle
<1>1. Idle \in Request
  BY Ranges DEF Idle, Request, Reasons
<1> QED
  BY <1>1 DEF TypeOK, Crash, OthersStay

LEMMA TickEffect ==
  ASSUME TypeOK, Tick
  PROVE  /\ req' \in [Requests -> Request]
         /\ \A r \in Requests : ~ Active(r) => req'[r] = req[r]
         /\ \A r \in Requests : Active(r) =>
              /\ req'[r].pc = req[r].pc
              /\ req'[r].pat = req[r].pat
              /\ req'[r].gone = req[r].gone
              /\ req'[r].due = req[r].due - 1
              /\ req'[r].user = req[r].user
              /\ req[r].user # NoUser => req'[r].age = Later(req[r].age)
<1>1. \A r \in Requests : Active(r) =>
        /\ req[r].due - 1 \in Budget
        /\ Later(req[r].age) \in Clock
  <2> SUFFICES ASSUME NEW r \in Requests, Active(r)
               PROVE  req[r].due - 1 \in Budget /\ Later(req[r].age) \in Clock
    OBVIOUS
  <2>1. req[r].due \in Budget /\ req[r].age \in Clock
    BY DEF TypeOK, Request
  <2>2. req[r].due > 0
    BY DEF Tick
  <2> QED
    BY <2>1, <2>2, LaterBounds DEF Budget
<1>2. ASSUME NEW r \in Requests, Active(r)
      PROVE  /\ req'[r] \in Request
             /\ req'[r].pc = req[r].pc
             /\ req'[r].pat = req[r].pat
             /\ req'[r].gone = req[r].gone
             /\ req'[r].due = req[r].due - 1
             /\ req'[r].user = req[r].user
             /\ req[r].user # NoUser => req'[r].age = Later(req[r].age)
  <2>1. req'[r] = [req[r] EXCEPT !.due = req[r].due - 1,
                                 !.age = IF req[r].user = NoUser THEN 0
                                         ELSE Later(req[r].age)]
    BY <1>2 DEF Tick
  <2>2. req[r] \in Request
    BY DEF TypeOK
  <2>3. (IF req[r].user = NoUser THEN 0 ELSE Later(req[r].age)) \in Clock
    BY <1>1, <1>2, Ranges
  <2> QED
    BY <1>1, <1>2, <2>1, <2>2, <2>3 DEF Request
<1> QED
  BY <1>2 DEF Tick, TypeOK

LEMMA CacheWriteType ==
  ASSUME TypeOK, NEW r \in Requests, NEW value \in CachedToken,
         CacheWrite(r, value)
  PROVE  redis' \in [Keys -> CachedToken]
BY DEF TypeOK, CacheWrite

LEMMA AgedType ==
  ASSUME NEW e \in CachedToken
  PROVE  Aged(e) \in CachedToken
<1>1. CASE e.ttl = 1
  BY <1>1, Ranges DEF Aged, CachedToken, Nothing
<1>2. CASE e.ttl # 1
  <2>1. Later(e.age) \in Clock
    BY LaterBounds DEF CachedToken
  <2>2. (IF e.user = NoUser THEN 0 ELSE Later(e.age)) \in Clock
    BY <2>1, Ranges
  <2>3. (IF e.ttl = 0 THEN 0 ELSE e.ttl - 1) \in Lifetime
    BY DEF CachedToken, Lifetime
  <2> QED
    BY <1>2, <2>2, <2>3 DEF Aged, CachedToken
<1> QED
  BY <1>1, <1>2

(* An active request presents a PAT, so its key is one of the cache.       *)
ActivePats == \A r \in Requests : Active(r) => req[r].pat \in Pats

LEMMA InitType == Init => TypeOK /\ ActivePats
<1> SUFFICES ASSUME Init PROVE TypeOK /\ ActivePats
  OBVIOUS
<1>1. Idle \in Request /\ Nothing \in CachedToken
  BY Ranges DEF Idle, Nothing, Request, Reasons, CachedToken
<1>2. ActivePats
  BY DEF Init, ActivePats, Active, Idle, Remote
<1> QED
  BY <1>1, <1>2, Ranges DEF Init, TypeOK

LEMMA NextType ==
  ASSUME TypeOK, ActivePats, [Next]_vars
  PROVE  TypeOK' /\ ActivePats'
<1> USE DEF ActivePats, Active
<1>1. ASSUME NEW r \in Requests, NEW h \in Pats \cup {NoHeader, Blank},
             Check(r, h)
      PROVE  TypeOK' /\ ActivePats'
  <2>1. ActivePats'
    BY <1>1, CheckEffect DEF OthersStay, Remote
  <2> QED
    BY <1>1, <2>1, CheckEffect DEF Check, TypeOK
<1>2. ASSUME NEW r \in Requests, CacheGet(r)
      PROVE  TypeOK' /\ ActivePats'
  <2>1. redis[Key(r)] \in CachedToken
    BY <1>2 DEF CacheGet, Key, Keys, TypeOK, Remote
  <2>2. req' \in [Requests -> Request] /\ ActivePats'
    <3>1. CASE \E reason \in Reasons : Deny(r, reason)
      BY <3>1, DenyEffect DEF OthersStay, Remote
    <3>2. CASE Allow(r, redis[Key(r)].user, redis[Key(r)].age)
      BY <2>1, <3>2, AllowEffect DEF OthersStay, Remote, CachedToken
    <3>3. CASE Call(r, "userinfo")
      BY <1>2, <3>3, CallEffect DEF OthersStay, Remote, CacheGet
    <3> QED
      BY <1>2, <3>1, <3>2, <3>3 DEF CacheGet, Reasons
  <2> QED
    BY <1>2, <2>2 DEF CacheGet, TypeOK
<1>3. ASSUME NEW r \in Requests, GetUserInfo(r)
      PROVE  TypeOK' /\ ActivePats'
  <2>1. req[r].pat \in Pats
    BY <1>3 DEF GetUserInfo, Remote
  <2>2. ActivePats'
    BY <1>3, <2>1, ConfirmEffect DEF OthersStay
  <2> QED
    BY <1>3, <2>1, <2>2, ConfirmEffect DEF GetUserInfo, TypeOK
<1>4. ASSUME NEW r \in Requests, CacheInvalid(r)
      PROVE  TypeOK' /\ ActivePats'
  <2>1. [Nothing EXCEPT !.isInvalid = TRUE, !.ttl = CacheTTL] \in CachedToken
    BY Ranges DEF Nothing, CachedToken
  <2>2. redis' \in [Keys -> CachedToken]
    BY <1>4, <2>1, CacheWriteType DEF CacheInvalid
  <2>3. req' \in [Requests -> Request] /\ ActivePats'
    BY <1>4, DenyEffect DEF CacheInvalid, Reasons, OthersStay, Remote
  <2> QED
    BY <1>4, <2>2, <2>3 DEF CacheInvalid, TypeOK
<1>5. ASSUME NEW r \in Requests, ExchangeWithActor(r)
      PROVE  TypeOK' /\ ActivePats'
  <2>1. CASE \E reason \in Reasons : Deny(r, reason)
    BY <1>5, <2>1, DenyEffect DEF OthersStay, Remote, ExchangeWithActor, TypeOK
  <2>2. CASE Call(r, "cacheSet")
    BY <1>5, <2>2, CallEffect DEF OthersStay, Remote, ExchangeWithActor, TypeOK
  <2> QED
    BY <1>5, <2>1, <2>2 DEF ExchangeWithActor, Reasons
<1>6. ASSUME NEW r \in Requests, CacheSet(r)
      PROVE  TypeOK' /\ ActivePats'
  <2>1. req[r].user \in Users \cup {NoUser} /\ req[r].age \in Clock
    BY DEF TypeOK, Request
  <2>2. [isInvalid |-> FALSE, user |-> req[r].user, age |-> req[r].age,
         ttl |-> CacheTTL] \in CachedToken
    BY <2>1, Ranges DEF CachedToken
  <2>3. redis' \in [Keys -> CachedToken]
    BY <1>6, <2>2, CacheWriteType DEF CacheSet
  <2>4. req' \in [Requests -> Request] /\ ActivePats'
    BY <1>6, <2>1, AllowEffect DEF CacheSet, OthersStay, Remote
  <2> QED
    BY <1>6, <2>3, <2>4 DEF CacheSet, TypeOK
<1>7. ASSUME NEW r \in Requests, Disconnect(r)
      PROVE  TypeOK' /\ ActivePats'
  BY <1>7, DisconnectEffect DEF Disconnect, OthersStay, TypeOK
<1>8. ASSUME NEW r \in Requests, Crash(r)
      PROVE  TypeOK' /\ ActivePats'
  <2>1. Idle.pc \notin Remote
    BY DEF Idle, Remote
  <2> QED
    BY <1>8, <2>1, CrashEffect DEF Crash, OthersStay, TypeOK
<1>9. ASSUME NEW p \in Pats, Revoke(p)
      PROVE  TypeOK' /\ ActivePats'
  BY <1>9 DEF Revoke, TypeOK
<1>10. ASSUME NEW s \in Services, Fail(s) \/ Recover(s)
       PROVE  TypeOK' /\ ActivePats'
  BY <1>10, Ranges DEF Fail, Recover, TypeOK
<1>11. ASSUME Tick
       PROVE  TypeOK' /\ ActivePats'
  <2>1. redis' \in [Keys -> CachedToken]
    BY <1>11, AgedType DEF Tick, TypeOK
  <2>2. deadFor' \in [Pats -> Clock] /\ calm' \in Clock
    BY <1>11, LaterBounds, Ranges DEF Tick, TypeOK
  <2>3. req' \in [Requests -> Request] /\ ActivePats'
    BY <1>11, TickEffect
  <2> QED
    BY <1>11, <2>1, <2>2, <2>3 DEF Tick, TypeOK
<1>12. CASE UNCHANGED vars
  BY <1>12 DEF vars, TypeOK
<1> QED
  BY <1>1, <1>2, <1>3, <1>4, <1>5, <1>6, <1>7, <1>8, <1>9, <1>10, <1>11, <1>12
     DEF Next, Step

(* Every reachable state is well typed: the budgets and clocks stay in     *)
(* range, and every key, entry and request keeps its shape.                *)
THEOREM TypeCorrect == Spec => []TypeOK
<1>1. Spec => [](TypeOK /\ ActivePats)
  BY InitType, NextType, PTL DEF Spec
<1> QED
  BY <1>1, PTL

-----------------------------------------------------------------------------
(* Identity.                                                               *)

(* What ZITADEL said of a PAT, in the request that asked and in the entry  *)
(* it wrote, is about the owner of the PAT.                                *)
OwnRequest(r) ==
  req[r].pc \in {"exchange", "cacheSet"} \/ Allowed(r) =>
    req[r].user = Owner[req[r].pat]

OwnEntry(p) == redis[hashPAT(p)].user \in {NoUser, Owner[p]}

OwnInv ==
  /\ TypeOK /\ ActivePats
  /\ \A r \in Requests : OwnRequest(r)
  /\ \A p \in Pats : OwnEntry(p)

(* Requests begin with nothing from ZITADEL, and the cache is empty.       *)
LEMMA InitOwn == Init => OwnInv
<1> SUFFICES ASSUME Init PROVE OwnInv
  OBVIOUS
<1>1. \A r \in Requests : OwnRequest(r)
  BY DEF Init, Idle, OwnRequest, Allowed
<1>2. \A p \in Pats : OwnEntry(p)
  BY DEF Init, Keys, Nothing, OwnEntry
<1> QED
  BY <1>1, <1>2, InitType DEF OwnInv

(* A write puts the owner of the PAT under the key of the PAT.             *)
LEMMA WriteOwn ==
  ASSUME OwnInv, NEW r \in Requests, Active(r), NEW value,
         value.user = NoUser \/ value.user = Owner[req[r].pat],
         CacheWrite(r, value)
  PROVE  \A p \in Pats : OwnEntry(p)'
<1> SUFFICES ASSUME NEW p \in Pats PROVE OwnEntry(p)'
  OBVIOUS
<1>1. req[r].pat \in Pats /\ OwnEntry(p)
  BY DEF OwnInv, ActivePats
<1>2. \/ redis'[hashPAT(p)] = redis[hashPAT(p)]
      \/ hashPAT(p) = Key(r) /\ redis'[hashPAT(p)] = value
  <2>1. hashPAT(p) \in Keys /\ DOMAIN redis = Keys
    BY DEF OwnInv, TypeOK, Keys
  <2>2. redis' = redis \/ redis' = [redis EXCEPT ![Key(r)] = value]
    BY DEF CacheWrite
  <2> HIDE DEF hashPAT, Key
  <2> QED
    BY <2>1, <2>2
<1>3. hashPAT(p) = Key(r) => p = req[r].pat
  BY <1>1, HashIsInjective DEF Key
<1> QED
  BY <1>1, <1>2, <1>3 DEF OwnEntry

(* No step mixes up the owners of two PATs, whatever the time limits.      *)
LEMMA NextOwn ==
  ASSUME OwnInv, [Next]_vars
  PROVE  OwnInv'
<1> USE DEF OwnRequest, Allowed
<1>1. TypeOK' /\ ActivePats' /\ TypeOK /\ ActivePats
  BY NextType DEF OwnInv
<1>2. ASSUME NEW r \in Requests, OthersStay(r), OwnRequest(r)'
      PROVE  \A q \in Requests : OwnRequest(q)'
  BY <1>2 DEF OwnInv, OthersStay
<1>3. ASSUME redis' = redis
      PROVE  \A p \in Pats : OwnEntry(p)'
  BY <1>3 DEF OwnInv, OwnEntry
<1>4. ASSUME NEW r \in Requests, NEW h \in Pats \cup {NoHeader, Blank},
             Check(r, h)
      PROVE  OwnInv'
  <2>1. OthersStay(r) /\ OwnRequest(r)' /\ redis' = redis
    BY <1>1, <1>4, CheckEffect DEF Check
  <2> QED
    BY <1>1, <1>2, <1>3, <2>1 DEF OwnInv
<1>5. ASSUME NEW r \in Requests, CacheGet(r)
      PROVE  OwnInv'
  <2>1. req[r].pat \in Pats /\ redis[Key(r)] \in CachedToken
    BY <1>1, <1>5 DEF CacheGet, ActivePats, Active, Remote, TypeOK, Key, Keys
  <2>2. OthersStay(r) /\ OwnRequest(r)'
    <3>1. CASE \E reason \in Reasons \ {"ok"} : Deny(r, reason)
      BY <1>1, <3>1, DenyEffect
    <3>2. CASE IsGrant(Key(r))
               /\ Allow(r, redis[Key(r)].user, redis[Key(r)].age)
      <4>1. redis[Key(r)].user = Owner[req[r].pat]
        BY <2>1, <3>2 DEF OwnInv, OwnEntry, IsGrant, Key
      <4>2. redis[Key(r)].user \in Users /\ redis[Key(r)].age \in Clock
        BY <2>1, <4>1 DEF CachedToken
      <4> QED
        BY <1>1, <3>2, <4>1, <4>2, AllowEffect
    <3>3. CASE Call(r, "userinfo")
      <4>1. "userinfo" \in Remote
        BY DEF Remote
      <4> QED
        BY <1>1, <3>3, <4>1, CallEffect
    <3> QED
      BY <1>5, <3>1, <3>2, <3>3 DEF CacheGet, Reasons
  <2>3. redis' = redis
    BY <1>5 DEF CacheGet
  <2> QED
    BY <1>1, <1>2, <1>3, <2>2, <2>3 DEF OwnInv
<1>6. ASSUME NEW r \in Requests, GetUserInfo(r)
      PROVE  OwnInv'
  <2>1. req[r].pat \in Pats /\ redis' = redis
    BY <1>1, <1>6 DEF GetUserInfo, ActivePats, Active, Remote
  <2>2. OthersStay(r) /\ OwnRequest(r)'
    BY <1>1, <1>6, <2>1, ConfirmEffect
  <2> QED
    BY <1>1, <1>2, <1>3, <2>1, <2>2 DEF OwnInv
<1>7. ASSUME NEW r \in Requests, CacheInvalid(r)
      PROVE  OwnInv'
  <2>1. PICK marker :
          /\ marker = [Nothing EXCEPT !.isInvalid = TRUE, !.ttl = CacheTTL]
          /\ CacheWrite(r, marker)
          /\ Active(r) /\ Deny(r, "get userinfo failed")
    BY <1>7 DEF CacheInvalid, Active, Remote
  <2>2. marker.user = NoUser /\ "get userinfo failed" \in Reasons
    BY <2>1 DEF Nothing, Reasons
  <2>3. \A p \in Pats : OwnEntry(p)'
    <3>1. Active(r) /\ CacheWrite(r, marker)
      BY <2>1
    <3> QED
      BY <2>2, <3>1, WriteOwn
  <2>4. OthersStay(r) /\ OwnRequest(r)'
    BY <1>1, <2>1, <2>2, DenyEffect
  <2> QED
    BY <1>1, <1>2, <2>3, <2>4 DEF OwnInv
<1>8. ASSUME NEW r \in Requests, ExchangeWithActor(r)
      PROVE  OwnInv'
  <2>1. CASE \E reason \in Reasons \ {"ok"} : Deny(r, reason)
    BY <1>1, <1>2, <1>3, <1>8, <2>1, DenyEffect DEF ExchangeWithActor, OwnInv
  <2>2. CASE Call(r, "cacheSet")
    <3>1. "cacheSet" \in Remote /\ req[r].user = Owner[req[r].pat]
      BY <1>8 DEF ExchangeWithActor, OwnInv, Remote
    <3>2. OthersStay(r) /\ OwnRequest(r)'
      BY <1>1, <2>2, <3>1, CallEffect
    <3> QED
      BY <1>1, <1>2, <1>3, <1>8, <3>2 DEF ExchangeWithActor, OwnInv
  <2> QED
    BY <1>8, <2>1, <2>2 DEF ExchangeWithActor, Reasons
<1>9. ASSUME NEW r \in Requests, CacheSet(r)
      PROVE  OwnInv'
  <2> DEFINE value == [isInvalid |-> FALSE, user |-> req[r].user,
                       age |-> req[r].age, ttl |-> CacheTTL]
  <2>1. /\ Active(r) /\ CacheWrite(r, value)
        /\ Allow(r, req[r].user, req[r].age)
    BY <1>9 DEF CacheSet, Active, Remote
  <2>2. value.user = Owner[req[r].pat] /\ req[r].user = Owner[req[r].pat]
    BY <1>9 DEF CacheSet, OwnInv
  <2>3. \A p \in Pats : OwnEntry(p)'
    BY <2>1, <2>2, WriteOwn
  <2>4. req[r].user \in Users \cup {NoUser} /\ req[r].age \in Clock
    BY <1>1 DEF TypeOK, Request
  <2>5. OthersStay(r) /\ OwnRequest(r)'
    BY <1>1, <2>1, <2>2, <2>4, AllowEffect
  <2> QED
    BY <1>1, <1>2, <2>3, <2>5 DEF OwnInv
<1>10. ASSUME NEW r \in Requests, Disconnect(r)
       PROVE  OwnInv'
  <2>1. req[r].pc # "done" /\ redis' = redis /\ OwnRequest(r)
    BY <1>10 DEF Disconnect, OwnInv
  <2>2. OthersStay(r) /\ OwnRequest(r)'
    BY <1>1, <1>10, <2>1, DisconnectEffect
  <2> QED
    BY <1>1, <1>2, <1>3, <2>1, <2>2 DEF OwnInv
<1>11. ASSUME NEW r \in Requests, Crash(r)
       PROVE  OwnInv'
  <2>1. OthersStay(r) /\ req'[r].pc = "idle" /\ redis' = redis
    BY <1>1, <1>11, CrashEffect DEF Crash, Idle
  <2> QED
    BY <1>1, <1>2, <1>3, <2>1 DEF OwnInv
<1>12. CASE UNCHANGED <<req, redis>>
  BY <1>1, <1>3, <1>12 DEF OwnInv
<1>13. ASSUME Tick
       PROVE  OwnInv'
  <2>1. \A r \in Requests : OwnRequest(r)'
    BY <1>1, <1>13, TickEffect DEF OwnInv, Active, Remote
  <2>2. ASSUME NEW p \in Pats
        PROVE  OwnEntry(p)'
    <3>1. redis'[hashPAT(p)] = Aged(redis[hashPAT(p)])
      BY <1>13 DEF Tick, Keys
    <3>2. redis[hashPAT(p)] \in CachedToken /\ OwnEntry(p)
      BY <1>1 DEF TypeOK, Keys, OwnInv
    <3>3. ASSUME NEW e \in CachedToken
          PROVE  Aged(e).user \in {NoUser, e.user}
      BY DEF Aged, Nothing, CachedToken
    <3> QED
      BY <3>1, <3>2, <3>3 DEF OwnEntry
  <2> QED
    BY <1>1, <2>1, <2>2 DEF OwnInv
<1> QED
  BY <1>4, <1>5, <1>6, <1>7, <1>8, <1>9, <1>10, <1>11, <1>12, <1>13
     DEF Next, Step, Revoke, Fail, Recover, vars

(* So an allowed request names the owner of its PAT.                       *)
THEOREM Identity == Spec => []AllowNamesOwner
<1>1. OwnInv => AllowNamesOwner
  BY DEF OwnInv, OwnRequest, AllowNamesOwner
<1> QED
  BY <1>1, InitOwn, NextOwn, PTL DEF Spec

-----------------------------------------------------------------------------
(* Safety.                                                                 *)

(* The types of what RequestInv and EntryInv compute with.                 *)
LEMMA Numbers ==
  ASSUME TypeOK
  PROVE  /\ calm \in Nat
         /\ \A p \in Pats : deadFor[p] \in Nat
         /\ \A r \in Requests : req[r].age \in Nat /\ req[r].due \in Nat
         /\ \A p \in Pats : /\ redis[hashPAT(p)].age \in Nat
                            /\ redis[hashPAT(p)].ttl \in Nat
         /\ GrantLimit \in Nat
<1>1. \A p \in Pats : redis[hashPAT(p)] \in CachedToken
  BY DEF TypeOK, Keys
<1>2. \A r \in Requests : req[r] \in Request
  BY DEF TypeOK
<1>3. GrantLimit \in Nat
  BY DEF GrantLimit
<1> QED
  BY <1>1, <1>2, <1>3, Ranges DEF TypeOK, Request, CachedToken

(* A request, an entry that a step leaves alone keeps its invariant, while *)
(* PATs are revoked and outages begin and end.                             *)
LEMMA RequestKept ==
  ASSUME TypeOK, calm' \in Nat, NEW r \in Requests, RequestInv(r),
         req'[r] = req[r], deadFor' = deadFor, live' \subseteq live,
         calm' <= calm
  PROVE  RequestInv(r)'
BY Numbers DEF RequestInv, Active, Allowed

LEMMA EntryKept ==
  ASSUME TypeOK, calm' \in Nat, NEW p \in Pats, EntryInv(p),
         redis'[hashPAT(p)] = redis[hashPAT(p)], deadFor' = deadFor,
         live' \subseteq live, calm' <= calm
  PROVE  EntryInv(p)'
BY Numbers DEF EntryInv

(* So a step of one request that writes nothing to Redis is safe when the  *)
(* request itself is.                                                      *)
LEMMA StepKeeps ==
  ASSUME IInv, TypeOK', NEW r \in Requests, OthersStay(r), RequestInv(r)',
         UNCHANGED <<redis, live, deadFor, down, calm>>
  PROVE  IInv'
<1>1. calm' \in Nat /\ calm' <= calm
  BY Numbers DEF IInv
<1>2. ASSUME NEW q \in Requests
      PROVE  RequestInv(q)'
  BY <1>1, <1>2, RequestKept DEF IInv, OthersStay
<1>3. ASSUME NEW p \in Pats
      PROVE  EntryInv(p)'
  BY <1>1, <1>3, EntryKept DEF IInv
<1> QED
  BY <1>2, <1>3 DEF IInv, Failing

(* And a step that writes a value to Redis when the value suits its key.   *)
LEMMA WriteKeeps ==
  ASSUME IInv, TypeOK', NEW r \in Requests, OthersStay(r), RequestInv(r)',
         UNCHANGED <<live, deadFor, down, calm>>,
         NEW pat \in Pats, req[r].pat = pat,
         NEW value, CacheWrite(r, value),
         redis'[hashPAT(pat)] = value /\ ~ req[r].gone => EntryInv(pat)'
  PROVE  IInv'
<1>1. calm' \in Nat /\ calm' <= calm
  BY Numbers DEF IInv
<1>2. ASSUME NEW q \in Requests
      PROVE  RequestInv(q)'
  BY <1>1, <1>2, RequestKept DEF IInv, OthersStay
<1>3. ASSUME NEW p \in Pats
      PROVE  EntryInv(p)'
  <2>1. CASE redis'[hashPAT(p)] = redis[hashPAT(p)]
    BY <1>1, <2>1, EntryKept DEF IInv
  <2>2. CASE redis'[hashPAT(p)] # redis[hashPAT(p)]
    <3>1. hashPAT(p) \in Keys
      BY DEF Keys
    <3>2. /\ ~ req[r].gone
          /\ redis' = [redis EXCEPT ![hashPAT(pat)] = value]
          /\ hashPAT(p) = hashPAT(pat)
      BY <2>2, <3>1 DEF CacheWrite, IInv, TypeOK, Key
    <3>3. p = pat
      BY <3>2, HashIsInjective
    <3>4. redis'[hashPAT(pat)] = value
      BY <3>1, <3>2, <3>3 DEF IInv, TypeOK
    <3> QED
      BY <3>2, <3>3, <3>4
  <2> QED
    BY <2>1, <2>2
<1> QED
  BY <1>2, <1>3 DEF IInv, Failing

(* A request that was answered, or not started, is safe if its grant is.   *)
LEMMA AnswerSafe ==
  ASSUME NEW r \in Requests, req'[r].pc \in {"idle", "done"},
         \/ req'[r].reason # "ok"
         \/ req'[r].user = Owner[req'[r].pat] /\ req'[r].age < GrantLimit
  PROVE  RequestInv(r)'
BY DEF RequestInv, Active, Allowed, Remote, GrantLimit

(* Every action keeps the invariant, if entries expire at all.             *)
LEMMA NextSafe ==
  ASSUME CacheTTL > 0, IInv, [Next]_vars
  PROVE  IInv'
<1>1. TypeOK /\ ActivePats /\ TypeOK'
  <2>1. TypeOK /\ ActivePats
    BY DEF IInv, RequestInv, ActivePats
  <2> QED
    BY <2>1, NextType
<1>2. ASSUME NEW r \in Requests, NEW h \in Pats \cup {NoHeader, Blank},
             Check(r, h)
      PROVE  IInv'
  <2>1. RequestInv(r)'
    BY <1>1, <1>2, CheckEffect, AnswerSafe
       DEF RequestInv, Active, Allowed
  <2> QED
    BY <1>1, <1>2, <2>1, CheckEffect, StepKeeps DEF Check
<1>3. ASSUME NEW r \in Requests, CacheGet(r)
      PROVE  IInv'
  <2> DEFINE e == redis[Key(r)]
  <2>1. req[r].pat \in Pats /\ e \in CachedToken
    BY <1>1, <1>3 DEF CacheGet, ActivePats, Active, Remote, Key, Keys, TypeOK
  <2>2. OthersStay(r) /\ RequestInv(r)'
    <3>1. CASE \E reason \in Reasons \ {"ok"} : Deny(r, reason)
      BY <1>1, <3>1, DenyEffect, AnswerSafe
    <3>2. CASE Call(r, "userinfo")
      BY <1>1, <2>1, <3>2, CallEffect DEF RequestInv, Active, Allowed, Remote
    <3>3. CASE IsGrant(Key(r)) /\ Allow(r, e.user, e.age)
      <4>1. e.user = Owner[req[r].pat] /\ e.age < GrantLimit
        <5>1. /\ e.ttl > 0
              /\ e.age + e.ttl <= GrantLimit
              /\ e.user = Owner[req[r].pat]
          BY <2>1, <3>3 DEF IInv, EntryInv, IsGrant, Key
        <5>2. e.age \in Nat /\ e.ttl \in Nat /\ GrantLimit \in Nat
          BY <1>1, <2>1, Numbers DEF Key
        <5> QED
          BY <5>1, <5>2
      <4>2. e.user \in Users \cup {NoUser} /\ e.age \in Clock
        BY <2>1 DEF CachedToken
      <4> QED
        BY <1>1, <3>3, <4>1, <4>2, AllowEffect, AnswerSafe
    <3> QED
      BY <1>3, <3>1, <3>2, <3>3 DEF CacheGet, Reasons
  <2> QED
    BY <1>1, <1>3, <2>2, StepKeeps DEF CacheGet
<1>4. ASSUME NEW r \in Requests, GetUserInfo(r)
      PROVE  IInv'
  <2>1. req[r].pat \in Pats
    BY <1>1, <1>4 DEF GetUserInfo, ActivePats, Active, Remote
  <2>2. UNCHANGED <<redis, live, deadFor, down, calm>>
    BY <1>4 DEF GetUserInfo
  <2>3. CASE req'[r].pc = "exchange"
    <3>1. deadFor'[req[r].pat] = 0
      BY <1>1, <1>4, <2>1, <2>2, <2>3, ConfirmEffect DEF IInv
    <3>2. RequestInv(r)'
      BY <1>1, <1>4, <2>1, <2>3, <3>1, ConfirmEffect
         DEF RequestInv, Active, Allowed
    <3> QED
      BY <1>1, <1>4, <2>1, <2>2, <3>2, ConfirmEffect, StepKeeps
  <2>4. CASE req'[r].pc = "cacheInvalid"
    <3>1. req[r].pat \in live /\ ~ req[r].gone => calm' = 0
      BY <1>1, <1>4, <2>1, <2>2, <2>4, ConfirmEffect DEF IInv
    <3>2. RequestInv(r)'
      BY <1>1, <1>4, <2>1, <2>2, <2>4, <3>1, ConfirmEffect
         DEF RequestInv, Active, Allowed
    <3> QED
      BY <1>1, <1>4, <2>1, <2>2, <3>2, ConfirmEffect, StepKeeps
  <2> QED
    BY <1>1, <1>4, <2>1, <2>3, <2>4, ConfirmEffect
<1>5. ASSUME NEW r \in Requests, CacheInvalid(r)
      PROVE  IInv'
  <2> DEFINE e == [Nothing EXCEPT !.isInvalid = TRUE, !.ttl = CacheTTL]
  <2>1. PICK pat \in Pats : req[r].pat = pat
    BY <1>1, <1>5 DEF CacheInvalid, ActivePats, Active, Remote
  <2>2. OthersStay(r) /\ RequestInv(r)'
    BY <1>1, <1>5, DenyEffect, AnswerSafe DEF CacheInvalid, Reasons
  <2>3. ~ req[r].gone /\ pat \in live => calm <= CallBudget
    <3>1. ~ req[r].gone /\ pat \in live => calm + req[r].due <= CallBudget
      BY <1>5, <2>1 DEF CacheInvalid, IInv, RequestInv
    <3> QED
      BY <1>1, <3>1, Numbers
  <2>4. redis'[hashPAT(pat)] = e /\ ~ req[r].gone => EntryInv(pat)'
    <3>1. e.isInvalid /\ e.ttl = CacheTTL /\ e.user = NoUser
      BY DEF Nothing
    <3>2. live' = live /\ calm' = calm
      BY <1>5 DEF CacheInvalid
    <3> QED
      BY <1>1, <2>3, <3>1, <3>2, Numbers DEF EntryInv
  <2>5. CASE req[r].gone
    BY <1>1, <1>5, <2>2, <2>5, StepKeeps DEF CacheInvalid, CacheWrite
  <2>6. CASE ~ req[r].gone
    BY <1>1, <1>5, <2>1, <2>2, <2>4, WriteKeeps DEF CacheInvalid
  <2> QED
    BY <2>5, <2>6
<1>6. ASSUME NEW r \in Requests, ExchangeWithActor(r)
      PROVE  IInv'
  <2>1. CASE \E reason \in Reasons \ {"ok"} : Deny(r, reason)
    <3>1. OthersStay(r) /\ RequestInv(r)'
      BY <1>1, <2>1, DenyEffect, AnswerSafe
    <3> QED
      BY <1>1, <1>6, <3>1, StepKeeps DEF ExchangeWithActor
  <2>2. CASE Call(r, "cacheSet")
    <3>1. /\ req[r].pat \in Pats
          /\ req[r].user = Owner[req[r].pat]
          /\ deadFor[req[r].pat] <= req[r].age
          /\ req[r].age + req[r].due <= CallBudget
      BY <1>1, <1>6
         DEF ExchangeWithActor, IInv, RequestInv, ActivePats, Active, Remote
    <3>2. req[r].age + CallBudget <= 2 * CallBudget
      BY <1>1, <3>1, Numbers
    <3>3. "cacheSet" \in Remote
      BY DEF Remote
    <3>4. RequestInv(r)'
      BY <1>1, <1>6, <2>2, <3>1, <3>2, <3>3, CallEffect
         DEF ExchangeWithActor, RequestInv, Active, Allowed
    <3> QED
      BY <1>1, <1>6, <2>2, <3>3, <3>4, CallEffect, StepKeeps
         DEF ExchangeWithActor
  <2> QED
    BY <1>6, <2>1, <2>2 DEF ExchangeWithActor, Reasons
<1>7. ASSUME NEW r \in Requests, CacheSet(r)
      PROVE  IInv'
  <2> DEFINE e == [isInvalid |-> FALSE, user |-> req[r].user,
                   age |-> req[r].age, ttl |-> CacheTTL]
  <2>0. PICK pat \in Pats : req[r].pat = pat
    BY <1>1, <1>7 DEF CacheSet, ActivePats, Active, Remote
  <2>1. /\ req[r].user = Owner[pat]
        /\ deadFor[pat] <= req[r].age
        /\ req[r].age <= 2 * CallBudget
    <3>1. /\ req[r].user = Owner[pat]
          /\ deadFor[pat] <= req[r].age
          /\ req[r].age + req[r].due <= 2 * CallBudget
      BY <1>7, <2>0 DEF CacheSet, IInv, RequestInv
    <3> QED
      BY <1>1, <3>1, Numbers
  <2>2. req[r].user \in Users \cup {NoUser} /\ req[r].age \in Clock
    BY <1>1 DEF TypeOK, Request
  <2>3. OthersStay(r) /\ RequestInv(r)'
    <3>1. req[r].age < GrantLimit
      BY <1>1, <2>1, Numbers DEF GrantLimit
    <3> QED
      BY <1>1, <1>7, <2>0, <2>1, <2>2, <3>1, AllowEffect, AnswerSafe
         DEF CacheSet
  <2>4. redis'[hashPAT(pat)] = e => EntryInv(pat)'
    <3>1. req[r].age + CacheTTL <= GrantLimit
      BY <1>1, <2>1, Numbers DEF GrantLimit
    <3>2. deadFor' = deadFor
      BY <1>7 DEF CacheSet
    <3> QED
      BY <2>1, <3>1, <3>2 DEF EntryInv
  <2> QED
    BY <1>1, <1>7, <2>0, <2>3, <2>4, WriteKeeps DEF CacheSet
<1>8. ASSUME NEW r \in Requests, Disconnect(r)
      PROVE  IInv'
  <2>1. RequestInv(r)'
    BY <1>1, <1>8, DisconnectEffect
       DEF Disconnect, IInv, RequestInv, Active, Allowed
  <2> QED
    BY <1>1, <1>8, <2>1, DisconnectEffect, StepKeeps DEF Disconnect
<1>9. ASSUME NEW r \in Requests, Crash(r)
      PROVE  IInv'
  <2>1. RequestInv(r)'
    BY <1>1, <1>9, CrashEffect, AnswerSafe DEF Idle
  <2> QED
    BY <1>1, <1>9, <2>1, CrashEffect, StepKeeps DEF Crash
<1>10. ASSUME NEW p \in Pats, Revoke(p)
       PROVE  IInv'
  <2>1. calm' \in Nat /\ calm' <= calm /\ live' \subseteq live
    BY <1>1, <1>10, Numbers DEF Revoke
  <2> QED
    BY <1>1, <1>10, <2>1, RequestKept, EntryKept DEF Revoke, IInv, Failing
<1>11. ASSUME NEW s \in Services, Fail(s) \/ Recover(s)
       PROVE  IInv'
  <2>1. /\ calm' \in Nat /\ calm' <= calm
        /\ Failing("zitadel")' => calm' = 0
    BY <1>1, <1>11, Numbers DEF Fail, Recover, IInv, Failing
  <2> QED
    BY <1>1, <1>11, <2>1, RequestKept, EntryKept DEF Fail, Recover, IInv
<1>12. ASSUME Tick
       PROVE  IInv'
  <2>1. live' = live /\ down' = down
    BY <1>12 DEF Tick
  <2>2. \A p \in Pats :
          deadFor'[p] = IF p \in live THEN 0 ELSE Later(deadFor[p])
    BY <1>12 DEF Tick
  <2>3. calm' = (IF Failing("zitadel") THEN 0 ELSE Later(calm))
        /\ calm' \in Nat /\ calm' <= calm + 1
    <3>1. calm \in Clock /\ calm \in Nat
      BY <1>1, Numbers DEF TypeOK
    <3>2. Later(calm) \in Nat /\ Later(calm) <= calm + 1
      BY <3>1, LaterBounds, Ranges
    <3>3. calm' = IF Failing("zitadel") THEN 0 ELSE Later(calm)
      BY <1>12 DEF Tick
    <3> QED
      BY <3>1, <3>2, <3>3
  <2>4. \A p \in live : deadFor'[p] = 0
    BY <1>1, <2>2 DEF TypeOK
  <2>5. ASSUME NEW p \in Pats, NEW age \in Clock, deadFor[p] <= age
        PROVE  deadFor'[p] <= Later(age)
    <3>1. deadFor[p] \in Clock
      BY <1>1 DEF TypeOK
    <3>2. Later(deadFor[p]) <= Later(age) /\ Later(age) \in Nat
      BY <2>5, <3>1, LaterBounds, Ranges
    <3> QED
      BY <2>2, <3>2
  <2>6. ASSUME NEW r \in Requests
        PROVE  RequestInv(r)'
    <3>1. CASE ~ Active(r)
      BY <1>1, <1>12, <2>6, <3>1, TickEffect
         DEF IInv, RequestInv, Active, Allowed, Remote
    <3>2. CASE Active(r)
      <4>1. req[r].pat \in Pats /\ req[r].age \in Clock
        BY <1>1, <3>2 DEF ActivePats, TypeOK, Request
      <4>2. CASE req[r].pc \in {"exchange", "cacheSet"}
        <5>1. /\ req[r].user = Owner[req[r].pat]
              /\ req[r].user # NoUser
              /\ deadFor[req[r].pat] <= req[r].age
          BY <4>1, <4>2 DEF IInv, RequestInv
        <5>2. /\ req'[r].age = Later(req[r].age)
              /\ deadFor'[req[r].pat] <= req'[r].age
          BY <1>1, <1>12, <2>5, <3>2, <4>1, <5>1, TickEffect
        <5>3. req'[r].age + req'[r].due <= req[r].age + req[r].due
          <6>1. /\ req[r].age \in Nat
                /\ req[r].due \in Nat
                /\ Later(req[r].age) \in Nat
                /\ Later(req[r].age) <= req[r].age + 1
            BY <1>1, <4>1, LaterBounds, Numbers, Ranges
          <6>2. req'[r].due = req[r].due - 1
            BY <1>1, <1>12, <3>2, TickEffect
          <6> QED
            BY <5>2, <6>1, <6>2
        <5>4. /\ req[r].pc = "exchange" =>
                   req'[r].age + req'[r].due <= CallBudget
              /\ req[r].pc = "cacheSet" =>
                   req'[r].age + req'[r].due <= 2 * CallBudget
          <6>1. req'[r] \in Request /\ req[r] \in Request
            BY <1>1 DEF TypeOK
          <6>2. /\ req'[r].age + req'[r].due \in Nat
                /\ req[r].age + req[r].due \in Nat
            <7>1. /\ req'[r].age \in Nat /\ req'[r].due \in Nat
                  /\ req[r].age \in Nat /\ req[r].due \in Nat
              BY <6>1, Ranges DEF Request
            <7> QED
              BY <7>1
          <6> QED
            BY <5>3, <6>2 DEF IInv, RequestInv
        <5> QED
          BY <1>1, <1>12, <3>2, <4>1, <4>2, <5>1, <5>2, <5>4, TickEffect
             DEF RequestInv, Active, Allowed, Remote
      <4>3. CASE req[r].pc = "cacheInvalid"
        <5>1. req[r].pat \in live /\ ~ req[r].gone =>
                calm + req[r].due <= CallBudget
          BY <4>3 DEF IInv, RequestInv
        <5>2. req[r].pat \in live /\ ~ req[r].gone =>
                calm' + req'[r].due <= CallBudget
          BY <1>1, <1>12, <2>3, <3>2, <5>1, TickEffect, Numbers
        <5> QED
          BY <1>1, <1>12, <2>1, <3>2, <4>1, <4>3, <5>2, TickEffect
             DEF RequestInv, Active, Allowed, Remote
      <4>4. CASE req[r].pc \in {"cacheGet", "userinfo"}
        BY <1>1, <1>12, <3>2, <4>1, <4>4, TickEffect
           DEF RequestInv, Active, Allowed, Remote
      <4> QED
        BY <3>2, <4>2, <4>3, <4>4 DEF Active, Remote
    <3> QED
      BY <3>1, <3>2
  <2>7. ASSUME NEW p \in Pats
        PROVE  EntryInv(p)'
    <3> DEFINE e == redis[hashPAT(p)]
               d == redis'[hashPAT(p)]
    <3>1. e \in CachedToken /\ d = Aged(e)
      BY <1>1, <1>12 DEF Tick, TypeOK, Keys
    <3>2. CASE e.ttl = 1
      <4>1. d = Nothing
        BY <3>1, <3>2 DEF Aged
      <4>2. d.user = NoUser /\ ~ d.isInvalid
        BY <4>1 DEF Nothing
      <4> QED
        BY <4>2 DEF EntryInv
    <3>3. CASE e.ttl # 1
      <4>1. /\ d.isInvalid = e.isInvalid
            /\ d.user = e.user
            /\ e.ttl > 0 => d.ttl = e.ttl - 1
            /\ e.user # NoUser => d.age = Later(e.age)
        BY <3>1, <3>3, Ranges DEF Aged, CachedToken
      <4>2. e.age \in Clock /\ e.ttl \in Nat /\ e.age \in Nat
        BY <3>1, Ranges DEF CachedToken
      <4>3. CASE e.user # NoUser
        <5>1. /\ ~ e.isInvalid
              /\ e.user = Owner[p]
              /\ e.ttl > 0
              /\ e.age + e.ttl <= GrantLimit
              /\ deadFor[p] <= e.age
          BY <4>3 DEF IInv, EntryInv
        <5>2. deadFor'[p] <= d.age /\ d.age \in Nat /\ d.age <= e.age + 1
          BY <2>5, <4>1, <4>2, <4>3, <5>1, LaterBounds, Ranges
        <5>3. d.ttl > 0 /\ d.age + d.ttl <= GrantLimit
          BY <3>3, <4>1, <4>2, <5>1, <5>2, Ranges DEF GrantLimit
        <5> QED
          BY <4>1, <5>1, <5>2, <5>3 DEF EntryInv
      <4>4. CASE e.user = NoUser
        <5>1. e.isInvalid /\ p \in live =>
                e.ttl > 0 /\ calm + e.ttl <= CallBudget + CacheTTL
          BY DEF IInv, EntryInv
        <5>2. e.isInvalid /\ p \in live =>
                d.ttl > 0 /\ calm' + d.ttl <= CallBudget + CacheTTL
          BY <1>1, <2>3, <3>3, <4>1, <4>2, <5>1, Numbers
        <5> QED
          BY <2>1, <4>1, <4>4, <5>2 DEF EntryInv
      <4> QED
        BY <4>3, <4>4
    <3> QED
      BY <3>2, <3>3
  <2> QED
    BY <1>1, <2>1, <2>3, <2>4, <2>6, <2>7 DEF IInv, Failing
<1>13. CASE UNCHANGED vars
  <2>1. calm' \in Nat /\ calm' <= calm
    BY <1>1, <1>13, Numbers DEF vars
  <2> QED
    BY <1>1, <1>13, <2>1, RequestKept, EntryKept DEF vars, IInv, Failing
<1> QED
  BY <1>2, <1>3, <1>4, <1>5, <1>6, <1>7, <1>8, <1>9, <1>10, <1>11, <1>12, <1>13
     DEF Next, Step

LEMMA InitSafe == Init => IInv
<1> SUFFICES ASSUME Init PROVE IInv
  OBVIOUS
<1>1. TypeOK
  BY InitType
<1>2. ASSUME NEW r \in Requests
      PROVE  RequestInv(r)
  <2>1. req[r].pc = "idle"
    BY DEF Init, Idle
  <2> QED
    BY <2>1 DEF RequestInv, Active, Allowed, Remote
<1>3. ASSUME NEW p \in Pats
      PROVE  EntryInv(p)
  <2>1. redis[hashPAT(p)] = Nothing
    BY DEF Init, Keys
  <2>2. redis[hashPAT(p)].user = NoUser /\ ~ redis[hashPAT(p)].isInvalid
    BY <2>1 DEF Nothing
  <2> QED
    BY <2>2 DEF EntryInv
<1> QED
  BY <1>1, <1>2, <1>3 DEF Init, IInv, Failing

(* The invariant holds in every reachable state.                           *)
THEOREM Safety ==
  ASSUME CacheTTL > 0
  PROVE  Spec => []IInv
<1>1. IInv /\ [Next]_vars => IInv'
  BY NextSafe
<1> QED
  BY <1>1, InitSafe, PTL DEF Spec

(* So what an allowed request was granted is younger than GrantLimit.      *)
THEOREM Freshness ==
  ASSUME CacheTTL > 0
  PROVE  Spec => []FreshGrant
<1>1. IInv => FreshGrant
  BY DEF IInv, RequestInv, FreshGrant
<1> QED
  BY <1>1, Safety, PTL

-----------------------------------------------------------------------------
(* What an answer may be.                                                  *)

(* A request is answered by an action of its own.                          *)
LEMMA WhoAnswers ==
  ASSUME TypeOK, ActivePats, [Next]_vars, NEW r \in Requests, Answers(r)
  PROVE  \/ \E h \in Pats \cup {NoHeader, Blank} : Check(r, h)
         \/ CacheGet(r) \/ CacheInvalid(r) \/ ExchangeWithActor(r)
         \/ CacheSet(r)
<1> USE DEF Answers
<1>1. ASSUME NEW q \in Requests, q # r,
             \/ \E h \in Pats \cup {NoHeader, Blank} : Check(q, h)
             \/ Step(q) \/ Disconnect(q) \/ Crash(q)
      PROVE  FALSE
  <2>1. req'[r] = req[r]
    BY <1>1 DEF Check, Step, CacheGet, GetUserInfo, CacheInvalid,
                ExchangeWithActor, CacheSet, Disconnect, Crash, Call, Deny,
                Allow, TypeOK
  <2> QED
    BY <2>1
<1>2. ASSUME GetUserInfo(r) \/ Disconnect(r) \/ Crash(r)
      PROVE  FALSE
  <2>1. CASE GetUserInfo(r)
    <3>1. req[r].pat \in Pats
      BY <2>1 DEF GetUserInfo, ActivePats, Active, Remote
    <3> QED
      BY <2>1, <3>1, ConfirmEffect
  <2>2. CASE Disconnect(r)
    BY <2>2, DisconnectEffect DEF Disconnect
  <2>3. CASE Crash(r)
    BY <2>3, CrashEffect DEF Idle
  <2> QED
    BY <1>2, <2>1, <2>2, <2>3
<1>3. ASSUME Tick
      PROVE  FALSE
  BY <1>3, TickEffect DEF Active, Remote
<1>4. ASSUME \/ \E p \in Pats : Revoke(p)
             \/ \E s \in Services : Fail(s) \/ Recover(s)
             \/ UNCHANGED vars
      PROVE  FALSE
  BY <1>4 DEF Revoke, Fail, Recover, vars
<1> QED
  BY <1>1, <1>2, <1>3, <1>4 DEF Next, Step

LEMMA AnswerLag ==
  ASSUME CacheTTL > 0, IInv, [Next]_vars,
         NEW r \in Requests, Answers(r), Allowed(r)'
  PROVE  req'[r].pat \in live \/ deadFor[req'[r].pat] < GrantLimit
<1>1. TypeOK /\ ActivePats
  BY DEF IInv, RequestInv, ActivePats
<1>2. req'[r].reason = "ok"
  BY DEF Allowed
<1>3. ASSUME \E h \in Pats \cup {NoHeader, Blank} : Check(r, h)
      PROVE  FALSE
  BY <1>1, <1>2, <1>3, CheckEffect DEF Answers
<1>4. ASSUME NEW reason \in Reasons \ {"ok"}, Deny(r, reason)
      PROVE  FALSE
  BY <1>1, <1>2, <1>4, DenyEffect
<1>5. CASE CacheGet(r)
  <2> DEFINE e == redis[Key(r)]
  <2>1. PICK pat \in Pats : req[r].pat = pat
    BY <1>1, <1>5 DEF CacheGet, ActivePats, Active, Remote
  <2>2. ~ Call(r, "userinfo")
    BY <1>1, CallEffect DEF Answers, Remote
  <2>3. IsGrant(Key(r)) /\ Allow(r, e.user, e.age)
    BY <1>4, <1>5, <2>2 DEF CacheGet, Reasons
  <2>4. deadFor[pat] <= e.age /\ e.ttl > 0 /\ e.age + e.ttl <= GrantLimit
    BY <2>1, <2>3 DEF IInv, EntryInv, IsGrant, Key
  <2>5. deadFor[pat] < GrantLimit
    <3>1. e.age \in Nat /\ e.ttl \in Nat
      BY <1>1, <2>1, Numbers DEF Key
    <3> QED
      BY <1>1, <2>4, <3>1, Numbers
  <2>6. e.user \in Users \cup {NoUser} /\ e.age \in Clock
    BY <1>1, <2>1 DEF TypeOK, Keys, Key, CachedToken
  <2>7. req'[r].pat = req[r].pat
    BY <1>1, <2>3, <2>6, AllowEffect
  <2> QED
    BY <2>1, <2>5, <2>7
<1>6. CASE CacheSet(r)
  <2>1. PICK pat \in Pats : req[r].pat = pat
    BY <1>1, <1>6 DEF CacheSet, ActivePats, Active, Remote
  <2>2. deadFor[pat] <= req[r].age
        /\ req[r].age + req[r].due <= 2 * CallBudget
    BY <1>6, <2>1 DEF CacheSet, IInv, RequestInv
  <2>3. deadFor[pat] < GrantLimit
    BY <1>1, <2>2, Numbers DEF GrantLimit
  <2>4. req[r].user \in Users \cup {NoUser} /\ req[r].age \in Clock
    BY <1>1 DEF TypeOK, Request
  <2>5. req'[r].pat = req[r].pat
    BY <1>1, <1>6, <2>4, AllowEffect DEF CacheSet
  <2> QED
    BY <2>1, <2>3, <2>5
<1>7. CASE CacheInvalid(r)
  BY <1>4, <1>7 DEF CacheInvalid, Reasons
<1>8. CASE ExchangeWithActor(r)
  <2>1. ~ Call(r, "cacheSet")
    BY <1>1, CallEffect DEF Answers, Remote
  <2> QED
    BY <1>4, <1>8, <2>1 DEF ExchangeWithActor, Reasons
<1> QED
  BY <1>1, <1>3, <1>5, <1>6, <1>7, <1>8, WhoAnswers

(* A revoked PAT is refused GrantLimit after its revocation at the latest, *)
(* whatever fills of the cache are under way when it is revoked.           *)
THEOREM RevocationTakesHold ==
  ASSUME CacheTTL > 0
  PROVE  Spec => RevocationLag
<1>1. IInv /\ [Next]_vars =>
        [\A r \in Requests :
           Answers(r) /\ Allowed(r)' =>
             \/ req'[r].pat \in live
             \/ deadFor[req'[r].pat] < GrantLimit]_vars
  BY AnswerLag
<1> QED
  BY <1>1, Safety, PTL DEF Spec, RevocationLag

LEMMA RefusalCalm ==
  ASSUME CacheTTL > 0, IInv, [Next]_vars, NEW r \in Configured, Answers(r),
         Refused(r)', req'[r].pat \in live, ~ req'[r].gone
  PROVE  calm < CallBudget + CacheTTL
<1> USE DEF Refused
<1>1. TypeOK /\ ActivePats /\ r \in Requests
  BY DEF IInv, RequestInv, ActivePats
<1>2. ASSUME \E h \in Pats \cup {NoHeader, Blank} : Check(r, h)
      PROVE  FALSE
  BY <1>1, <1>2, CheckEffect DEF Answers, TypeOK
<1>3. CASE CacheGet(r)
  <2> DEFINE e == redis[Key(r)]
  <2>1. PICK pat \in Pats : req[r].pat = pat
    BY <1>1, <1>3 DEF CacheGet, ActivePats, Active, Remote
  <2>2. e.user \in Users \cup {NoUser} /\ e.age \in Clock
    BY <1>1, <2>1 DEF TypeOK, Keys, Key, CachedToken
  <2>3. ~ Call(r, "userinfo") /\ ~ Allow(r, e.user, e.age)
    BY <1>1, <2>2, CallEffect, AllowEffect DEF Answers, Remote
  <2>4. IsMarker(Key(r)) /\ Deny(r, "cached invalid token")
    BY <1>3, <2>3 DEF CacheGet
  <2>5. req'[r].pat = req[r].pat
    BY <1>1, <2>4, DenyEffect DEF Reasons
  <2>6. e.ttl > 0 /\ calm + e.ttl <= CallBudget + CacheTTL
    BY <2>1, <2>4, <2>5 DEF IInv, EntryInv, IsMarker, Key
  <2>7. calm \in Nat /\ e.ttl \in Nat
    BY <1>1, <2>1, Numbers DEF Key
  <2> QED
    BY <2>6, <2>7
<1>4. CASE CacheInvalid(r)
  <2>1. req'[r].pat = req[r].pat /\ req'[r].gone = req[r].gone
    BY <1>1, <1>4, DenyEffect DEF CacheInvalid, Reasons
  <2>2. calm + req[r].due <= CallBudget
    BY <1>1, <1>4, <2>1 DEF CacheInvalid, IInv, RequestInv
  <2> QED
    BY <1>1, <2>2, Numbers
<1>5. CASE ExchangeWithActor(r)
  <2>1. ~ Call(r, "cacheSet")
    BY <1>1, CallEffect DEF Answers, Remote
  <2>2. \E reason \in Reasons : Deny(r, reason)
    BY <1>5, <2>1 DEF ExchangeWithActor, Reasons
  <2>3. req'[r].pat = req[r].pat /\ req'[r].gone = req[r].gone
    BY <1>1, <2>2, DenyEffect
  <2>4. Failing("zitadel")
    BY <1>5, <2>1, <2>3 DEF ExchangeWithActor
  <2> QED
    BY <2>4 DEF IInv
<1>6. CASE CacheSet(r)
  <2>1. req[r].user \in Users \cup {NoUser} /\ req[r].age \in Clock
    BY <1>1 DEF TypeOK, Request
  <2> QED
    BY <1>1, <1>6, <2>1, AllowEffect DEF CacheSet
<1> QED
  BY <1>1, <1>2, <1>3, <1>4, <1>5, <1>6, WhoAnswers

(* A live PAT is refused, by a replica with an admin PAT and to a client   *)
(* that waits, during an outage of ZITADEL or CallBudget + CacheTTL after. *)
THEOREM PoisonIsBounded ==
  ASSUME CacheTTL > 0
  PROVE  Spec => PoisonWindow
<1>1. IInv /\ [Next]_vars =>
        [\A r \in Configured :
           /\ Answers(r)
           /\ Refused(r)'
           /\ req'[r].pat \in live
           /\ ~ req'[r].gone
           => calm < CallBudget + CacheTTL]_vars
  BY RefusalCalm
<1> QED
  BY <1>1, Safety, PTL DEF Spec, PoisonWindow
=============================================================================
