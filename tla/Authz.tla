------------------------------- MODULE Authz -------------------------------
(***************************************************************************)
(* The authorization path: the ext_authz handler Check, the domain service *)
(* AuthorizePAT behind it, the Redis token cache and the two calls to      *)
(* ZITADEL (userinfo, token exchange) it makes when the cache misses.      *)
(*                                                                         *)
(* Every element of Requests is a slot for a handler goroutine, on any     *)
(* replica: the replicas share nothing but Redis and ZITADEL.  A request   *)
(* runs AuthorizePAT with one step per remote operation, because between   *)
(* two of them other requests, a revocation, a crash, a disconnecting      *)
(* client, an outage or the clock may intervene.                           *)
(*                                                                         *)
(* Time is relative.  A cache entry counts its time to live down, a remote *)
(* operation counts down the longest time it may take, and the history     *)
(* clocks (age, deadFor, calm) count up and saturate at Horizon.  So the   *)
(* state space is finite without bounding the length of a behaviour.       *)
(***************************************************************************)
EXTENDS Naturals

CONSTANTS
  Requests,    \* slots for handler goroutines
  Configured,  \* the slots on replicas started with an admin PAT
  Pats,        \* the secrets a client may present
  Users,       \* user IDs
  Owner,       \* the user each PAT stands for
  NoUser,      \* absence of a user
  NoHeader,    \* a request without an Authorization header
  Blank,       \* an Authorization header that is empty once trimmed
  CacheTTL,    \* auth.cache_ttl, in ticks; 0 makes go-redis set no expiry
  CallBudget,  \* the longest a remote operation takes, in ticks: client
               \* timeout and all its retries, for Redis and ZITADEL alike
  Horizon      \* where the history clocks saturate

ASSUME ConfiguredAssumption == Configured \subseteq Requests
ASSUME OwnerAssumption == Owner \in [Pats -> Users] /\ NoUser \notin Users
ASSUME HeaderAssumption ==
  NoHeader \notin Pats /\ Blank \notin Pats /\ NoHeader # Blank
ASSUME TimeAssumption ==
  /\ CacheTTL \in Nat
  /\ CallBudget \in Nat
  /\ Horizon \in Nat
  /\ 2 * CallBudget + CacheTTL <= Horizon

VARIABLES
  req,      \* req[r]: the request slot r is serving, or served last
  redis,    \* redis[k]: the value stored under key k
  live,     \* the PATs ZITADEL accepts
  deadFor,  \* deadFor[p]: time since PAT p was revoked or expired
  down,     \* the services that are failing, for the admin PAT or at all
  calm      \* time since ZITADEL last failed

vars == <<req, redis, live, deadFor, down, calm>>

Services == {"redis", "zitadel"}

(* Mutant: a digest of nothing but a prefix all PATs share.                *)
hashPrefix(p) == <<"authz:pat">>

(* The cache key: a digest of the PAT, taken to be free of collisions.     *)
hashPAT(p) == <<"authz:pat", p>>

Keys == {hashPAT(p) : p \in Pats}

Clock == 0 .. Horizon      \* the values of a history clock
Budget == 0 .. CallBudget  \* what is left to a remote operation
Lifetime == 0 .. CacheTTL  \* what is left to a cache entry

(* A CachedToken, with its remaining time to live.  User stands for all    *)
(* the claims; age is the time since ZITADEL confirmed the PAT.            *)
CachedToken ==
  [isInvalid : BOOLEAN, user : Users \cup {NoUser},
   age : Clock, ttl : Lifetime]

(* A key that holds nothing, redis.Nil to the client.                      *)
Nothing == [isInvalid |-> FALSE, user |-> NoUser, age |-> 0, ttl |-> 0]

IsMarker(k) == redis[k].isInvalid
IsGrant(k) == redis[k].user # NoUser
IsMiss(k) == ~ IsMarker(k) /\ ~ IsGrant(k)

Remote == {"cacheGet", "userinfo", "cacheInvalid", "exchange", "cacheSet"}

Reasons == {"none", "ok", "missing authorization header", "PAT is empty",
            "cached invalid token", "admin PAT is not set",
            "get userinfo failed", "token exchange with actor failed",
            "parse id token failed"}

Request ==
  [pc : Remote \cup {"idle", "done"}, pat : Pats \cup {NoHeader, Blank},
   gone : BOOLEAN, due : Budget, user : Users \cup {NoUser}, age : Clock,
   reason : Reasons]

Idle ==
  [pc |-> "idle", pat |-> NoHeader, gone |-> FALSE, due |-> 0,
   user |-> NoUser, age |-> 0, reason |-> "none"]

Active(r) == req[r].pc \in Remote
Allowed(r) == req[r].pc = "done" /\ req[r].reason = "ok"
Refused(r) == req[r].pc = "done" /\ req[r].reason # "ok"

Key(r) == hashPAT(req[r].pat)
Failing(s) == s \in down

(* The cache lookup of request r need not see what Redis holds: Redis      *)
(* fails, or the context is done before the command is issued.             *)
Blind(r) == Failing("redis") \/ req[r].gone

Init ==
  /\ req = [r \in Requests |-> Idle]
  /\ redis = [k \in Keys |-> Nothing]
  /\ live \in SUBSET Pats
  /\ deadFor = [p \in Pats |-> IF p \in live THEN 0 ELSE Horizon]
  /\ down = {}
  /\ calm = Horizon

-----------------------------------------------------------------------------
(* How a request moves on.                                                 *)

(* Mutant: the timeout bounds each of three attempts, not the operation.   *)
CallPerAttempt(r, pc) ==
  req' = [req EXCEPT ![r] = [@ EXCEPT !.pc = pc, !.due = 3 * CallBudget]]

(* Start the next remote operation.                                        *)
Call(r, pc) ==
  req' = [req EXCEPT ![r] = [@ EXCEPT !.pc = pc, !.due = CallBudget]]

(* Answer 401 with a reason.                                               *)
Deny(r, reason) ==
  req' = [req EXCEPT ![r] = [@ EXCEPT !.pc = "done", !.due = 0, !.age = 0,
                                      !.user = NoUser, !.reason = reason]]

(* Answer 200 with the headers that name user u.                           *)
Allow(r, u, age) ==
  req' = [req EXCEPT ![r] = [@ EXCEPT !.pc = "done", !.due = 0, !.age = age,
                                      !.user = u, !.reason = "ok"]]

(* Mutant: the write is detached from the context of the request.          *)
CacheWriteDetached(r, value) ==
  \/ redis' = [redis EXCEPT ![Key(r)] = value]
  \/ Failing("redis") /\ UNCHANGED redis

(* TokenCache.Set.  A command is refused when the context of the request   *)
(* is done before it is issued; when Redis fails, the caller sees an error *)
(* whether or not the value was stored.  Either way the caller logs the    *)
(* error and goes on.                                                      *)
CacheWrite(r, value) ==
  \/ /\ ~ req[r].gone
     /\ redis' = [redis EXCEPT ![Key(r)] = value]
  \/ /\ req[r].gone \/ Failing("redis")
     /\ UNCHANGED redis

-----------------------------------------------------------------------------
(* The steps of a request.                                                 *)

(* A request arrives with header h.                                        *)
Check(r, h) ==
  /\ ~ Active(r)
  /\ \/ /\ h = NoHeader
        /\ req' = [req EXCEPT ![r] =
             [Idle EXCEPT !.pc = "done",
                          !.reason = "missing authorization header"]]
     \/ /\ h = Blank
        /\ req' = [req EXCEPT ![r] =
             [Idle EXCEPT !.pc = "done", !.pat = Blank,
                          !.reason = "PAT is empty"]]
     \/ /\ h \in Pats
        /\ req' = [req EXCEPT ![r] =
             [Idle EXCEPT !.pc = "cacheGet", !.pat = h, !.due = CallBudget]]
  /\ UNCHANGED <<redis, live, deadFor, down, calm>>

(* The cache lookup.  A miss and an error both fall through to ZITADEL, if *)
(* this replica has an admin PAT.                                          *)
CacheGet(r) ==
  /\ req[r].pc = "cacheGet"
  /\ \/ /\ IsMarker(Key(r))
        /\ Deny(r, "cached invalid token")
     \/ /\ IsGrant(Key(r))
        /\ Allow(r, redis[Key(r)].user, redis[Key(r)].age)
     \/ /\ IsMiss(Key(r)) \/ Blind(r)
        /\ r \in Configured
        /\ Call(r, "userinfo")
     \/ /\ IsMiss(Key(r)) \/ Blind(r)
        /\ r \notin Configured
        /\ Deny(r, "admin PAT is not set")
  /\ UNCHANGED <<redis, live, deadFor, down, calm>>

(* Mutants: the PAT is not verified at ZITADEL; a failing ZITADEL is       *)
(* waited for without a timeout.                                           *)
GetUserInfoUnverified(r) ==
  /\ req[r].pc = "userinfo"
  /\ req' = [req EXCEPT ![r] =
       [@ EXCEPT !.pc = "exchange", !.due = CallBudget,
                 !.user = Owner[req[r].pat], !.age = 0]]
  /\ UNCHANGED <<redis, live, deadFor, down, calm>>

GetUserInfoWaits(r) ==
  /\ req[r].pc = "userinfo"
  /\ ~ Failing("zitadel")
  /\ \/ /\ req[r].pat \in live
        /\ req' = [req EXCEPT ![r] =
             [@ EXCEPT !.pc = "exchange", !.due = CallBudget,
                       !.user = Owner[req[r].pat], !.age = 0]]
     \/ /\ req[r].pat \notin live \/ req[r].gone
        /\ Call(r, "cacheInvalid")
  /\ UNCHANGED <<redis, live, deadFor, down, calm>>

(* ZITADEL answers the userinfo call: the owner of a live PAT, or an error *)
(* for a dead PAT, an outage or a context that is done.                    *)
GetUserInfo(r) ==
  /\ req[r].pc = "userinfo"
  /\ \/ /\ req[r].pat \in live
        /\ req' = [req EXCEPT ![r] =
             [@ EXCEPT !.pc = "exchange", !.due = CallBudget,
                       !.user = Owner[req[r].pat], !.age = 0]]
     \/ /\ req[r].pat \notin live \/ Failing("zitadel") \/ req[r].gone
        /\ Call(r, "cacheInvalid")
  /\ UNCHANGED <<redis, live, deadFor, down, calm>>

(* Mutant: the marker is stored without an expiry.                         *)
CacheInvalidForever(r) ==
  /\ req[r].pc = "cacheInvalid"
  /\ CacheWrite(r, [Nothing EXCEPT !.isInvalid = TRUE])
  /\ Deny(r, "get userinfo failed")
  /\ UNCHANGED <<live, deadFor, down, calm>>

(* Any userinfo error is cached as an invalid token before the denial.     *)
CacheInvalid(r) ==
  /\ req[r].pc = "cacheInvalid"
  /\ CacheWrite(r, [Nothing EXCEPT !.isInvalid = TRUE, !.ttl = CacheTTL])
  /\ Deny(r, "get userinfo failed")
  /\ UNCHANGED <<live, deadFor, down, calm>>

(* ZITADEL exchanges the user for a JWT, with the admin PAT as actor: the  *)
(* user's own PAT plays no part, but the user may be gone with it.  A      *)
(* failure is not cached.                                                  *)
ExchangeWithActor(r) ==
  /\ req[r].pc = "exchange"
  /\ \/ Call(r, "cacheSet")
     \/ /\ req[r].pat \notin live \/ Failing("zitadel") \/ req[r].gone
        /\ Deny(r, "token exchange with actor failed")
     \/ /\ Failing("zitadel")
        /\ Deny(r, "parse id token failed")
  /\ UNCHANGED <<redis, live, deadFor, down, calm>>

(* Mutant: the claims are stored without an expiry.                        *)
CacheSetForever(r) ==
  /\ req[r].pc = "cacheSet"
  /\ CacheWrite(r, [isInvalid |-> FALSE, user |-> req[r].user,
                    age |-> req[r].age, ttl |-> 0])
  /\ Allow(r, req[r].user, req[r].age)
  /\ UNCHANGED <<live, deadFor, down, calm>>

(* The claims are cached and the request is allowed.                       *)
CacheSet(r) ==
  /\ req[r].pc = "cacheSet"
  /\ CacheWrite(r, [isInvalid |-> FALSE, user |-> req[r].user,
                    age |-> req[r].age, ttl |-> CacheTTL])
  /\ Allow(r, req[r].user, req[r].age)
  /\ UNCHANGED <<live, deadFor, down, calm>>

Step(r) ==
  \/ CacheGet(r)
  \/ GetUserInfo(r)
  \/ CacheInvalid(r)
  \/ ExchangeWithActor(r)
  \/ CacheSet(r)

-----------------------------------------------------------------------------
(* What may happen around a request.                                       *)

(* The context of the request ends: its client disconnects, or the read    *)
(* timeout of the server passes while the handler works, which net/http    *)
(* takes for the same.  While a cache write is under way nothing looks at  *)
(* the context any more.                                                   *)
Disconnect(r) ==
  /\ req[r].pc \in {"cacheGet", "userinfo", "exchange"}
  /\ ~ req[r].gone
  /\ req' = [req EXCEPT ![r].gone = TRUE]
  /\ UNCHANGED <<redis, live, deadFor, down, calm>>

(* The process serving the request dies, or the handler panics: what is    *)
(* in Redis stays.                                                         *)
Crash(r) ==
  /\ Active(r)
  /\ req' = [req EXCEPT ![r] = Idle]
  /\ UNCHANGED <<redis, live, deadFor, down, calm>>

(* A PAT is deleted or expires at ZITADEL; Redis hears nothing of it.      *)
Revoke(p) ==
  /\ p \in live
  /\ live' = live \ {p}
  /\ UNCHANGED <<req, redis, deadFor, down, calm>>

Fail(s) ==
  /\ ~ Failing(s)
  /\ down' = down \cup {s}
  /\ calm' = IF s = "zitadel" THEN 0 ELSE calm
  /\ UNCHANGED <<req, redis, live, deadFor>>

Recover(s) ==
  /\ Failing(s)
  /\ down' = down \ {s}
  /\ UNCHANGED <<req, redis, live, deadFor, calm>>

Later(n) == IF n < Horizon THEN n + 1 ELSE Horizon

(* An entry one tick later: Redis drops it when its time is up, and never  *)
(* when it was stored without an expiry.                                   *)
Aged(e) ==
  IF e.ttl = 1
  THEN Nothing
  ELSE [e EXCEPT !.ttl = IF @ = 0 THEN 0 ELSE @ - 1,
                 !.age = IF e.user = NoUser THEN 0 ELSE Later(@)]

(* One tick passes, unless an operation is at the end of its budget.       *)
Tick ==
  /\ \A r \in Requests : Active(r) => req[r].due > 0
  /\ req' = [r \in Requests |->
       IF Active(r)
       THEN [req[r] EXCEPT !.due = @ - 1,
                           !.age = IF req[r].user = NoUser THEN 0
                                                           ELSE Later(@)]
       ELSE req[r]]
  /\ redis' = [k \in Keys |-> Aged(redis[k])]
  /\ deadFor' = [p \in Pats |-> IF p \in live THEN 0 ELSE Later(deadFor[p])]
  /\ calm' = IF Failing("zitadel") THEN 0 ELSE Later(calm)
  /\ UNCHANGED <<live, down>>

Next ==
  \/ \E r \in Requests :
        \/ \E h \in Pats \cup {NoHeader, Blank} : Check(r, h)
        \/ Step(r)
        \/ Disconnect(r)
        \/ Crash(r)
  \/ \E p \in Pats : Revoke(p)
  \/ \E s \in Services : Fail(s) \/ Recover(s)
  \/ Tick

Spec == Init /\ [][Next]_vars

(* Goroutines are scheduled, every remote operation ends because it has a  *)
(* timeout, and time passes.  Nothing else is owed: no client has to come, *)
(* no outage has to end.                                                   *)
Fairness == WF_vars(Tick) /\ \A r \in Requests : WF_vars(Step(r))

FairSpec == Spec /\ Fairness

-----------------------------------------------------------------------------
(* Properties.                                                             *)

TypeOK ==
  /\ req \in [Requests -> Request]
  /\ redis \in [Keys -> CachedToken]
  /\ live \subseteq Pats
  /\ deadFor \in [Pats -> Clock]
  /\ down \subseteq Services
  /\ calm \in Clock

(* An allowed request carries the identity of the owner of the PAT it      *)
(* presented, whoever filled the cache and however the fills interleave    *)
(* (AuthorizePAT: hashPAT, the exchange for userInfo.Username).            *)
AllowNamesOwner ==
  \A r \in Requests : Allowed(r) => req[r].user = Owner[req[r].pat]

(* The longest time from ZITADEL's confirmation of a PAT to the last       *)
(* answer that rests on it: the exchange, the cache write, the entry.      *)
GrantLimit == 2 * CallBudget + CacheTTL

(* The headers and the JWT of an allowed request are never older than      *)
(* GrantLimit: a JWT that lives longer than this never reaches the backend *)
(* expired, although AuthorizePAT ignores its expires_in.                  *)
FreshGrant ==
  \A r \in Requests : Allowed(r) => req[r].age < GrantLimit

Answers(r) == req'[r] # req[r] /\ req'[r].pc = "done"

(* No request is allowed GrantLimit or more after its PAT was revoked,     *)
(* even when a fill that ZITADEL confirmed before the revocation reaches   *)
(* Redis after it, over a marker that says the PAT is invalid.             *)
RevocationLag ==
  [][\A r \in Requests :
       Answers(r) /\ Allowed(r)' =>
         \/ req'[r].pat \in live
         \/ deadFor[req'[r].pat] < GrantLimit]_vars

(* A live PAT presented to a configured replica by a client that waits,    *)
(* and waits less than the read timeout, is refused only while ZITADEL     *)
(* fails or within CallBudget + CacheTTL after: neither a failing Redis    *)
(* nor the end of other requests' contexts (whose userinfo calls fail too) *)
(* can make the service cache it as invalid.                               *)
PoisonWindow ==
  [][\A r \in Configured :
       /\ Answers(r)
       /\ Refused(r)'
       /\ req'[r].pat \in live
       /\ ~ req'[r].gone
       => calm < CallBudget + CacheTTL]_vars

(* An active request presents a PAT; what it got from ZITADEL is no older  *)
(* than the operations it has been through since, and not younger than the *)
(* revocation of the PAT; a marker it is about to write for a live PAT is  *)
(* owed to an outage within this operation's budget.                       *)
RequestInv(r) ==
  LET q == req[r] IN
    /\ Active(r) => q.pat \in Pats
    /\ q.pc \in {"exchange", "cacheSet"} =>
         q.user = Owner[q.pat] /\ deadFor[q.pat] <= q.age
    /\ q.pc = "exchange" => q.age + q.due <= CallBudget
    /\ q.pc = "cacheSet" => q.age + q.due <= 2 * CallBudget
    /\ q.pc = "cacheInvalid" /\ q.pat \in live /\ ~ q.gone =>
         calm + q.due <= CallBudget
    /\ Allowed(r) => q.user = Owner[q.pat] /\ q.age < GrantLimit

(* A cached grant leaves Redis before it is GrantLimit old, and a cached   *)
(* marker for a live PAT before an outage is over for longer than that.    *)
EntryInv(p) ==
  LET e == redis[hashPAT(p)] IN
    /\ e.user # NoUser =>
         /\ ~ e.isInvalid
         /\ e.user = Owner[p]
         /\ e.ttl > 0
         /\ e.age + e.ttl <= GrantLimit
         /\ deadFor[p] <= e.age
    /\ e.isInvalid /\ p \in live =>
         e.ttl > 0 /\ calm + e.ttl <= CallBudget + CacheTTL

(* The inductive invariant, for a CacheTTL above 0: what the safety        *)
(* properties rest on between the steps of the requests under way.         *)
IInv ==
  /\ TypeOK
  /\ \A p \in live : deadFor[p] = 0
  /\ Failing("zitadel") => calm = 0
  /\ \A r \in Requests : RequestInv(r)
  /\ \A p \in Pats : EntryInv(p)

(* Every request is answered, unless its process dies first: no handler    *)
(* waits for another, for Redis or for ZITADEL for ever.                   *)
RequestsEnd == \A r \in Requests : Active(r) ~> ~ Active(r)

(* Once ZITADEL stops failing for good, a configured replica eventually    *)
(* stops refusing a live PAT: what an outage left in the cache heals by    *)
(* itself.                                                                 *)
OutageHeals ==
  \A p \in Pats :
    <>[](p \in live /\ ~ Failing("zitadel")) =>
      <>[][\A r \in Configured :
             ~ (Answers(r) /\ Refused(r)' /\ req'[r].pat = p
                           /\ ~ req'[r].gone)]_vars
=============================================================================
