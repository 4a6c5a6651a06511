---------------------------- MODULE SystemProofs ----------------------------
(***************************************************************************)
(* What the two halves of the service promise together, for any number of  *)
(* requests, calls, humans and PATs.  The invariants of the halves come    *)
(* from AuthzProofs and PatProofs; what is new here is that each survives  *)
(* the steps of the other, and how their histories of a PAT join.          *)
(***************************************************************************)
EXTENDS System, TLAPS

AP == INSTANCE AuthzProofs WITH Users <- Humans, NoUser <- NoHuman
PP == INSTANCE PatProofs

-----------------------------------------------------------------------------
(* A and AP are two names of one module, and so are P and PP.              *)

(* A request does the same under either name.                              *)
LEMMA SameRequests ==
  ASSUME NEW r
  PROVE  /\ A!Step(r) <=> AP!Step(r)
         /\ A!Disconnect(r) <=> AP!Disconnect(r)
         /\ A!Crash(r) <=> AP!Crash(r)
         /\ \A h : A!Check(r, h) <=> AP!Check(r, h)
BY DEF A!Step, A!Disconnect, A!Crash, A!Check, A!CacheGet, A!GetUserInfo,
       A!CacheInvalid, A!ExchangeWithActor, A!CacheSet, A!Call, A!Deny,
       A!Allow, A!CacheWrite, A!Active, A!Remote, A!Idle, A!Key, A!IsMarker,
       A!IsGrant, A!IsMiss, A!Blind, A!Failing, A!hashPAT, A!Nothing,
       AP!Step, AP!Disconnect, AP!Crash, AP!Check, AP!CacheGet,
       AP!GetUserInfo, AP!CacheInvalid, AP!ExchangeWithActor, AP!CacheSet,
       AP!Call, AP!Deny, AP!Allow, AP!CacheWrite, AP!Active, AP!Remote,
       AP!Idle, AP!Key, AP!IsMarker, AP!IsGrant, AP!IsMiss, AP!Blind,
       AP!Failing, AP!hashPAT, AP!Nothing

(* So does what happens around requests.                                   *)
LEMMA SameAround ==
  /\ A!Tick <=> AP!Tick
  /\ A!Services = AP!Services
  /\ \A p : A!Revoke(p) <=> AP!Revoke(p)
  /\ \A s : (A!Fail(s) <=> AP!Fail(s)) /\ (A!Recover(s) <=> AP!Recover(s))
BY DEF A!Tick, A!Services, A!Revoke, A!Fail, A!Recover, A!Active, A!Remote,
       A!Aged, A!Later, A!Failing, A!Nothing, A!Keys, A!hashPAT,
       AP!Tick, AP!Services, AP!Revoke, AP!Fail, AP!Recover, AP!Active,
       AP!Remote, AP!Aged, AP!Later, AP!Failing, AP!Nothing, AP!Keys,
       AP!hashPAT

(* And what is said of a state or a step of the authorization path.        *)
LEMMA SameAuthz ==
  /\ A!Init <=> AP!Init
  /\ A!TypeOK <=> AP!TypeOK
  /\ A!GrantLimit = AP!GrantLimit
  /\ \A r : /\ A!Allowed(r) <=> AP!Allowed(r)
            /\ A!Allowed(r)' <=> AP!Allowed(r)'
            /\ A!Refused(r)' <=> AP!Refused(r)'
            /\ A!Answers(r) <=> AP!Answers(r)
BY DEF A!Init, A!TypeOK, A!GrantLimit, A!Allowed, A!Refused, A!Answers,
       A!Idle, A!Keys, A!hashPAT, A!Nothing, A!Request, A!Remote, A!Clock,
       A!Budget, A!Lifetime, A!Reasons, A!CachedToken, A!Services,
       AP!Init, AP!TypeOK, AP!GrantLimit, AP!Allowed, AP!Refused, AP!Answers,
       AP!Idle, AP!Keys, AP!hashPAT, AP!Nothing, AP!Request, AP!Remote,
       AP!Clock, AP!Budget, AP!Lifetime, AP!Reasons, AP!CachedToken,
       AP!Services

(* A call does the same under either name.                                 *)
LEMMA SameCalls ==
  ASSUME NEW c
  PROVE  /\ P!Step(c) <=> PP!Step(c)
         /\ P!Disconnect(c) <=> PP!Disconnect(c)
         /\ P!Crash(c) <=> PP!Crash(c)
         /\ \A op, u, p : P!Begin(c, op, u, p) <=> PP!Begin(c, op, u, p)
<1>1. \A pc, u : P!Writes(c, pc, u) = PP!Writes(c, pc, u)
                /\ P!Reads(c, pc, u) = PP!Reads(c, pc, u)
  BY DEF P!Reads, P!Writes, PP!Reads, PP!Writes
<1>2. /\ P!Failed(c) = PP!Failed(c)
      /\ \A result, answer :
           P!Returned(c, result, answer) = PP!Returned(c, result, answer)
      /\ \A result, misled :
           P!Nothing(c, result, misled) = PP!Nothing(c, result, misled)
  BY DEF P!Failed, P!Returned, P!Nothing, PP!Failed, PP!Returned, PP!Nothing
<1>3. \A r : P!Becomes(c, r) <=> PP!Becomes(c, r)
  BY DEF P!Becomes, P!Sent, P!Writing, PP!Becomes, PP!Sent, PP!Writing
<1>4. \A u : P!Matches(u) = PP!Matches(u) /\ P!PatsOf(u) = PP!PatsOf(u)
  BY DEF P!Matches, P!PatsOf, PP!Matches, PP!PatsOf
<1>5. P!GetMachineUser(c) <=> PP!GetMachineUser(c)
  BY <1>1, <1>2, <1>3, <1>4 DEF P!GetMachineUser, PP!GetMachineUser
<1>6. P!GetExistingUser(c) <=> PP!GetExistingUser(c)
  BY <1>1, <1>2, <1>3, <1>4 DEF P!GetExistingUser, PP!GetExistingUser
<1>7. P!ListTokens(c) <=> PP!ListTokens(c)
  <2>1. \A S : P!Cardinality(S) = PP!Cardinality(S)
    BY DEF P!Cardinality, PP!Cardinality
  <2> QED
    BY <1>2, <1>3, <1>4, <2>1 DEF P!ListTokens, PP!ListTokens
<1>8. P!Timeout(c) <=> PP!Timeout(c)
  BY DEF P!Timeout, P!Becomes, P!Sent, P!Failed, P!Returned, P!Writing,
         PP!Timeout, PP!Becomes, PP!Sent, PP!Failed, PP!Returned, PP!Writing
<1>9. \A op, u, p : P!Begin(c, op, u, p) <=> PP!Begin(c, op, u, p)
  BY DEF P!Begin, P!Nameable, P!PatsOf, PP!Begin, PP!Nameable, PP!PatsOf
<1>10. (P!Disconnect(c) <=> PP!Disconnect(c)) /\ (P!Crash(c) <=> PP!Crash(c))
  BY DEF P!Disconnect, P!Crash, P!Active, P!Reading, P!Writing,
         PP!Disconnect, PP!Crash, PP!Active, PP!Reading, PP!Writing
<1> QED
  BY <1>5, <1>6, <1>7, <1>8, <1>9, <1>10 DEF P!Step, PP!Step

(* And ZITADEL, with a message.                                            *)
LEMMA SameMessages ==
  ASSUME NEW m
  PROVE  /\ P!CreateUser(m) <=> PP!CreateUser(m)
         /\ P!AddToken(m) <=> PP!AddToken(m)
         /\ P!RemoveToken(m) <=> PP!RemoveToken(m)
         /\ P!Refuse(m) <=> PP!Refuse(m)
BY DEF P!CreateUser, P!AddToken, P!RemoveToken, P!Refuse, P!Reply, P!Waiting,
       P!Sent, P!Failed, P!Returned, P!Nothing, P!Reads, P!Writes, P!PatsOf,
       P!Writing,
       PP!CreateUser, PP!AddToken, PP!RemoveToken, PP!Refuse, PP!Reply,
       PP!Waiting, PP!Sent, PP!Failed, PP!Returned, PP!Nothing, PP!Reads,
       PP!Writes, PP!PatsOf, PP!Writing

(* And what is said of a state of PAT management.                          *)
LEMMA SamePats ==
  /\ P!Init <=> PP!Init
  /\ P!TypeOK <=> PP!TypeOK
  /\ \A c, op : P!Succeeded(c, op) <=> PP!Succeeded(c, op)
BY DEF P!Init, P!TypeOK, P!Succeeded, P!Fresh, P!Rpc, P!Message, P!Reading,
       P!Writing, P!Ops, P!Tries, P!Results,
       PP!Init, PP!TypeOK, PP!Succeeded, PP!Fresh, PP!Rpc, PP!Message,
       PP!Reading, PP!Writing, PP!Ops, PP!Tries, PP!Results

-----------------------------------------------------------------------------
(* What the proofs about the halves give, for the constants of System.     *)

(* The constants are such as PatService takes.                             *)
LEMMA PatsConstants ==
  /\ PP!IsFiniteSet(Pats) /\ Taken \subseteq Humans /\ NoHuman \notin Humans
  /\ NoPat \notin Pats /\ Retry \in Nat /\ Limit \in Nat
BY PatsAssumption DEF IsFiniteSet, PP!IsFiniteSet

(* Steps of PAT management keep its invariant.                             *)
LEMMA PatsSafe ==
  /\ PP!Init => PP!IInv
  /\ PP!IInv /\ [PP!Next]_PP!vars => PP!IInv'
BY PatsConstants, PP!InitSafe, PP!NextSafe DEF PP!InitSafe, PP!NextSafe

(* Steps of the authorization path keep its invariants.                    *)
LEMMA AuthzOwn ==
  /\ AP!Init => AP!OwnInv
  /\ AP!OwnInv /\ [AP!Next]_AP!vars => AP!OwnInv'
BY AuthzAssumption, AP!InitOwn, AP!NextOwn DEF AP!InitOwn, AP!NextOwn

LEMMA AuthzSafe ==
  /\ AP!Init => AP!IInv
  /\ CacheTTL > 0 /\ AP!IInv /\ [AP!Next]_AP!vars => AP!IInv'
BY AuthzAssumption, AP!InitSafe, AP!NextSafe DEF AP!InitSafe, AP!NextSafe

-----------------------------------------------------------------------------
(* The invariants that join the halves.                                    *)

(* A PAT belongs to nobody until it is minted, and then for good to the    *)
(* human Authz takes for its owner.                                        *)
OwnersInv == \A p \in Pats : owner[p] \in {Owner[p], NoHuman}

(* Before it is minted a PAT was in no request and has left no marker.     *)
KnownInv ==
  /\ \A r \in Requests : req[r].pat \in Pats => owner[req[r].pat] # NoHuman
  /\ \A p \in Pats :
       redis[AP!hashPAT(p)].isInvalid => owner[p] # NoHuman

(* The inductive invariant.                                                *)
SystemInv ==
  /\ PP!IInv /\ AP!OwnInv
  /\ OwnersInv /\ KnownInv
  /\ CacheTTL > 0 => AP!IInv

(* Nothing that was minted becomes free again.                             *)
OwnersStay == \A p \in Pats : owner[p] # NoHuman => owner'[p] = owner[p]

-----------------------------------------------------------------------------
(* What each half sees of a step.                                          *)

(* A PAT dies at ZITADEL, by no call of the service.                       *)
Expires ==
  /\ live' \subseteq live
  /\ UNCHANGED <<rpc, flight, machines, owner, minted>>

(* PAT management sees its own steps, and PATs expire.                     *)
LEMMA SeenByPats == [Next]_vars => [PP!Next]_PP!vars \/ Expires
<1> SUFFICES ASSUME [Next]_vars PROVE [PP!Next]_PP!vars \/ Expires
  OBVIOUS
<1>1. ASSUME NEW r \in Requests, Check(r) \/ Authorize(r)
      PROVE  Expires
  BY <1>1 DEF Check, Authorize, Expires, pats, A!Check, A!Step, A!Disconnect,
              A!Crash, A!CacheGet, A!GetUserInfo, A!CacheInvalid,
              A!ExchangeWithActor, A!CacheSet
<1>2. CASE Around
  BY <1>2 DEF Around, Expires, pats, A!Revoke, A!Fail, A!Recover, A!Tick
<1>3. ASSUME NEW c \in Calls, Manage(c)
      PROVE  PP!Next
  <2>1. /\ Operations \subseteq PP!Ops
        /\ Callers \subseteq Humans \cup {NoHuman}
    BY BoundsAssumption DEF PP!Ops
  <2> QED
    BY <1>3, <2>1, SameCalls DEF Manage, PP!Next
<1>4. ASSUME NEW m \in flight, Execute(m)
      PROVE  PP!Next
  BY <1>4, SameMessages DEF Execute, AddToken, PP!Next, PP!Execute
<1>5. CASE UNCHANGED vars
  BY <1>5 DEF vars, pats, PP!vars
<1> QED
  BY <1>1, <1>2, <1>3, <1>4, <1>5 DEF Next

(* The authorization path sees its own steps, with the death of a PAT by   *)
(* DeletePAT among them, and PATs are minted.                              *)
LEMMA SeenByAuthz ==
  ASSUME [Next]_vars, AP!TypeOK
  PROVE  [AP!Next]_AP!vars \/ \E m \in flight : AddToken(m)
<1>1. ASSUME NEW r \in Requests, Check(r)
      PROVE  AP!Next
  BY <1>1, BoundsAssumption, SameRequests DEF Check, AP!Next
<1>2. ASSUME NEW r \in Requests, Authorize(r)
      PROVE  AP!Next
  BY <1>2, SameRequests DEF Authorize, AP!Next
<1>3. CASE Around
  BY <1>3, SameAround DEF Around, AP!Next
<1>4. ASSUME NEW c \in Calls, Manage(c)
      PROVE  UNCHANGED AP!vars
  BY <1>4 DEF Manage, authz, AP!vars, P!Begin, P!Step, P!Disconnect, P!Crash,
              P!GetMachineUser, P!GetExistingUser, P!ListTokens, P!Timeout
<1>5. ASSUME NEW m \in flight, Execute(m), ~ AddToken(m)
      PROVE  [AP!Next]_AP!vars
  <2>1. CASE P!RemoveToken(m)
    <3>1. rpc[m.call].pat \in live /\ live' = live \ {rpc[m.call].pat}
      BY <2>1 DEF P!RemoveToken, P!PatsOf
    <3>2. rpc[m.call].pat \in Pats
      BY <3>1 DEF AP!TypeOK
    <3>3. AP!Revoke(rpc[m.call].pat)
      BY <1>5, <3>1 DEF Execute, authz, AP!Revoke
    <3> QED
      BY <3>2, <3>3 DEF AP!Next
  <2>2. CASE P!CreateUser(m) \/ P!Refuse(m)
    BY <1>5, <2>2 DEF Execute, authz, AP!vars, P!CreateUser, P!Refuse
  <2> QED
    BY <1>5, <2>1, <2>2 DEF Execute
<1>6. CASE UNCHANGED vars
  BY <1>6 DEF vars, authz, AP!vars
<1> QED
  BY <1>1, <1>2, <1>3, <1>4, <1>5, <1>6 DEF Next

-----------------------------------------------------------------------------
(* Each invariant survives.                                                *)

(* PAT management does not mind that PATs expire: a deletion that was      *)
(* reported stays true, and a late message has no PAT left to remove.      *)
LEMMA ExpirySafe ==
  ASSUME PP!IInv, Expires
  PROVE  PP!IInv'
<1>1. PP!TypeOK'
  BY DEF Expires, PP!IInv, PP!TypeOK
<1>2. ASSUME NEW c \in Calls
      PROVE  PP!CallInv(c)' /\ PP!PatInv(c)'
  BY DEF Expires, PP!IInv, PP!CallInv, PP!PatInv, PP!Active, PP!Succeeded
<1>3. ASSUME NEW m \in flight
      PROVE  PP!MsgInv(m)'
  BY DEF Expires, PP!IInv, PP!MsgInv
<1>4. PP!OwnedInv'
  BY DEF Expires, PP!IInv, PP!OwnedInv
<1> QED
  BY <1>1, <1>2, <1>3, <1>4 DEF PP!IInv, Expires

(* Only AddToken gives a PAT an owner, and none takes it away.             *)
LEMMA OwnersMove ==
  ASSUME PP!IInv, [Next]_vars
  PROVE  OwnersStay /\ (owner' = owner \/ \E m \in flight : AddToken(m))
<1>1. CASE \E m \in flight : AddToken(m)
  <2>1. PICK m \in flight : P!AddToken(m)
    BY <1>1 DEF AddToken
  <2> QED
    BY <1>1, <2>1 DEF P!AddToken, OwnersStay, PP!IInv, PP!TypeOK
<1>2. CASE ~ \E m \in flight : AddToken(m)
  <2>1. ASSUME NEW r \in Requests, Check(r) \/ Authorize(r)
        PROVE  owner' = owner
    BY <2>1 DEF Check, Authorize, Around, pats
  <2>2. ASSUME Around
        PROVE  owner' = owner
    BY <2>2 DEF Around, pats
  <2>3. ASSUME NEW c \in Calls, Manage(c)
        PROVE  owner' = owner
    <3>1. ASSUME NEW op, NEW u, NEW p, P!Begin(c, op, u, p)
          PROVE  owner' = owner
      BY <3>1 DEF P!Begin
    <3>2. ASSUME P!Step(c)
          PROVE  owner' = owner
      BY <3>2 DEF P!Step, P!GetMachineUser, P!GetExistingUser, P!ListTokens,
                  P!Timeout
    <3>3. ASSUME P!Disconnect(c) \/ P!Crash(c)
          PROVE  owner' = owner
      BY <3>3 DEF P!Disconnect, P!Crash
    <3> QED
      BY <2>3, <3>1, <3>2, <3>3 DEF Manage
  <2>4. ASSUME NEW m \in flight, Execute(m), ~ AddToken(m)
        PROVE  owner' = owner
    BY <2>4 DEF Execute, P!CreateUser, P!RemoveToken, P!Refuse
  <2>5. ASSUME UNCHANGED vars
        PROVE  owner' = owner
    <3>1. UNCHANGED pats
      BY <2>5 DEF vars
    <3> QED
      BY <3>1 DEF pats
  <2>6. owner' = owner
    BY <1>2, <2>1, <2>2, <2>3, <2>4, <2>5 DEF Next
  <2> QED
    BY <2>6 DEF OwnersStay
<1> QED
  BY <1>1, <1>2

(* What is minted belonged to nobody and was dead; it lives from now on,   *)
(* for the human Authz takes for its owner.                                *)
LEMMA MintedIs ==
  ASSUME PP!IInv, NEW m \in flight, AddToken(m)
  PROVE  \E p \in Pats :
           /\ owner[p] = NoHuman /\ p \notin live
           /\ live' = live \cup {p}
           /\ owner' = [owner EXCEPT ![p] = Owner[p]]
           /\ deadFor' = [q \in Pats |-> IF q = p THEN 0 ELSE deadFor[q]]
           /\ UNCHANGED <<req, redis, down, calm>>
<1>1. PICK p \in Pats :
        /\ owner[p] = NoHuman
        /\ owner' = [owner EXCEPT ![p] = rpc[m.call].machine]
        /\ live' = live \cup {p}
  BY DEF AddToken, P!AddToken
<1>2. p \notin live
  BY <1>1 DEF PP!IInv, PP!OwnedInv
<1>3. live' \ live = {p} /\ owner'[p] = rpc[m.call].machine
  BY <1>1, <1>2 DEF PP!IInv, PP!TypeOK
<1>4. rpc[m.call].machine = Owner[p]
  BY <1>3 DEF AddToken
<1> QED
  BY <1>1, <1>2, <1>3, <1>4 DEF AddToken

(* The owner of a PAT that was minted is right for good.                   *)
LEMMA OwnersSafe ==
  ASSUME PP!IInv, OwnersInv, [Next]_vars
  PROVE  OwnersInv'
<1>1. CASE owner' = owner
  BY <1>1 DEF OwnersInv
<1>2. ASSUME NEW m \in flight, AddToken(m)
      PROVE  OwnersInv'
  BY <1>2, MintedIs DEF OwnersInv, PP!IInv, PP!TypeOK
<1> QED
  BY <1>1, <1>2, OwnersMove

(* A request keeps its PAT while it moves.                                 *)
LEMMA PatsStay ==
  ASSUME AP!TypeOK, AP!ActivePats, NEW r \in Requests,
         AP!Step(r) \/ AP!Disconnect(r) \/ AP!Crash(r) \/ AP!Tick
  PROVE  \A q \in Requests : req'[q].pat = req[q].pat \/ req'[q].pat \notin Pats
<1> DEFINE Stay == \A q \in Requests :
                     req'[q].pat = req[q].pat \/ req'[q].pat \notin Pats
<1>1. ASSUME AP!OthersStay(r),
             req'[r].pat = req[r].pat \/ req'[r].pat \notin Pats
      PROVE  Stay
  BY <1>1 DEF AP!OthersStay
<1>2. ASSUME NEW pc \in AP!Remote, AP!Call(r, pc)
      PROVE  Stay
  BY <1>1, <1>2, AuthzAssumption, AP!CallEffect DEF AP!CallEffect
<1>3. ASSUME NEW reason \in AP!Reasons, AP!Deny(r, reason)
      PROVE  Stay
  BY <1>1, <1>3, AuthzAssumption, AP!DenyEffect DEF AP!DenyEffect
<1>4. ASSUME NEW u \in Humans \cup {NoHuman}, NEW age \in AP!Clock,
             AP!Allow(r, u, age)
      PROVE  Stay
  BY <1>1, <1>4, AuthzAssumption, AP!AllowEffect DEF AP!AllowEffect
<1>5. CASE AP!CacheGet(r)
  <2>1. redis[AP!Key(r)] \in AP!CachedToken
    BY <1>5 DEF AP!CacheGet, AP!Key, AP!Keys, AP!TypeOK, AP!ActivePats,
                AP!Active, AP!Remote
  <2>2. /\ redis[AP!Key(r)].user \in Humans \cup {NoHuman}
        /\ redis[AP!Key(r)].age \in AP!Clock
    BY <2>1 DEF AP!CachedToken
  <2> QED
    BY <1>2, <1>3, <1>4, <1>5, <2>2 DEF AP!CacheGet, AP!Reasons, AP!Remote
<1>6. CASE AP!GetUserInfo(r)
  <2>1. req[r].pat \in Pats
    BY <1>6 DEF AP!GetUserInfo, AP!ActivePats, AP!Active, AP!Remote
  <2> QED
    BY <1>1, <1>6, <2>1, AuthzAssumption, AP!ConfirmEffect
       DEF AP!ConfirmEffect
<1>7. CASE AP!CacheInvalid(r)
  BY <1>3, <1>7 DEF AP!CacheInvalid, AP!Reasons
<1>8. CASE AP!ExchangeWithActor(r)
  BY <1>2, <1>3, <1>8 DEF AP!ExchangeWithActor, AP!Reasons, AP!Remote
<1>9. CASE AP!CacheSet(r)
  <2>1. req[r].user \in Humans \cup {NoHuman} /\ req[r].age \in AP!Clock
    BY DEF AP!TypeOK, AP!Request
  <2> QED
    BY <1>4, <1>9, <2>1 DEF AP!CacheSet
<1>10. CASE AP!Disconnect(r)
  BY <1>1, <1>10, AuthzAssumption, AP!DisconnectEffect
     DEF AP!DisconnectEffect
<1>11. CASE AP!Crash(r)
  <2>1. AP!Idle.pat \notin Pats
    BY AuthzAssumption DEF AP!Idle
  <2> QED
    BY <1>1, <1>11, <2>1, AuthzAssumption, AP!CrashEffect DEF AP!CrashEffect
<1>12. CASE AP!Tick
  BY <1>12, AuthzAssumption, AP!TickEffect DEF AP!TickEffect
<1> QED
  BY <1>5, <1>6, <1>7, <1>8, <1>9, <1>10, <1>11, <1>12 DEF AP!Step

(* A marker appears under the key of a request alone.                      *)
LEMMA MarkersAppear ==
  ASSUME AP!TypeOK, AP!ActivePats, [AP!Next]_AP!vars, NEW p \in Pats,
         redis'[AP!hashPAT(p)].isInvalid
  PROVE  \/ redis[AP!hashPAT(p)].isInvalid
         \/ \E r \in Requests : req[r].pat = p
<1> DEFINE k == AP!hashPAT(p)
<1>1. k \in AP!Keys /\ redis[k] \in AP!CachedToken
  BY DEF AP!Keys, AP!TypeOK
<1>2. ASSUME NEW r \in Requests, AP!CacheInvalid(r) \/ AP!CacheSet(r)
      PROVE  redis'[k] = redis[k] \/ req[r].pat = p
  <2>1. \/ redis' = redis
        \/ \E value : redis' = [redis EXCEPT ![AP!Key(r)] = value]
    BY <1>2 DEF AP!CacheInvalid, AP!CacheSet, AP!CacheWrite
  <2>2. AP!Key(r) = k => req[r].pat = p
    BY DEF AP!Key, AP!hashPAT
  <2> QED
    BY <1>1, <2>1, <2>2 DEF AP!TypeOK
<1>3. CASE AP!Tick
  <2>1. redis'[k] = AP!Aged(redis[k])
    BY <1>1, <1>3 DEF AP!Tick
  <2> QED
    BY <1>1, <2>1 DEF AP!Aged, AP!CachedToken, AP!Nothing
<1>4. CASE redis' = redis
  BY <1>4
<1> QED
  BY <1>2, <1>3, <1>4
     DEF AP!Next, AP!vars, AP!Step, AP!Check, AP!CacheGet, AP!GetUserInfo,
         AP!ExchangeWithActor, AP!Disconnect, AP!Crash, AP!Revoke, AP!Fail,
         AP!Recover

(* A request comes with a PAT that was minted, and a marker is for the PAT *)
(* of a request.                                                           *)
LEMMA KnownSafe ==
  ASSUME PP!IInv, AP!TypeOK, AP!ActivePats, KnownInv, [Next]_vars
  PROVE  KnownInv'
<1>1. OwnersStay
  BY OwnersMove
<1>2. CASE \E m \in flight : AddToken(m)
  BY <1>1, <1>2 DEF AddToken, KnownInv, OwnersStay
<1>3. CASE [AP!Next]_AP!vars
  <2>1. ASSUME NEW p \in Pats, redis'[AP!hashPAT(p)].isInvalid
        PROVE  owner'[p] # NoHuman
    BY <1>1, <1>3, <2>1, MarkersAppear DEF KnownInv, OwnersStay
  <2>2. \A r \in Requests : req'[r].pat \in Pats =>
          owner[req'[r].pat] # NoHuman
    <3> DEFINE Known == \A q \in Requests : req'[q].pat \in Pats =>
                                              owner[req'[q].pat] # NoHuman
    <3>1. ASSUME NEW r \in Requests, Check(r)
          PROVE  Known
      <4>1. PICK h : A!Check(r, h) /\ (h \in Pats => owner[h] # NoHuman)
        BY <3>1 DEF Check, Held
      <4>2. ASSUME NEW q, q.pat = h, req' = [req EXCEPT ![r] = q]
            PROVE  Known
        BY <4>1, <4>2 DEF KnownInv, AP!TypeOK
      <4>3. CASE h = NoHeader
        <5>1. [A!Idle EXCEPT !.pc = "done",
                  !.reason = "missing authorization header"].pat = h
          BY <4>3 DEF A!Idle
        <5> QED
          BY <4>1, <4>2, <4>3, <5>1, AuthzAssumption DEF A!Check
      <4>4. CASE h = Blank
        <5>1. [A!Idle EXCEPT !.pc = "done", !.pat = Blank,
                  !.reason = "PAT is empty"].pat = h
          BY <4>4 DEF A!Idle
        <5> QED
          BY <4>1, <4>2, <4>4, <5>1, AuthzAssumption DEF A!Check
      <4>5. CASE h \in Pats
        <5>1. [A!Idle EXCEPT !.pc = "cacheGet", !.pat = h,
                  !.due = CallBudget].pat = h
          BY DEF A!Idle
        <5> QED
          BY <4>1, <4>2, <4>5, <5>1, AuthzAssumption DEF A!Check
      <4> QED
        BY <4>1, <4>3, <4>4, <4>5 DEF A!Check
    <3>2. ASSUME NEW r \in Requests, Authorize(r)
          PROVE  Known
      BY <3>2, PatsStay, SameRequests DEF Authorize, KnownInv
    <3>3. CASE A!Tick
      <4>1. CASE Requests = {}
        BY <4>1
      <4>2. CASE Requests # {}
        BY <3>3, <4>2, PatsStay, SameAround DEF KnownInv
      <4> QED
        BY <4>1, <4>2
    <3>4. CASE req' = req
      BY <3>4 DEF KnownInv
    <3> QED
      BY <3>1, <3>2, <3>3, <3>4
         DEF Next, vars, authz, Around, Manage, Execute, AddToken, A!Revoke,
             A!Fail, A!Recover
  <2> QED
    BY <1>1, <2>1, <2>2 DEF KnownInv, OwnersStay
<1> QED
  BY <1>2, <1>3, SeenByAuthz

(* A PAT that is minted is one the authorization path knows nothing of: no *)
(* request waits to mark it as invalid, and no marker is left of it.       *)
LEMMA MintSafe ==
  ASSUME SystemInv, NEW m \in flight, AddToken(m)
  PROVE  AP!OwnInv' /\ (CacheTTL > 0 => AP!IInv')
<1>1. PICK p \in Pats :
        /\ owner[p] = NoHuman /\ p \notin live
        /\ live' = live \cup {p}
        /\ deadFor' = [q \in Pats |-> IF q = p THEN 0 ELSE deadFor[q]]
        /\ UNCHANGED <<req, redis, down, calm>>
  BY MintedIs DEF SystemInv
<1>2. AP!TypeOK'
  <2>1. 0 \in AP!Clock
    BY AuthzAssumption DEF AP!Clock
  <2> QED
    BY <1>1, <2>1 DEF SystemInv, AP!OwnInv, AP!TypeOK
<1>3. AP!OwnInv'
  BY <1>1, <1>2
     DEF SystemInv, AP!OwnInv, AP!ActivePats, AP!OwnRequest, AP!OwnEntry,
         AP!Active, AP!Allowed
<1>4. ASSUME CacheTTL > 0
      PROVE  AP!IInv'
  <2>1. AP!IInv
    BY <1>4 DEF SystemInv
  <2>2. \A q \in live' : deadFor'[q] = 0
    BY <1>1, <2>1 DEF AP!IInv, AP!TypeOK
  <2>3. AP!Failing("zitadel")' => calm' = 0
    BY <1>1, <2>1 DEF AP!IInv, AP!Failing
  <2>4. ASSUME NEW r \in Requests
        PROVE  AP!RequestInv(r)'
    <3>1. req[r].pat # p /\ AP!RequestInv(r) /\ req[r] \in AP!Request
      BY <1>1, <2>1 DEF SystemInv, KnownInv, AP!IInv, AP!TypeOK
    <3>2. req[r].pat \in Pats =>
            /\ deadFor'[req[r].pat] = deadFor[req[r].pat]
            /\ req[r].pat \in live' => req[r].pat \in live
      BY <1>1, <3>1
    <3>3. req[r].pc \in {"exchange", "cacheSet", "cacheInvalid"} => AP!Active(r)
      BY DEF AP!Active, AP!Remote
    <3> QED
      BY <1>1, <3>1, <3>2, <3>3 DEF AP!RequestInv, AP!Active, AP!Allowed
  <2>5. ASSUME NEW q \in Pats
        PROVE  AP!EntryInv(q)'
    <3>1. AP!EntryInv(q) /\ redis[AP!hashPAT(q)] \in AP!CachedToken
      BY <2>1 DEF AP!IInv, AP!TypeOK, AP!Keys
    <3>2. CASE q = p
      <4>1. ~ redis[AP!hashPAT(p)].isInvalid
        BY <1>1 DEF SystemInv, KnownInv
      <4>2. deadFor'[p] = 0 /\ redis[AP!hashPAT(p)].age \in Nat
        BY <1>1, <3>1, <3>2 DEF AP!CachedToken, AP!Clock
      <4> QED
        BY <1>1, <3>1, <3>2, <4>1, <4>2 DEF AP!EntryInv
    <3>3. CASE q # p
      BY <1>1, <3>1, <3>3 DEF AP!EntryInv
    <3> QED
      BY <3>2, <3>3
  <2> QED
    BY <1>2, <2>2, <2>3, <2>4, <2>5 DEF AP!IInv
<1> QED
  BY <1>3, <1>4

-----------------------------------------------------------------------------
(* The theorems.                                                           *)

(* The system starts within the invariant.                                 *)
LEMMA InitSafe == Init => SystemInv
<1> SUFFICES ASSUME Init PROVE SystemInv
  OBVIOUS
<1>1. PP!IInv /\ AP!OwnInv /\ AP!IInv
  BY PatsSafe, AuthzOwn, AuthzSafe, SamePats, SameAuthz DEF Init
<1>2. OwnersInv
  BY DEF Init, OwnersInv
<1>3. KnownInv
  <2>1. \A r \in Requests : req[r].pat \notin Pats
    BY AuthzAssumption DEF Init, A!Init, A!Idle
  <2>2. \A p \in Pats : ~ redis[AP!hashPAT(p)].isInvalid
    BY DEF Init, A!Init, A!Keys, A!hashPAT, A!Nothing, AP!hashPAT
  <2> QED
    BY <2>1, <2>2 DEF KnownInv
<1> QED
  BY <1>1, <1>2, <1>3 DEF SystemInv

(* Every step keeps it.                                                    *)
LEMMA NextSafe == SystemInv /\ [Next]_vars => SystemInv'
<1> SUFFICES ASSUME SystemInv, [Next]_vars PROVE SystemInv'
  OBVIOUS
<1>1. PP!IInv /\ AP!OwnInv /\ AP!TypeOK /\ AP!ActivePats
  BY DEF SystemInv, AP!OwnInv
<1>2. PP!IInv'
  BY <1>1, PatsSafe, SeenByPats, ExpirySafe
<1>3. AP!OwnInv' /\ (CacheTTL > 0 => AP!IInv')
  <2>1. CASE [AP!Next]_AP!vars
    BY <2>1, AuthzOwn, AuthzSafe DEF SystemInv
  <2> QED
    BY <1>1, <2>1, SeenByAuthz, MintSafe
<1>4. OwnersInv' /\ KnownInv'
  BY <1>1, OwnersSafe, KnownSafe DEF SystemInv
<1> QED
  BY <1>2, <1>3, <1>4 DEF SystemInv

(* The two halves keep their invariants, and join, in every state.         *)
THEOREM Safety == Spec => []SystemInv
BY InitSafe, NextSafe, PTL DEF Spec

(* Both halves stay well typed while each changes what both rely on.       *)
THEOREM TypeCorrect == Spec => []TypeOK
<1>1. SystemInv => TypeOK
  BY SameAuthz, SamePats DEF SystemInv, TypeOK, PP!IInv, AP!OwnInv
<1> QED
  BY <1>1, Safety, PTL

(* Whoever presents a PAT is served as the human CreatePAT made it for.    *)
THEOREM CreatorsAreServed == Spec => []ServedAsCreator
<1>1. SystemInv => ServedAsCreator
  <2> SUFFICES ASSUME SystemInv, NEW r \in Requests, NEW c \in Calls,
                      A!Allowed(r), req[r].pat \in minted[c]
               PROVE  req[r].user = rpc[c].user
    BY DEF ServedAsCreator
  <2>1. req[r].user = Owner[req[r].pat]
    BY SameAuthz DEF SystemInv, AP!OwnInv, AP!OwnRequest
  <2>2. owner[req[r].pat] = rpc[c].user /\ rpc[c].user \in Humans
    BY DEF SystemInv, PP!IInv, PP!PatInv
  <2>3. req[r].pat \in Pats
    BY DEF SystemInv, PP!IInv, PP!TypeOK
  <2> QED
    BY <2>1, <2>2, <2>3, PatsAssumption DEF SystemInv, OwnersInv
<1> QED
  BY <1>1, Safety, PTL

(* An answer is a step of the authorization path.                          *)
LEMMA WhoAnswers ==
  ASSUME SystemInv, [Next]_vars, NEW r \in Requests, A!Answers(r)
  PROVE  [AP!Next]_AP!vars
<1>1. \A m \in flight : ~ AddToken(m)
  BY DEF AddToken, A!Answers
<1> QED
  BY <1>1, SeenByAuthz DEF SystemInv, AP!OwnInv

(* It comes in time, as in AuthzProofs: after the death of its PAT ...     *)
LEMMA AllowedInTime ==
  ASSUME CacheTTL > 0, SystemInv, [Next]_vars,
         NEW r \in Requests, A!Answers(r), A!Allowed(r)'
  PROVE  req'[r].pat \in live \/ deadFor[req'[r].pat] < A!GrantLimit
<1>1. AP!IInv /\ [AP!Next]_AP!vars
  BY WhoAnswers DEF SystemInv
<1> QED
  BY <1>1, SameAuthz, AuthzAssumption, AP!AnswerLag DEF AP!AnswerLag

(* ... and after an outage.                                                *)
LEMMA RefusedInTime ==
  ASSUME CacheTTL > 0, SystemInv, [Next]_vars,
         NEW r \in Configured, A!Answers(r), A!Refused(r)',
         req'[r].pat \in live, ~ req'[r].gone
  PROVE  calm < CallBudget + CacheTTL
<1>1. r \in Requests
  BY AuthzAssumption
<1>2. AP!IInv /\ [AP!Next]_AP!vars
  BY <1>1, WhoAnswers DEF SystemInv
<1> QED
  BY <1>2, SameAuthz, AuthzAssumption, AP!RefusalCalm DEF AP!RefusalCalm

(* After DeletePAT reported a PAT as deleted it is refused GrantLimit      *)
(* after its death at the latest, with whatever the cache and the fills    *)
(* under way still hold of it.                                             *)
THEOREM DeletionTakesHold ==
  ASSUME CacheTTL > 0
  PROVE  Spec => DeletedStops
<1>1. ASSUME SystemInv, [Next]_vars, NEW r \in Requests,
             A!Answers(r), A!Allowed(r)', Reported(req'[r].pat)
      PROVE  /\ req'[r].pat \notin live
             /\ deadFor[req'[r].pat] < A!GrantLimit
  <2>1. req'[r].pat \notin live
    BY <1>1, SamePats DEF Reported, SystemInv, PP!IInv, PP!PatInv
  <2> QED
    BY <1>1, <2>1, AllowedInTime
<1>2. SystemInv /\ [Next]_vars =>
        [\A r \in Requests :
           A!Answers(r) /\ A!Allowed(r)' /\ Reported(req'[r].pat) =>
             /\ req'[r].pat \notin live
             /\ deadFor[req'[r].pat] < A!GrantLimit]_vars
  BY <1>1
<1> QED
  BY <1>2, Safety, PTL DEF Spec, DeletedStops

(* A PAT that CreatePAT answered with is refused only while ZITADEL fails  *)
(* or shortly after: nothing the cache held before stands in its way.      *)
THEOREM CreationTakesHold ==
  ASSUME CacheTTL > 0
  PROVE  Spec => CreatedWorks
<1>1. SystemInv /\ [Next]_vars =>
        [\A r \in Configured, c \in Calls :
           /\ A!Answers(r) /\ A!Refused(r)'
           /\ ~ req'[r].gone
           /\ P!Succeeded(c, "create")
           /\ req'[r].pat \in rpc[c].answer
           /\ req'[r].pat \in live
           => calm < CallBudget + CacheTTL]_vars
  BY RefusedInTime
<1> QED
  BY <1>1, Safety, PTL DEF Spec, CreatedWorks

(* PAT management keeps its promises although PATs expire, which its own   *)
(* model leaves out, and are presented all the time.                       *)
THEOREM ManagementUndisturbed ==
  Spec => [](P!CreatedIsOwn /\ P!ConflictIsForeign /\ P!DeletedIsGone)
<1>1. SystemInv =>
        P!CreatedIsOwn /\ P!ConflictIsForeign /\ P!DeletedIsGone
  <2> SUFFICES ASSUME PP!IInv
               PROVE  P!CreatedIsOwn /\ P!ConflictIsForeign /\ P!DeletedIsGone
    BY DEF SystemInv
  <2>1. P!CreatedIsOwn /\ P!DeletedIsGone
    BY SamePats DEF PP!IInv, PP!PatInv, P!CreatedIsOwn, P!DeletedIsGone
  <2>2. P!ConflictIsForeign
    BY DEF PP!IInv, PP!CallInv, PP!Conflict, P!ConflictIsForeign
  <2> QED
    BY <2>1, <2>2
<1> QED
  BY <1>1, Safety, PTL

(* The authorization path keeps its promises although PATs are minted,     *)
(* which its own model leaves out: no cached answer is too old, whichever  *)
(* way a PAT died, and no marker stands in the way of a PAT for long,      *)
(* whenever it was minted.                                                 *)
THEOREM AuthorizationUndisturbed ==
  ASSUME CacheTTL > 0
  PROVE  Spec => /\ [](A!AllowNamesOwner /\ A!FreshGrant)
                 /\ A!RevocationLag
                 /\ A!PoisonWindow
<1>1. SystemInv => A!AllowNamesOwner /\ A!FreshGrant
  BY SameAuthz
     DEF SystemInv, AP!OwnInv, AP!OwnRequest, AP!IInv, AP!RequestInv,
         A!AllowNamesOwner, A!FreshGrant
<1>2. SystemInv /\ [Next]_vars =>
        [\A r \in Requests :
           A!Answers(r) /\ A!Allowed(r)' =>
             \/ req'[r].pat \in live
             \/ deadFor[req'[r].pat] < A!GrantLimit]_(A!vars)
  BY AllowedInTime
<1>3. SystemInv /\ [Next]_vars =>
        [\A r \in Configured :
           /\ A!Answers(r)
           /\ A!Refused(r)'
           /\ req'[r].pat \in live
           /\ ~ req'[r].gone
           => calm < CallBudget + CacheTTL]_(A!vars)
  BY RefusedInTime
<1> QED
  BY <1>1, <1>2, <1>3, Safety, PTL
     DEF Spec, A!RevocationLag, A!PoisonWindow
=============================================================================
